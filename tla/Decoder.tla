------------------------------- MODULE Decoder -------------------------------
(***************************************************************************)
(* The decoder, dbrew_decode of decode.c: the tables of opcodes and the    *)
(* decoding of a basic block, one instruction at a time.                   *)
(*                                                                         *)
(* A handler is a C function; the tables hold its name.                    *)
(***************************************************************************)
EXTENDS DecodeHandlers

----------------------------------------------------------------------------
(***************************************************************************)
(* Table entries: for all uses of an opcode, by prefix set or by digit     *)
(***************************************************************************)
Entry(it, vt, hs)  == [ it |-> it, vt |-> vt, hs |-> hs ]
Single(it, vt, hs) == [ t |-> "OT_Single", e |-> << Entry(it, vt, hs) >> ]
setOpcH(h)         == Single("None", "VT_Def", << h >>)
setOpcG(vt, its, hs) ==
  [ t |-> "OT_Group", e |-> [d \in 0 .. 7 |-> Entry(its[d + 1], vt, hs)] ]

\* Without prefix, with 66, F3, F2: instructions its ("": none) of types vts.
PrefixOrder == << {}, {"66"}, {"F3"}, {"F2"} >>
setOpcP(vts, its, hs) ==
  [ t |-> "OT_Four",
    e |-> [ps \in { PrefixOrder[k] : k \in { n \in 1 .. 4 : its[n] # "" } } |->
             LET k == CHOOSE n \in 1 .. 4 : PrefixOrder[n] = ps
             IN Entry(its[k], vts[k], hs)] ]

ScalarTypes == << "VT_128", "VT_128", "VT_32", "VT_64" >>
Of128       == << "VT_128", "VT_128", "VT_128", "VT_128" >>
Of256       == << "VT_256", "VT_256", "VT_256", "VT_256" >>
RM          == << "parseRMVV", "addBInsImp", "attach" >>
MR          == << "parseMRVV", "addBInsImp", "attach" >>
RVM         == << "parseRVM", "addTInsImp", "attach" >>

AllOf(opcs, info) == [o \in opcs |-> info]

----------------------------------------------------------------------------
(***************************************************************************)
(* The tables                                                              *)
(***************************************************************************)
AluOps == << "ADD", "OR", "ADC", "SBB", "AND", "SUB", "XOR", "CMP" >>
ByteOrDef(o) == IF o % 2 = 0 THEN "VT_8" ELSE "VT_Def"

\* 00 - 3D: six encodings of each operation.
AluTable ==
  [o \in { 8 * k + n : k \in 0 .. 7, n \in 0 .. 5 } |->
     Single(AluOps[(o \div 8) + 1], ByteOrDef(o),
            CASE o % 8 \in {0, 1} -> << "parseMR", "addBInstr" >>
              [] o % 8 \in {2, 3} -> << "parseRM", "addBInstr" >>
              [] o % 8 \in {4, 5} -> << "setO1RegA", "parseI2", "addBInstr" >>)]

\* 50 - 7F: stack, IMUL with three operands, short jumps on condition.
StackTables ==
  << AllOf(\h50 .. \h57, setOpcH("50")), AllOf(\h58 .. \h5F, setOpcH("58")),
     At(\h63, setOpcH("63")), At(\h68, setOpcH("68")), At(\h6A, setOpcH("6A")),
     At(\h69, Single("IMUL", "VT_Def", << "parseRM", "parseI3", "addTInstr" >>)),
     At(\h6B, Single("IMUL", "VT_Def", << "parseRM", "parseI3_8se", "addTInstr" >>)),
     AllOf(\h70 .. \h7F, setOpcH("70")) >>

\* 80 - 83: the operation is given by a digit.
GroupTables ==
  << At(\h80, setOpcG("VT_8", AluOps, << "parseMI", "addBInstr" >>)),
     At(\h81, setOpcG("VT_Def", AluOps, << "parseMI", "addBInstr" >>)),
     At(\h83, setOpcG("VT_Def", AluOps, << "parseMI_8se", "addBInstr" >>)) >>

\* 84 - FF
MoveTables ==
  << [o \in {\h84, \h85} |-> Single("TEST", ByteOrDef(o), << "parseMR", "addBInstr" >>)],
     [o \in {\h88, \h89} |-> Single("MOV", ByteOrDef(o), << "parseMR", "addBInstr" >>)],
     [o \in {\h8A, \h8B} |-> Single("MOV", ByteOrDef(o), << "parseRM", "addBInstr" >>)],
     [o \in {\hA8, \hA9} |->
        Single("TEST", ByteOrDef(o), << "setO1RegA", "parseI2", "addBInstr" >>)],
     At(\h8D, setOpcH("8D")),
     At(\h8F, [ t |-> "OT_Group", e |-> At(0, Entry("None", "VT_Def", << "8F_0" >>)) ]),
     At(\h90, Single("NOP", "VT_None", << "addSInstr" >>)),
     At(\h98, setOpcH("98")), At(\h99, setOpcH("99")),
     At(\h9C, setOpcH("9C")), At(\h9D, setOpcH("9D")), AllOf(\hB0 .. \hBF, setOpcH("B0")),
     At(\hC0, setOpcH("C0")), At(\hC1, setOpcH("C1")),
     At(\hC3, Single("RET", "VT_None", << "addSInstr", "reqExit" >>)),
     At(\hC6, setOpcH("C6")), At(\hC7, setOpcH("C7")),
     At(\hC9, Single("LEAVE", "VT_None", << "addSInstr" >>)),
     At(\hD0, setOpcH("D0")), At(\hD1, setOpcH("D1")), At(\hD2, setOpcH("D2")),
     At(\hD3, setOpcH("D3")), At(\hE8, setOpcH("E8")), At(\hE9, setOpcH("E9")),
     At(\hEB, setOpcH("EB")), At(\hF6, setOpcH("F6")), At(\hF7, setOpcH("F7")),
     At(\hFE, setOpcH("FE")), At(\hFF, setOpcH("FF")) >>

opcTable ==
  Tables(<< AluTable, Tables(StackTables), Tables(GroupTables), Tables(MoveTables) >>)

\* After 0F: moves of vector registers.
Moves0F ==
  << At(\h10, setOpcP(ScalarTypes, << "MOVUPS", "MOVUPD", "MOVSS", "MOVSD" >>, RM)),
     At(\h11, setOpcP(ScalarTypes, << "MOVUPS", "MOVUPD", "MOVSS", "MOVSD" >>, MR)),
     At(\h12, setOpcH("0F_12")), At(\h13, setOpcH("0F_13")), At(\h14, setOpcH("0F_14")),
     At(\h15, setOpcH("0F_15")), At(\h16, setOpcH("0F_16")), At(\h17, setOpcH("0F_17")),
     At(\h1F, setOpcH("0F_1F")), At(\h28, setOpcH("0F_28")), At(\h29, setOpcH("0F_29")),
     At(\h2E, setOpcH("0F_2E")) >>

\* Computations with them.
ADDs == << "ADDPS", "ADDPD", "ADDSS", "ADDSD" >>
Arithmetic0F ==
  << At(\h51, setOpcP(ScalarTypes, << "SQRTPS", "SQRTPD", "SQRTSS", "SQRTSD" >>, RM)),
     At(\h52, setOpcP(ScalarTypes, << "RSQRTPS", "", "RSQRTSS", "" >>, RM)),
     At(\h53, setOpcP(ScalarTypes, << "RCPPS", "", "RCPSS", "" >>, RM)),
     At(\h54, setOpcP(ScalarTypes, << "ANDPS", "ANDPD", "", "" >>, RM)),
     At(\h55, setOpcP(ScalarTypes, << "ANDNPS", "ANDNPD", "", "" >>, RM)),
     At(\h56, setOpcP(ScalarTypes, << "ORPS", "ORPD", "", "" >>, RM)),
     At(\h57, setOpcP(ScalarTypes, << "XORPS", "XORPD", "", "" >>, RM)),
     At(\h58, setOpcP(ScalarTypes, ADDs, << "parseRMVV", "addBInsImp" >>)),
     At(\h59, setOpcP(ScalarTypes, << "MULPS", "MULPD", "MULSS", "MULSD" >>, RM)),
     At(\h5C, setOpcP(ScalarTypes, << "SUBPS", "SUBPD", "SUBSS", "SUBSD" >>, RM)),
     At(\h5D, setOpcP(ScalarTypes, << "MINPS", "MINPD", "MINSS", "MINSD" >>, RM)),
     At(\h5E, setOpcP(ScalarTypes, << "DIVPS", "DIVPD", "DIVSS", "DIVSD" >>, RM)),
     At(\h5F, setOpcP(ScalarTypes, << "MAXPS", "MAXPD", "MAXSS", "MAXSD" >>, RM)) >>

\* 0F 6E - 0F EF
Integer0F ==
  << At(\h6E, [ t |-> "OT_Four", e |-> At({"66"}, Entry("None", "VT_Def", << "0F_6E_P66" >>)) ]),
     At(\h6F, setOpcP(<< "VT_64", "VT_128", "VT_128", "" >>,
                      << "MOVQ", "MOVDQA", "MOVDQU", "" >>, RM)),
     At(\h74, setOpcH("0F_74")),
     At(\h7C, setOpcP(Of128, << "", "HADDPD", "", "HADDPS" >>, RM)),
     At(\h7D, setOpcP(Of128, << "", "HSUBPD", "", "HSUBPS" >>, RM)),
     At(\h7E, setOpcH("0F_7E")), At(\h7F, setOpcH("0F_7F")),
     At(\hD0, setOpcP(Of128, << "", "ADDSUBPD", "", "ADDSUBPS" >>, RM)),
     At(\hD4, setOpcH("0F_D4")), At(\hD6, setOpcH("0F_D6")), At(\hD7, setOpcH("0F_D7")),
     At(\hDA, setOpcH("0F_DA")), At(\hEF, setOpcH("0F_EF")) >>

\* Conditional moves and jumps, multiplication, extending moves.
General0F ==
  << AllOf(\h40 .. \h4F, setOpcH("0F_40")), AllOf(\h80 .. \h8F, setOpcH("0F_80")),
     At(\hAF, Single("IMUL", "VT_Def", << "parseRM", "addBInstr" >>)),
     At(\hBC, Single("BSF", "VT_Def", << "parseRM", "addBInstr" >>)),
     At(\hB6, setOpcH("0F_B6")), At(\hB7, setOpcH("0F_B7")), At(\hBE, setOpcH("0F_BE")),
     At(\hBF, setOpcH("0F_BF")) >>

opcTable0F ==
  Tables(<< Tables(Moves0F), Tables(Arithmetic0F), Tables(Integer0F), Tables(General0F) >>)

\* With VEX prefix.  Scalars are asked for with any L, but installed for 128 bits.
VexScalarTypes(scalar) == << "VT_128", "VT_128", scalar, "VT_64" >>

VexMoves128 ==
  LET vts   == VexScalarTypes("VT_64")
      moves == << "VMOVUPS", "VMOVUPD", "VMOVSS", "VMOVSD" >>
  IN Tables(<< At(\h10, setOpcP(vts, moves, RM)), At(\h11, setOpcP(vts, moves, MR)) >>)
VexMoves256 ==
  LET moves == << "VMOVUPS", "VMOVUPD", "", "" >>
  IN Tables(<< At(\h10, setOpcP(Of256, moves, RM)), At(\h11, setOpcP(Of256, moves, MR)) >>)

\* Moves that are the same for both lengths.
VexAligned(vts) ==
  LET moves == << "VMOVAPS", "VMOVAPD", "", "" >>
  IN Tables(<< At(\h28, setOpcP(vts, moves, RM)), At(\h29, setOpcP(vts, moves, MR)) >>)
VexInteger(vts, zero) ==
  LET moves == << "", "VMOVDQA", "VMOVDQU", "" >>
  IN Tables(<<
       At(\h6F, setOpcP(vts, moves, RM)), At(\h7F, setOpcP(vts, moves, MR)),
       At(\h77, setOpcP([k \in 1 .. 4 |-> "VT_None"], << zero, "", "", "" >>,
                         << "addSInstr", "attach" >>)) >>)
VexNonTemporal(vts) == At(\hE7, setOpcP(vts, << "", "VMOVNTDQ", "", "" >>, MR))

VexXor(vts)  == At(\h57, setOpcP(vts, << "VXORPS", "VXORPD", "", "" >>, RVM))
VexArith128  ==
  LET vts == VexScalarTypes("VT_32")
  IN Tables(<<
       At(\h58, setOpcP(vts, << "VADDPS", "VADDPD", "VADDSS", "VADDSD" >>, RVM)),
       At(\h59, setOpcP(vts, << "VMULPS", "VMULPD", "VMULSS", "VMULSD" >>, RVM)) >>)
VexArith256  ==
  Tables(<<
    At(\h58, setOpcP(Of256, << "VADDPS", "VADDPD", "", "" >>, RVM)),
    At(\h59, setOpcP(Of256, << "VMULPS", "VMULPD", "", "" >>, RVM)) >>)

VexTable(vts, zero) ==
  Tables(<< VexAligned(vts), VexInteger(vts, zero), VexNonTemporal(vts), VexXor(vts) >>)

opcTable0F_V128 == Tables(<< VexMoves128, VexArith128, VexTable(Of128, "VZEROUPPER") >>)
opcTable0F_V256 == Tables(<< VexMoves256, VexArith256, VexTable(Of256, "VZEROALL") >>)

----------------------------------------------------------------------------
(***************************************************************************)
(* Running the handlers                                                    *)
(***************************************************************************)
Handler(h, c) ==
  CASE h = "parseRM"     -> parseRM(c)
    [] h = "parseMR"     -> parseMR(c)
    [] h = "parseMI"     -> parseMI(c)
    [] h = "parseMI_8se" -> parseMI_8se(c)
    [] h = "parseI2"     -> parseI2(c)
    [] h = "parseI3"     -> parseI3(c)
    [] h = "parseI3_8se" -> parseI3_8se(c)
    [] h = "setO1RegA"   -> setO1RegA(c)
    [] h = "parseRMVV"   -> parseRMVV(c)
    [] h = "parseMRVV"   -> parseMRVV(c)
    [] h = "parseRVM"    -> parseRVM(c)
    [] h = "addSInstr"   -> addSimple(c, c.it, c.vt)
    [] h = "addBInstr"   -> addBinaryOp(c, c.it, c.vt)
    [] h = "addBInsImp"  -> addBinaryOp(c, c.it, "VT_Implicit")
    [] h = "addTInstr"   -> addTernaryOp(c, c.it, c.vt)
    [] h = "addTInsImp"  -> addTernaryOp(c, c.it, "VT_Implicit")
    [] h = "reqExit"     -> [c EXCEPT !.exit = TRUE]
    [] h = "attach"      -> attach(c, c.vex, c.ps, c.oe, "SC_None")
    [] h \in {"BadOpcode", "BadPrefix"} -> markDecodeError(c, h)
    [] h = "assert"      -> Require(c, FALSE)
    [] h = "50" -> decode_50(c) [] h = "58" -> decode_58(c) [] h = "63" -> decode_63(c)
    [] h = "68" -> decode_68(c) [] h = "6A" -> decode_6A(c) [] h = "70" -> decode_70(c)
    [] h = "8D" -> decode_8D(c) [] h = "8F_0" -> decode_8F_0(c)
    [] h = "98" -> decode_98(c) [] h = "99" -> decode_99(c)
    [] h = "9C" -> decode_9C(c) [] h = "9D" -> decode_9D(c) [] h = "B0" -> decode_B0(c)
    [] h = "C0" -> decode_C0(c) [] h = "C1" -> decode_C1(c)
    [] h = "C6" -> decode_C6(c) [] h = "C7" -> decode_C7(c)
    [] h = "D0" -> decode_D0(c) [] h = "D1" -> decode_D1(c)
    [] h = "D2" -> decode_D2(c) [] h = "D3" -> decode_D3(c)
    [] h = "E8" -> decode_E8(c) [] h = "E9" -> decode_E9(c) [] h = "EB" -> decode_EB(c)
    [] h = "F6" -> decode_F6(c) [] h = "F7" -> decode_F7(c)
    [] h = "FE" -> decode_FE(c) [] h = "FF" -> decode_FF(c)
    [] h = "0F_12" -> decode0F_12(c) [] h = "0F_13" -> decode0F_13(c)
    [] h = "0F_14" -> decode0F_14(c) [] h = "0F_15" -> decode0F_15(c)
    [] h = "0F_16" -> decode0F_16(c) [] h = "0F_17" -> decode0F_17(c)
    [] h = "0F_1F" -> decode0F_1F(c) [] h = "0F_28" -> decode0F_28(c)
    [] h = "0F_29" -> decode0F_29(c) [] h = "0F_2E" -> decode0F_2E(c)
    [] h = "0F_40" -> decode0F_40(c) [] h = "0F_6E_P66" -> decode0F_6E_P66(c)
    [] h = "0F_74" -> decode0F_74(c) [] h = "0F_7E" -> decode0F_7E(c)
    [] h = "0F_7F" -> decode0F_7F(c) [] h = "0F_80" -> decode0F_80(c)
    [] h = "0F_B6" -> decode0F_B6(c) [] h = "0F_B7" -> decode0F_B7(c)
    [] h = "0F_BE" -> decode0F_BE(c) [] h = "0F_BF" -> decode0F_BF(c)
    [] h = "0F_D4" -> decode0F_D4(c) [] h = "0F_D6" -> decode0F_D6(c)
    [] h = "0F_D7" -> decode0F_D7(c) [] h = "0F_DA" -> decode0F_DA(c)
    [] h = "0F_EF" -> decode0F_EF(c)

\* A handler does nothing after an error, or when the process has ended.
Then(c, h) == IF c.abort \/ c.error # "none" THEN c ELSE Handler(h, c)

OperandType(c, vt) ==
  CASE vt # "VT_Def"  -> vt
    [] vt = "VT_Def" /\ "66" \in c.ps -> "VT_16"
    [] OTHER -> IF Wide(c) THEN "VT_64" ELSE "VT_32"

\* The entry of the table for the opcode, chosen by prefix or digit where the
\* opcode is shared; an entry that only fails if there is none.
Failing(h) == [ it |-> "None", vt |-> "VT_None", hs |-> << h >> ]

entryOf(c, table, o) ==
  IF o \notin DOMAIN table THEN Failing("BadOpcode")
  ELSE LET oi    == table[o]
           digit == (Byte(c, 0) \div 8) % 8
       IN CASE oi.t = "OT_Single" -> oi.e[1]
            [] oi.t = "OT_Four" /\ c.ps \notin Range(PrefixOrder) -> Failing("assert")
            [] oi.t = "OT_Four" /\ c.ps \in DOMAIN oi.e -> oi.e[c.ps]
            [] oi.t = "OT_Group" ->
                 IF digit \in DOMAIN oi.e THEN oi.e[digit] ELSE Failing("BadOpcode")
            [] OTHER -> Failing("BadPrefix")

\* Up to three handlers in a row.
followedBy(d, hs, k) == IF Len(hs) >= k THEN Then(d, hs[k]) ELSE d

processOpc(c, table, o) ==
  LET e == entryOf(c, table, o)
      d == Handler(e.hs[1], [c EXCEPT !.it = e.it, !.vt = OperandType(c, e.vt)])
  IN followedBy(followedBy(d, e.hs, 2), e.hs, 3)

\* Decodes the instruction at c.
decodeInstr(c0) ==
  LET c     == decodePrefixes(c0)
      vex   == c.vex # "VEX_No"
      opc1  == IF vex THEN \h0F ELSE Byte(c, 0)
      d     == Skip([c EXCEPT !.opc = << opc1 >>], IF vex THEN 0 ELSE 1)
      opc2  == Byte(d, 0)
      table == CASE c.vex = "VEX_128" -> opcTable0F_V128
                 [] c.vex = "VEX_256" -> opcTable0F_V256
                 [] ~vex /\ opc1 = \h0F -> opcTable0F
                 [] OTHER -> opcTable
      two   == opc1 = \h0F
  IN IF c.abort THEN c
     ELSE processOpc(IF two THEN Skip([d EXCEPT !.opc = << opc1, opc2 >>], 1) ELSE d,
                     table, IF two THEN opc2 ELSE opc1)

----------------------------------------------------------------------------
(***************************************************************************)
(* Decoding blocks                                                         *)
(***************************************************************************)
Cached(f)  == \E k \in DOMAIN decBB : decBB[k].addr = f
Block(f)   == decBB[CHOOSE k \in DOMAIN decBB : decBB[k].addr = f]
InstrsOf(b) == SubSeq(decInstr, b.instr, b.instr + b.count - 1)

DecoderInit(m) ==
  /\ mem = m /\ decInstr = << >> /\ decBB = << >> /\ cxt = Context /\ status = "ready"

\* dbrew_decode, until the loop: nothing to do for a block that is decoded.
StartDecode(f) ==
  /\ status = "ready" /\ ~Cached(f)
  /\ IF Len(decBB) < decBBCapacity
     THEN /\ decBB' = Append(decBB, [ addr |-> f, instr |-> Len(decInstr) + 1,
                                      count |-> 0, size |-> 0 ])
          /\ cxt' = [Context EXCEPT !.f = f]
          /\ status' = "decoding"
     ELSE status' = "aborted" /\ UNCHANGED << decBB, cxt >>
  /\ UNCHANGED << mem, decInstr >>

\* One round of the loop, with the context c after the instruction, and what
\* follows the last one.
round(c) ==
  LET b  == Last(decBB)
      is == IF c.ii = NoInstr THEN decInstr ELSE Append(decInstr, c.ii)
      n  == Len(is) - b.instr + 1
  IN /\ UNCHANGED mem
     /\ IF c.abort
        THEN status' = "aborted" /\ UNCHANGED << decInstr, decBB, cxt >>
        ELSE /\ decInstr' = is
             /\ IF c.exit \/ c.error # "none"
                THEN /\ decBB' = [decBB EXCEPT ![Len(decBB)].count = n,
                                               ![Len(decBB)].size = c.off]
                     /\ cxt' = Context
                     \* Of a block without instructions, the address of the first
                     \* is read behind the array.
                     /\ status' \in IF n = 0 THEN {"ready", "aborted"}
                                    ELSE IF is[b.instr].addr = b.addr THEN {"ready"}
                                    ELSE {"aborted"}
                ELSE /\ cxt' = [Context EXCEPT !.f = c.f, !.off = c.off]
                     /\ UNCHANGED << decBB, status >>

DecodeStep == status = "decoding" /\ FewPrefixes(cxt) /\ round(decodeInstr(cxt))

\* Mutant: what was decoded before is kept.
ResetKeepsBlocks ==
  /\ status = "ready"
  /\ UNCHANGED << decInstr, decBB, cxt, status >>

\* initRewriter, when a function is set: blocks and instructions are forgotten.
ResetDecoder ==
  /\ status = "ready"
  /\ decInstr' = << >> /\ decBB' = << >>
  /\ UNCHANGED << cxt, status >>
=============================================================================
