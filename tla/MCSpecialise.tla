---------------------------- MODULE MCSpecialise ----------------------------
(***************************************************************************)
(* Instances of Specialise.                                                *)
(***************************************************************************)
EXTENDS Specialise

A  == RegOp("A")
D  == RegOp("D")
DI == RegOp("DI")
SP == RegOp("SP")
BP == RegOp("BP")

MCRegs == {"A", "D", "DI", "SP", "BP"}

\* Arithmetic and flags, without memory.
ArithmeticPalette ==
  { Binary(t, A, DI) : t \in {"MOV", "ADD", "SUB", "IMUL", "AND", "OR", "XOR", "CMP", "TEST",
                              "SHL", "SAR", "CMOVZ", "CMOVNC"} }
  \cup { Binary("XOR", A, A), Binary("MOV", A, Imm(1)), Binary("MOV", A, BP), Binary("XOR", D, D),
         Binary("CMP", DI, A), Binary("ADD", DI, A),
         Binary("SHR", DI, Imm(1)), Binary("LEA", A, Ind(1, "A", "DI")),
         Unary("INC", A), Unary("DEC", DI), Unary("NEG", A), Unary("IDIV", DI), Simple("CQTO") }

\* A stack frame: saved registers, a local variable, memory behind a pointer, and
\* vector registers.  The parameter is a pointer.
Local  == Ind(15, "BP", "None")     \* the slot below the frame pointer
Target == Ind(0, "DI", "None")

FramePalette ==
  { Unary("PUSH", BP), Binary("MOV", BP, SP), Binary("SUB", SP, Imm(1)), Simple("LEAVE"), Simple("RET"),
    Unary("PUSH", Imm(6)), Unary("POP", A), Unary("POP", BP),
    Binary("MOV", Local, DI), Binary("MOV", Local, Imm(5)), Binary("MOV", A, Local),
    Binary("ADD", Local, DI), Unary("INC", Local), Binary("SUB", A, BP), Binary("LEA", A, Local),
    Binary("MOV", A, Target), Binary("MOV", Target, A),
    Binary("VLOAD", NoOp, Local), Binary("VADD", NoOp, Target), Binary("VSTORE", Local, NoOp),
    Binary("VGET", A, NoOp) }

\* Functions called, with known and unknown values on the stack.
CallPalette ==
  { Binary("CALL", Imm(f), Imm(4)) : f \in {7, MakeDynamic, MakeStatic} }
  \cup { Binary("CALL", DI, Imm(3)), Simple("RET"),
         Unary("PUSH", DI), Unary("PUSH", Imm(6)),
         Unary("POP", A), Unary("POP", DI), Binary("MOV", A, DI), Unary("INC", DI),
         Binary("MOV", Ind(0, "SP", "None"), Imm(5)), Binary("MOV", A, Ind(14, "SP", "None")) }

\* Small palettes for what goes wrong.
ComparePalette == { Binary("MOV", A, Imm(1)), Binary("CMP", A, DI), Binary("CMP", DI, A) }

ProductPalette == ComparePalette \cup { Ternary("IMUL", A, DI, Imm(3)) }

CountPalette == ComparePalette \cup { Unary("DEC", DI), Binary("ADD", DI, Imm(1)) }

Kind(instrs, pars, known, bound) ==
  [ palette |-> instrs, values |-> pars, states |-> known, steps |-> bound ]
Plain(instrs) == Kind(instrs, {0, 1, 8, 15}, {"DYNAMIC", "STATIC"}, 4)

Arithmetic == [ arithmetic |-> Plain(ArithmeticPalette) ]
Compare    == [ compare |-> Plain(ComparePalette) ]
Product    == [ product |-> Plain(ProductPalette) ]
Count      == [ count |-> Plain(CountPalette) ]
Stack      == [ frame |-> Kind(FramePalette, {0, 1}, {"DYNAMIC", "STATIC", "STATIC2"}, 5),
                calls |-> Kind(CallPalette, {1, 8}, {"DYNAMIC", "STATIC"}, 6) ]

AllBranches ==
  {"JO", "JNO", "JC", "JNC", "JZ", "JNZ", "JS", "JNS", "JP", "JNP", "JL", "JGE"}
=============================================================================
