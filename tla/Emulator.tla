------------------------------ MODULE Emulator ------------------------------
(***************************************************************************)
(* The capturing emulator: processInstr of src/emulate.c with its helpers. *)
(* It executes one instruction on an emulator state, in which every value  *)
(* carries what is known about it, and yields the instructions to capture: *)
(* those that have to be executed later, as they depend on unknown data.   *)
(*                                                                         *)
(* Values have one width and a stack slot holds one value.  An emulator    *)
(* state owns a stack at StackStart, in the process that rewrites; its     *)
(* stack pointer is known relative to where the stack starts when the      *)
(* rewritten code runs.                                                    *)
(***************************************************************************)
EXTENDS X86

CONSTANTS
  StackStart,         \* address of the emulator's stack
  StackSize,
  MAX_CALLDEPTH,      \* size of ret_stack
  CC_MAXCALLDEPTH,    \* size of force_unknown
  force_unknown,      \* depths where results are made unknown
  hasReturnFP,        \* whether the function rewritten returns floating point
  MakeDynamic,        \* addresses of the functions with these names
  MakeStatic

StackTop == StackStart + StackSize

ASSUME EmulatorAssumption ==
  /\ StackStart \in Nat /\ StackSize \in Nat \ {0} /\ StackTop \in Word
  /\ MAX_CALLDEPTH \in Nat /\ CC_MAXCALLDEPTH \in Nat
  /\ force_unknown \subseteq 0 .. (CC_MAXCALLDEPTH - 1)
  /\ hasReturnFP \in BOOLEAN
  /\ MakeDynamic # MakeStatic

CaptureState == {"DEAD", "DYNAMIC", "STATIC", "STACKRELATIVE", "STATIC2"}

Slots == 0 .. (StackSize - 1)

EmuState == [ reg        : [Regs -> Word],
              reg_state  : [Regs -> CaptureState],
              flag       : [FlagType -> BOOLEAN],
              flag_state : [FlagType -> CaptureState],
              stack      : [Slots -> Word],
              stackState : [Slots -> CaptureState],
              stackAccessed : 0 .. StackSize,          \* as a slot
              ret_stack  : Seq(Word),                  \* its length is the depth
              parent     : {"None", "Rewriter"},       \* the state it was cloned from
              mem        : [Word -> Word] ]            \* of the rewriting process

Depth(e) == Len(e.ret_stack)

\* The outcome of emulating an instruction: a new state and what is captured.
\* err tells an error passed up from a failed assertion.
Done(e, out) == [ es |-> e, out |-> out, err |-> "none" ]
Error(e)     == [ es |-> e, out |-> <<>>, err |-> "error" ]
Abort(e)     == [ es |-> e, out |-> <<>>, err |-> "abort" ]

----------------------------------------------------------------------------
(***************************************************************************)
(* Capture states                                                          *)
(***************************************************************************)
csIsStatic(s) == s \in {"STATIC", "STATIC2"}

EmuValue(v, s) == [ val |-> v, state |-> s ]
IsStatic(v)    == csIsStatic(v.state)

combineState(s1, s2, isSameValue) ==
  LET both == {s1, s2}
  IN CASE "DEAD" \in both -> "DEAD"
       [] both \subseteq {"STATIC", "STATIC2"} ->
            IF "STATIC2" \in both THEN "STATIC2" ELSE "STATIC"
       [] isSameValue /\ both = {"STACKRELATIVE"} -> "STACKRELATIVE"
       [] /\ ~isSameValue
          /\ "STACKRELATIVE" \in both
          /\ both \cap {"STATIC", "STATIC2"} # {} -> "STACKRELATIVE"
       [] OTHER -> "DYNAMIC"

combineState4Flags(s1, s2) ==
  LET s == combineState(s1, s2, FALSE)
  IN CASE s = "STACKRELATIVE" -> "DYNAMIC"
       [] s = "STATIC2"       -> "STATIC"
       [] OTHER               -> s

\* Whether values of two states are as good as equal.  Stack-relative ones need
\* the same parent: "sameParent".
csIsEqual(s1, v1, s2, v2, sameParent) ==
  \/ csIsStatic(s1) /\ csIsStatic(s2) /\ v1 = v2
  \/ s1 = "STACKRELATIVE" /\ s2 = s1 /\ sameParent /\ v1 = v2
  \/ s1 \in {"DEAD", "DYNAMIC"} /\ s2 = s1

\* Whether state e equals saved state s, which keeps the accessed part of its
\* stack only.
esIsEqual(e, s) ==
  LET equal(s1, v1, s2, v2) == csIsEqual(s1, v1, s2, v2, e.parent = s.parent)
  IN /\ \A r \in Regs : equal(e.reg_state[r], e.reg[r], s.reg_state[r], s.reg[r])
     /\ \A f \in FlagType : equal(e.flag_state[f], e.flag[f], s.flag_state[f], s.flag[f])
     /\ Depth(e) = Depth(s)
     /\ \A o \in Slots :
          IF o < s.stackAccessed THEN ~csIsStatic(e.stackState[o])
          ELSE equal(e.stackState[o], e.stack[o], s.stackState[o], s.stack[o])

\* A saved copy of e, and e as it is after restoring that copy: the part of the
\* stack that was never accessed is new.  Memory is not part of it.
cloneEmuState(e) ==
  [ e EXCEPT !.parent = "Rewriter",
             !.stack = [o \in Slots |-> IF o < e.stackAccessed THEN 0 ELSE @[o]],
             !.stackState = [o \in Slots |-> IF o < e.stackAccessed THEN "DEAD" ELSE @[o]] ]

copyEmuState(e, s) == [ s EXCEPT !.mem = e.mem ]

\* The state emulation starts in, with parameters in registers: known ones as
\* in state, memory of the rewriting process as in mem.
calleeSave == {"BP"} \cap Regs

resetEmuState(mem) ==
  [ reg        |-> [r \in Regs |-> 0],
    reg_state  |-> [r \in Regs |-> IF r \in calleeSave THEN "DYNAMIC" ELSE "DEAD"],
    flag       |-> [f \in FlagType |-> FALSE],
    flag_state |-> [f \in FlagType |-> "DEAD"],
    stack      |-> [o \in Slots |-> 0],
    stackState |-> [o \in Slots |-> "DEAD"],
    stackAccessed |-> StackSize,
    ret_stack  |-> <<>>,
    parent     |-> "None",
    mem        |-> mem ]

withParameters(e, par, state) ==
  [ e EXCEPT
      !.reg = [r \in Regs |-> IF r \in DOMAIN par THEN par[r]
                              ELSE IF r = "SP" THEN StackTop ELSE @[r]],
      !.reg_state = [r \in Regs |-> IF r \in DOMAIN par THEN state[r]
                                    ELSE IF r = "SP" THEN "STACKRELATIVE" ELSE @[r]] ]

----------------------------------------------------------------------------
(***************************************************************************)
(* Reading and writing operands                                            *)
(***************************************************************************)
OnStack(addr) == StackStart <= addr.val /\ addr.val < StackTop
Offset(addr)  == addr.val - StackStart
KnownOffset(addr) == addr.state = "STACKRELATIVE"

getStackState(e, addr) ==
  IF ~KnownOffset(addr) THEN "DYNAMIC"
  ELSE IF Offset(addr) < e.stackAccessed THEN "DEAD"
  ELSE e.stackState[Offset(addr)]

getMemValue(e, addr) ==
  IF OnStack(addr)
  THEN EmuValue(e.stack[Offset(addr)], getStackState(e, addr))
  ELSE EmuValue(e.mem[addr.val], IF addr.state = "STATIC2" THEN "STATIC2" ELSE "DYNAMIC")

RegValue(e, r) == EmuValue(e.reg[r], e.reg_state[r])

addRegToValue(v, e, r) ==
  IF r = "None" THEN v
  ELSE EmuValue(Mask(v.val + e.reg[r]), combineState(v.state, e.reg_state[r], FALSE))

getOpAddr(e, o) ==
  addRegToValue(addRegToValue(EmuValue(o.val, "STATIC"), e, o.reg), e, o.ireg)

getOpValue(e, o) ==
  CASE o.kind = "Imm" -> EmuValue(o.val, "STATIC")
    [] o.kind = "Reg" -> RegValue(e, o.reg)
    [] o.kind = "Ind" -> getMemValue(e, getOpAddr(e, o))

\* Storing v at addr: setMemValue and setMemState.  The latter fails for a place
\* on the stack that is not known.
CanStore(addr) == OnStack(addr) => KnownOffset(addr)

\* Wrong: the state of the place stays as it was if the value is unknown.
StoreKnownOnly(e, addr, v) ==
  IF OnStack(addr)
  THEN LET o == Offset(addr)
       IN [e EXCEPT !.stack[o] = v.val, !.stackState[o] = IF IsStatic(v) THEN v.state ELSE @,
                    !.stackAccessed = IF o < @ THEN o ELSE @]
  ELSE [e EXCEPT !.mem[addr.val] = v.val]

Store(e, addr, v) ==
  IF OnStack(addr)
  THEN LET o == Offset(addr)
       IN [e EXCEPT !.stack[o] = v.val, !.stackState[o] = v.state,
                    !.stackAccessed = IF o < @ THEN o ELSE @]
  ELSE [e EXCEPT !.mem[addr.val] = v.val]

setReg(e, r, v) == [e EXCEPT !.reg[r] = v.val, !.reg_state[r] = v.state]

\* The end of most instructions: setOpValue and setOpState.
Assign(e, o, v, out) ==
  IF o.kind = "Reg" THEN Done(setReg(e, o.reg, v), out)
  ELSE IF CanStore(getOpAddr(e, o)) THEN Done(Store(e, getOpAddr(e, o), v), out)
  ELSE Abort(e)

opStateIsTracked(e, o) ==
  \/ o.kind = "Reg"
  \/ OnStack(getOpAddr(e, o)) /\ KnownOffset(getOpAddr(e, o))

applyStaticToInd(e, o) ==
  LET known(r) == r # "None" /\ csIsStatic(e.reg_state[r])
      value(r) == IF known(r) THEN e.reg[r] ELSE 0
      rest(r)  == IF known(r) THEN "None" ELSE r
  IN IF o.kind # "Ind" THEN o
     ELSE Ind(Mask(o.val + value(o.reg) + value(o.ireg)), rest(o.reg), rest(o.ireg))

Applied(e, i) ==
  [i EXCEPT !.dst = applyStaticToInd(e, @), !.src = applyStaticToInd(e, @),
            !.src2 = applyStaticToInd(e, @)]

LoadImm(o, v) == Binary("MOV", o, Imm(v.val))

----------------------------------------------------------------------------
(***************************************************************************)
(* Flags                                                                   *)
(***************************************************************************)
setFlagsState(e, flags, s) ==
  [e EXCEPT !.flag_state = [f \in FlagType |-> IF f \in flags THEN s ELSE @[f]]]

\* Sign, parity and zero of r, with carry and overflow from the chain of carries c.
FlagsOf(r, zero, c) ==
  [ Zero |-> zero, Parity |-> r \in EvenParity, Sign |-> Bit(r, W - 1) = 1,
    Carry |-> Bit(c, W - 1) = 1, Overflow |-> Bit(c, W - 1) # Bit(c, W - 2) ]

Chain(r, d, s) == OrOf(AndOf(r, OrOf(NotOf(d), s)), AndOf(NotOf(d), s))

setFlagsSub(e, v1, v2) ==
  LET r == Mask(v1.val - v2.val)
  IN [ setFlagsState(e, FlagType, combineState4Flags(v1.state, v2.state))
         EXCEPT !.flag = FlagsOf(r, v1.val = v2.val, Chain(r, v1.val, v2.val)) ]

setFlagsAdd(e, v1, v2) ==
  LET r == Mask(v1.val + v2.val)
  IN [ setFlagsState(e, FlagType, combineState4Flags(v1.state, v2.state))
         EXCEPT !.flag = FlagsOf(r, r = 0, Chain(r, v1.val, v2.val)) ]

BitOp(t, a, b) == IF t = "XOR" THEN XorOf(a, b) ELSE IF t = "OR" THEN OrOf(a, b) ELSE AndOf(a, b)

KnownZero(v) == IsStatic(v) /\ v.val = 0

\* Wrong: an AND with any known operand is known.
BitStateAnd(t, v1, v2, sameOperands) ==
  IF \/ t = "XOR" /\ sameOperands
     \/ t = "AND" /\ (IsStatic(v1) \/ IsStatic(v2))
  THEN "STATIC"
  ELSE combineState4Flags(v1.state, v2.state)

\* The state of the result of a bitwise operation.
BitState(t, v1, v2, sameOperands) ==
  IF \/ t = "XOR" /\ sameOperands
     \/ t = "AND" /\ (KnownZero(v1) \/ KnownZero(v2))
  THEN "STATIC"
  ELSE combineState4Flags(v1.state, v2.state)

setFlagsBit(e, t, v1, v2, sameOperands) ==
  [ setFlagsState(setFlagsState(e, {"Carry", "Overflow"}, "STATIC"),
                  {"Zero", "Sign", "Parity"}, BitState(t, v1, v2, sameOperands))
      EXCEPT !.flag = FlagsOf(BitOp(t, v1.val, v2.val), BitOp(t, v1.val, v2.val) = 0, 0) ]

----------------------------------------------------------------------------
(***************************************************************************)
(* Capturing, for an instruction i with result v.  Results that options    *)
(* force to be unknown are captured as moves, and become dynamic.          *)
(***************************************************************************)
captureMov(e, i, v) ==
  IF v.state = "DEAD" \/ (IsStatic(v) /\ opStateIsTracked(e, i.dst)) THEN <<>>
  ELSE << Applied(e, IF IsStatic(v) THEN LoadImm(i.dst, v) ELSE i) >>

captureCMov(e, i, v, condState, cond) ==
  CASE csIsStatic(condState) ->
         IF cond THEN captureMov(e, Binary("MOV", i.dst, i.src), v) ELSE <<>>
    [] ~csIsStatic(condState) /\ v.state = "DEAD" -> <<>>
    [] ~csIsStatic(condState) /\ v.state # "DEAD" ->
         (IF IsStatic(v)
          THEN << LoadImm(i.src, v) >>
          ELSE <<>>) \o << [i EXCEPT !.src = applyStaticToInd(e, @)] >>

\* The operands that make an operation change nothing.
NeutralSrc(t) == CASE t \in {"ADD", "SHL", "SHR", "SAR", "OR"} -> {0}
                   [] t = "AND"  -> {2 ^ W - 1}
                   [] t = "IMUL" -> {1}
                   [] OTHER      -> {}
\* Wrong: subtracting from 0 is taken as a move.
NeutralDstSub(t) == CASE t \in {"ADD", "SUB"} -> {0}
                      [] t = "IMUL" -> {1}
                      [] OTHER      -> {}

NeutralDst(t) == CASE t = "ADD"  -> {0}
                   [] t = "IMUL" -> {1}
                   [] OTHER      -> {}

captureBinaryOp(e, i, v, force) ==
  LET dst     == getOpValue(e, i.dst)
      src     == getOpValue(e, i.src)
      tracked == opStateIsTracked(e, i.dst)
      update  == tracked /\ IsStatic(dst)          \* dst has to be loaded first
      load    == IF update THEN << LoadImm(i.dst, dst) >> ELSE <<>>
  IN CASE v.state = "DEAD" -> <<>>
       [] IsStatic(v) ->
            IF ~force /\ tracked THEN <<>> ELSE << Applied(e, LoadImm(i.dst, v)) >>
       [] v.state \in {"DYNAMIC", "STACKRELATIVE"} ->
            IF update /\ dst.val \in NeutralDst(i.type)
            THEN << Applied(e, Binary("MOV", i.dst, i.src)) >>
            ELSE IF IsStatic(src) /\ src.val \in NeutralSrc(i.type) THEN load
            ELSE load \o << Applied(e, Binary(i.type, i.dst,
                                IF IsStatic(src) THEN Imm(src.val) ELSE i.src)) >>

captureUnaryOp(e, i, v, force) ==
  IF ~IsStatic(v) THEN << Applied(e, i) >>
  ELSE IF force THEN << LoadImm(i.dst, v) >> ELSE <<>>

captureLea(e, i, v, force) ==
  IF ~IsStatic(v) THEN << [i EXCEPT !.src = applyStaticToInd(e, @)] >>
  ELSE IF force THEN << LoadImm(i.dst, v) >> ELSE <<>>

\* A known result that is forced to be unknown.
Forced(v, force) == IF IsStatic(v) /\ force THEN EmuValue(v.val, "DYNAMIC") ELSE v

captureCmp(e, i, cs) ==
  LET dst == getOpValue(e, i.dst)
      src == getOpValue(e, i.src)
  IN IF csIsStatic(cs) THEN <<>>
     ELSE (IF IsStatic(dst) THEN << LoadImm(i.dst, dst) >> ELSE <<>>)
          \o << Applied(e, Binary("CMP", i.dst, IF IsStatic(src) THEN Imm(src.val) ELSE i.src)) >>

captureTest(e, i, cs) == IF csIsStatic(cs) THEN <<>> ELSE << Applied(e, i) >>

captureIDiv(e, i, cs) ==
  LET v       == getOpValue(e, i.dst)
      load(r) == IF csIsStatic(e.reg_state[r])
                 THEN << LoadImm(RegOp(r), RegValue(e, r)) >> ELSE <<>>
  IN IF csIsStatic(cs) \/ (IsStatic(v) /\ v.val = 1) THEN <<>>
     ELSE (IF IsStatic(v) THEN << Applied(e, LoadImm(i.dst, v)) >> ELSE <<>>)
          \o load("A") \o load("D") \o << Applied(e, i) >>

\* Wrong: a known result is not loaded.
captureRetPlain(e) == << Simple("RET") >>

captureRet(e) ==
  (IF ~hasReturnFP /\ csIsStatic(e.reg_state["A"])
   THEN << LoadImm(RegOp("A"), RegValue(e, "A")) >> ELSE <<>>) \o << Simple("RET") >>

----------------------------------------------------------------------------
(***************************************************************************)
(* The instructions                                                        *)
(***************************************************************************)
BinaryResult(t, a, b) ==
  CASE t = "ADD"  -> Mask(a + b)
    [] t = "SUB"  -> Mask(a - b)
    [] t = "IMUL" -> Mask(Signed(a) * Signed(b))
    [] t = "SHL"  -> ShiftLeft(a, b)
    [] t = "SHR"  -> ShiftRight(a, b)
    [] t = "SAR"  -> ShiftSigned(a, b)
    [] t \in {"AND", "OR", "XOR"} -> BitOp(t, a, b)

BinaryState(t, v1, v2, sameOperands) ==
  CASE t = "IMUL" /\ (KnownZero(v1) \/ KnownZero(v2)) -> "STATIC"
    [] t \in {"AND", "OR", "XOR"} -> BitState(t, v1, v2, sameOperands)
    [] OTHER -> combineState(v1.state, v2.state, FALSE)

BinaryFlags(e, t, v1, v2, sameOperands) ==
  CASE t = "ADD" -> setFlagsAdd(e, v1, v2)
    [] t = "SUB" -> setFlagsSub(e, v1, v2)
    [] t \in {"AND", "OR", "XOR"} -> setFlagsBit(e, t, v1, v2, sameOperands)
    [] OTHER -> e

BinaryOps == {"ADD", "SUB", "IMUL", "SHL", "SHR", "SAR", "AND", "OR", "XOR"}

emulateBinary(e, i, force) ==
  LET three == i.src2 # NoOp                    \* IMUL with three operands
      v1    == getOpValue(e, IF three THEN i.src ELSE i.dst)
      v2    == getOpValue(e, IF three THEN i.src2 ELSE i.src)
      same  == i.dst = i.src
      v     == EmuValue(BinaryResult(i.type, v1.val, v2.val), BinaryState(i.type, v1, v2, same))
      e1    == BinaryFlags(e, i.type, v1, v2, same)
  IN Assign(e1, i.dst, Forced(v, force), captureBinaryOp(e1, i, v, force))

emulateCmp(e, i) ==
  LET v1 == getOpValue(e, i.dst)
      v2 == getOpValue(e, i.src)
      e1 == setFlagsSub(e, v1, v2)
  IN Done(e1, captureCmp(e1, i, combineState4Flags(v1.state, v2.state)))

emulateTest(e, i) ==
  LET v1 == getOpValue(e, i.dst)
      v2 == getOpValue(e, i.src)
      e1 == setFlagsBit(e, "AND", v1, v2, FALSE)
  IN Done(e1, captureTest(e1, i, BitState("AND", v1, v2, FALSE)))

\* Wrong: results are not cut off.
UnaryResultWide == [ INC |-> [a \in Word |-> a + 1],
                     DEC |-> [a \in Word |-> Mask(a - 1)],
                     NEG |-> [a \in Word |-> Mask(0 - a)] ]

UnaryResult == [ INC |-> [a \in Word |-> Mask(a + 1)],
                 DEC |-> [a \in Word |-> Mask(a - 1)],
                 NEG |-> [a \in Word |-> Mask(0 - a)] ]

emulateUnary(e, i, force) ==
  LET v1 == getOpValue(e, i.dst)
      v  == [v1 EXCEPT !.val = UnaryResult[i.type][@]]
  IN Assign(e, i.dst, Forced(v, force), captureUnaryOp(e, i, v, force))

emulateMov(e, i) ==
  LET v == getOpValue(e, i.src) IN Assign(e, i.dst, v, captureMov(e, i, v))

emulateLea(e, i, force) ==
  LET v == getOpAddr(e, i.src)
  IN Assign(e, i.dst, Forced(v, force), captureLea(e, i, v, force))

CMovFlag == [ CMOVO |-> "Overflow", CMOVNO |-> "Overflow", CMOVC |-> "Carry", CMOVNC |-> "Carry",
              CMOVZ |-> "Zero",     CMOVNZ |-> "Zero",     CMOVS |-> "Sign",  CMOVNS |-> "Sign" ]

emulateCMov(e, i) ==
  LET f       == CMovFlag[i.type]
      cond    == e.flag[f] = (i.type \in {"CMOVO", "CMOVC", "CMOVZ", "CMOVS"})
      v       == getOpValue(e, i.src)
      out     == captureCMov(e, i, v, e.flag_state[f], cond)
      unknown == ~csIsStatic(e.flag_state[f])
  IN IF cond THEN Assign(e, i.dst, Forced(v, unknown), out) ELSE Done(e, out)

\* Division is without sign, and ignores the upper half of the dividend.
emulateIDiv(e, i) ==
  LET v  == getOpValue(e, i.dst)
      cs == combineState(combineState(e.reg_state["D"], e.reg_state["A"], TRUE), v.state, FALSE)
      a  == e.reg["A"]
  IN IF v.val = 0 THEN Abort(e)
     ELSE Done(setReg(setReg(e, "A", EmuValue(a \div v.val, cs)), "D", EmuValue(a % v.val, cs)),
               captureIDiv(e, i, cs))

emulateCqto(e, i) ==
  LET d == IF Bit(e.reg["A"], W - 2) = 1 THEN 2 ^ W - 1 ELSE 0
  IN Done(setReg(e, "D", EmuValue(d, e.reg_state["A"])),
          IF csIsStatic(e.reg_state["A"]) THEN <<>> ELSE << i >>)

\* Pushing and popping.  The stack pointer must stay on the emulator's stack.
emulatePush(e, i) ==
  LET e1   == [e EXCEPT !.reg["SP"] = Mask(@ - 1)]
      addr == RegValue(e1, "SP")
      v    == getOpValue(e1, i.dst)
  IN IF OnStack(addr) /\ CanStore(addr)
     THEN Done(Store(e1, addr, v), IF IsStatic(v) THEN <<>> ELSE << i >>)
     ELSE Abort(e)

emulatePop(e, i) ==
  LET addr == RegValue(e, "SP")
      v    == getMemValue(e, addr)
      e1   == setReg(e, i.dst.reg, v)
  IN IF OnStack(addr)
     THEN Done([e1 EXCEPT !.reg["SP"] = Mask(@ + 1)], IF IsStatic(v) THEN <<>> ELSE << i >>)
     ELSE Abort(e)

emulateLeave(e) ==
  LET mov == emulateMov(e, Binary("MOV", RegOp("SP"), RegOp("BP")))
      pop == emulatePop(mov.es, Unary("POP", RegOp("BP")))
  IN IF pop.err = "none" THEN Done(pop.es, mov.out \o pop.out) ELSE pop

\* Calls are inlined; src is the address of the next instruction.
emulateCall(e, i) ==
  LET target == getOpValue(e, i.dst)
      push   == emulatePush(e, Unary("PUSH", i.src))
  IN IF Depth(e) >= MAX_CALLDEPTH \/ ~IsStatic(target) THEN Error(e)
     ELSE IF push.err # "none" THEN push
     ELSE Done([push.es EXCEPT !.ret_stack = Append(@, i.src.val)], push.out)

\* Returning, also from the function itself.
emulateRet(e) ==
  LET e1    == [e EXCEPT !.reg_state = [r \in Regs |-> IF r \in CallerSaved THEN "DEAD" ELSE @[r]]]
      addr  == RegValue(e, "SP")
      depth == Depth(e)
  IN IF depth = 0 THEN Done(e1, captureRet(e1))
     ELSE IF ~OnStack(addr) THEN Abort(e)
     ELSE IF getMemValue(e, addr).val # e.ret_stack[depth] THEN Error(e)
     ELSE Done([e1 EXCEPT !.reg["SP"] = Mask(@ + 1), !.ret_stack = SubSeq(@, 1, depth - 1)], <<>>)

\* Instructions on vector registers are captured, with memory operands resolved.
\* VGET moves to a general purpose register.
emulateVector(e, i) ==
  LET e1 == IF i.type = "VGET" THEN [e EXCEPT !.reg_state[i.dst.reg] = "DYNAMIC"] ELSE e
  IN Done(e1, << Applied(e1, i) >>)

\* The switch over the type of instruction.  force: what the option says for
\* the depth the emulator is in.
processInstr(e, i, force) ==
  CASE i.type \in BinaryOps -> emulateBinary(e, i, force)
    [] i.type = "CMP"       -> emulateCmp(e, i)
    [] i.type = "TEST"      -> emulateTest(e, i)
    [] i.type \in {"INC", "DEC", "NEG"} -> emulateUnary(e, i, force)
    [] i.type = "MOV"       -> emulateMov(e, i)
    [] i.type = "LEA"       -> emulateLea(e, i, force)
    [] i.type \in DOMAIN CMovFlag -> emulateCMov(e, i)
    [] i.type = "IDIV"      -> emulateIDiv(e, i)
    [] i.type = "CQTO"      -> emulateCqto(e, i)
    [] i.type = "PUSH"      -> emulatePush(e, i)
    [] i.type = "POP"       -> emulatePop(e, i)
    [] i.type = "LEAVE"     -> emulateLeave(e)
    [] i.type = "CALL"      -> emulateCall(e, i)
    [] i.type = "RET"       -> emulateRet(e)
    [] i.type \in {"VLOAD", "VADD", "VSTORE", "VGET"} -> emulateVector(e, i)

\* What force_unknown may say at this depth: it is read behind its end.
ForceUnknown(e) ==
  IF Depth(e) < CC_MAXCALLDEPTH THEN {Depth(e) \in force_unknown} ELSE BOOLEAN

\* Wrong: the parameter is not loaded.
processKnownTargetsNoLoad(e, target) ==
  IF target = MakeDynamic /\ csIsStatic(e.reg_state["DI"])
  THEN Done([e EXCEPT !.reg_state["DI"] = "DYNAMIC"], <<>>)
  ELSE IF target = MakeStatic THEN Done([e EXCEPT !.reg_state["DI"] = "STATIC2"], <<>>)
  ELSE Done(e, <<>>)

\* Calls of the functions that change what is known about their parameter.
processKnownTargets(e, target) ==
  IF target = MakeDynamic /\ csIsStatic(e.reg_state["DI"])
  THEN Done([e EXCEPT !.reg_state["DI"] = "DYNAMIC"],
            << LoadImm(RegOp("DI"), RegValue(e, "DI")) >>)
  ELSE IF target = MakeStatic THEN Done([e EXCEPT !.reg_state["DI"] = "STATIC2"], <<>>)
  ELSE Done(e, <<>>)

\* Wrong: signed comparisons look at one flag.
JccFlagsOne(t) ==
  CASE t \in {"JO", "JNO"}  -> {"Overflow"}
    [] t \in {"JC", "JNC"}  -> {"Carry"}
    [] t \in {"JZ", "JNZ"}  -> {"Zero"}
    [] t \in {"JS", "JNS"}  -> {"Sign"}
    [] t \in {"JP", "JNP"}  -> {"Parity"}
    [] t \in {"JBE", "JA"}  -> {"Carry", "Zero"}
    [] t \in {"JLE", "JG"}  -> {"Zero", "Sign"}
    [] t \in {"JL", "JGE"}  -> {"Overflow"}

\* Conditional jumps: the flags looked at, whether their sample values let it
\* jump, and the type captured if one of these flags is unknown.
JccFlags(t) ==
  CASE t \in {"JO", "JNO"}  -> {"Overflow"}
    [] t \in {"JC", "JNC"}  -> {"Carry"}
    [] t \in {"JZ", "JNZ"}  -> {"Zero"}
    [] t \in {"JS", "JNS"}  -> {"Sign"}
    [] t \in {"JP", "JNP"}  -> {"Parity"}
    [] t \in {"JBE", "JA"}  -> {"Carry", "Zero"}
    [] t \in {"JLE", "JG"}  -> {"Zero", "Sign"}
    [] t \in {"JL", "JGE"}  -> {"Sign", "Overflow"}

JccUnknown(e, t) == \E f \in JccFlags(t) : e.flag_state[f] = "DYNAMIC"

JccTaken(e, t) ==
  CASE t \in {"JO", "JC", "JZ", "JS", "JP", "JBE", "JLE"} -> \E f \in JccFlags(t) : e.flag[f]
    [] t \in {"JNO", "JNC", "JNZ", "JNS", "JNP", "JA", "JG"} -> \A f \in JccFlags(t) : ~e.flag[f]
    [] t = "JL"  -> e.flag["Sign"] # e.flag["Overflow"]
    [] t = "JGE" -> e.flag["Sign"] = e.flag["Overflow"]

JccCaptured(t) == CASE t = "JBE" -> "JLE" [] t = "JA" -> "JG" [] OTHER -> t
=============================================================================
