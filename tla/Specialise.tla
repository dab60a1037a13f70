----------------------------- MODULE Specialise -----------------------------
(***************************************************************************)
(* What capturing is for: the instructions captured while a function is    *)
(* emulated do, on whatever data they run later, what the function itself  *)
(* does.                                                                   *)
(*                                                                         *)
(* Three executions go side by side: the emulator (es, on sample data),    *)
(* the function on the data of a later call (orig), and the captured code  *)
(* on the same data (new).  The function is any sequence of instructions   *)
(* from a palette.  A conditional jump on unknown data saves the state,    *)
(* or goes on with a saved state that is equal.                            *)
(***************************************************************************)
EXTENDS Emulator

CONSTANTS
  Functions,   \* kinds of functions, each with the palette of instructions it may
               \* consist of, values of its parameter, what may be known about it
               \* (states), and a bound on the instructions executed (steps)
  Branches,    \* types of its conditional jumps
  Others,      \* initial values of other registers and of memory
  Heap, Data,  \* addresses it may access: variables, and data that never change
  Base,        \* the stack pointer when the function is called
  MaxSaved     \* bound on the states saved

\* Where the slots of the emulator's stack are when the function runs.
SlotAddr(o) == Base - StackSize + o
StackAddrs  == { SlotAddr(o) : o \in Slots }

\* Operands, and instructions as they are decoded: there is one operand in memory
\* at most, and a third one is an immediate.
Operand ==
  { NoOp } \cup { Imm(v) : v \in Word } \cup { RegOp(r) : r \in Regs }
    \cup [ kind : {"Ind"}, val : Word, reg : Regs \cup {"None"}, ireg : Regs \cup {"None"} ]

WellFormed(i) ==
  LET kinds == << i.dst.kind, i.src.kind >>
      simple == i.src2 = NoOp
  IN /\ {i.dst, i.src, i.src2} \subseteq Operand
     /\ i = Ternary(i.type, i.dst, i.src, i.src2)
     /\ \/ i.type \in BinaryOps \cup {"MOV", "CMP", "TEST"} /\ simple
           /\ kinds \in ({"Reg", "Ind"} \X {"Reg", "Imm", "Ind"}) \ { << "Ind", "Ind" >> }
        \/ i.type = "IMUL" /\ kinds \in {"Reg"} \X {"Reg", "Ind"} /\ i.src2.kind = "Imm"
        \/ i.type = "LEA" /\ simple /\ kinds = << "Reg", "Ind" >>
        \/ i.type \in DOMAIN CMovFlag /\ simple /\ kinds \in {"Reg"} \X {"Reg", "Ind"}
        \/ i.type \in {"INC", "DEC", "NEG", "IDIV"} /\ simple
           /\ kinds \in {"Reg", "Ind"} \X {"None"}
        \/ i.type = "PUSH" /\ simple /\ kinds \in {"Reg", "Imm", "Ind"} \X {"None"}
        \/ i.type \in {"POP", "VGET"} /\ simple /\ kinds = << "Reg", "None" >>
        \/ i.type \in {"CQTO", "LEAVE", "RET"} /\ simple /\ kinds = << "None", "None" >>
        \/ i.type = "CALL" /\ simple /\ kinds \in {"Reg", "Imm", "Ind"} \X {"Imm"}
        \/ i.type \in {"VLOAD", "VADD"} /\ simple /\ kinds = << "None", "Ind" >>
        \/ i.type = "VSTORE" /\ simple /\ kinds = << "Ind", "None" >>

ASSUME SpecialiseAssumption ==
  /\ \A f \in DOMAIN Functions :
       /\ \A i \in Functions[f].palette : WellFormed(i)
       /\ Functions[f].states \subseteq {"DYNAMIC", "STATIC", "STATIC2"}
       /\ Functions[f].values \subseteq Word
       /\ Functions[f].steps \in Nat
  /\ Others \subseteq Word /\ Heap \cup Data \subseteq Word
  /\ (Heap \cup Data) \cap StackAddrs = {}
  /\ Base \in Word /\ Base >= StackSize
  /\ MaxSaved \in Nat

VARIABLES
  kind,    \* of the function
  es,      \* r->es
  savedState, \* the states saved at jumps
  orig,    \* the machine that executes the function
  new,     \* the machine that executes what is captured
  status,  \* "running", "returned", or "failed"
  steps,
  lost,    \* flags the emulator no longer keeps track of
  skew,    \* how far new's stack pointer is off, by pushes not captured
  at       \* how far values on the stack are off in new's memory

vars == << kind, es, savedState, orig, new, status, steps, lost, skew, at >>

Gone == 2 ^ W     \* in place of an offset: overwritten

\* Where captured code keeps what is in a slot of the stack.
Place(o) == Mask(SlotAddr(o) + at[o])

\* Slots that have been accessed, and values that the emulator does not know.
Live(o)    == o >= es.stackAccessed
Unknown(s) == s \in {"DYNAMIC", "STACKRELATIVE"}

\* What is in memory and in registers when the function is called.
StartMemory(h) ==
  [v \in Word |-> IF v \in Data THEN v % 3 ELSE IF v \in Heap THEN h ELSE 0]
StartRegs(di, x) ==
  [r \in Regs |-> IF r = "DI" THEN di ELSE IF r = "SP" THEN Base ELSE x]

Init ==
  \E k \in DOMAIN Functions : \E par, di \in Functions[k].values,
                                state \in Functions[k].states, x \in Others :
    /\ kind = k
    /\ state # "DYNAMIC" => di = par
    /\ es = withParameters(resetEmuState(StartMemory(0)),
                           [r \in {"DI"} |-> par], [r \in {"DI"} |-> state])
    /\ orig = [ reg |-> StartRegs(di, x), flag |-> [f \in FlagType |-> FALSE],
                mem |-> StartMemory(x), vec |-> x ]
    /\ new = orig
    /\ savedState = {}
    /\ status = "running"
    /\ steps = 0
    /\ lost = {} /\ skew = 0
    /\ at = [o \in Slots |-> 0]

----------------------------------------------------------------------------
(***************************************************************************)
(* What is assumed of the function: it keeps to what it may access, uses   *)
(* no register or flag that is undefined, and what it was declared to know *)
(* is true.                                                                *)
(***************************************************************************)
Operands(i)  == { i.dst, i.src, i.src2 } \ { NoOp }
MemOps(i)    == { o \in Operands(i) : o.kind = "Ind" /\ i.type # "LEA" }
IsStackOp(o) == OnStack(getOpAddr(es, o)) /\ KnownOffset(getOpAddr(es, o))
StoresTo(i)  == { o \in MemOps(i) : o = i.dst /\ i.type \notin {"CMP", "TEST", "PUSH", "CALL", "IDIV"} }
Mentions(i, r) == \E o \in Operands(i) : r \in {o.reg, o.ireg}

Accesses(i) ==
  /\ Accessed(orig, i) \subseteq Heap \cup Data \cup StackAddrs
  /\ i.type = "IDIV" => Divides(orig, i.dst)
  /\ \A o \in MemOps(i) :
       LET addr == getOpAddr(es, o)
       IN /\ IsStackOp(o) <=> AddrOf(orig, o) \in StackAddrs      \* no other way to the stack
          /\ addr.state = "STATIC2" => addr.val \in Data
  /\ i.type \in {"POP", "RET"} => es.reg_state["SP"] = "STACKRELATIVE"
  /\ i.type = "LEAVE" => es.reg_state["BP"] = "STACKRELATIVE"
  /\ \A o \in StoresTo(i) : Data \cap {AddrOf(orig, o), getOpAddr(es, o).val} = {}

\* Operands read; others are only written, or only give an address.
WriteOnly == {"MOV", "LEA", "POP", "VSTORE", "VGET"}
Reads(i)  == ({i.src, i.src2} \cup (IF i.type \in WriteOnly THEN {} ELSE {i.dst})) \ {NoOp}

\* What is undefined may be saved and copied, but not used.
Harmless(i) ==
  \/ i.type = "PUSH"
  \/ i.type = "MOV" /\ i.dst.kind = "Reg"
  \/ i.type = "XOR" /\ i.dst = i.src

Defined(i) ==
  /\ \A o \in Operands(i) : o.kind = "Ind" => getOpAddr(es, o).state # "DEAD"
  /\ \/ Harmless(i)
     \/ i.type = "LEA"
     \/ \A o \in Reads(i) : getOpValue(es, o).state # "DEAD"
  /\ i.type \in {"IDIV", "CQTO"} => es.reg_state["A"] # "DEAD"
  /\ i.type = "IDIV" => es.reg_state["D"] # "DEAD"

\* A function returns to where it was called.
ReturnsProperly(i) ==
  i.type = "RET" =>
    IF Depth(es) = 0 THEN orig.reg["SP"] = Base
    ELSE /\ orig.mem[orig.reg["SP"]] = Last(es.ret_stack)
         /\ IsStatic(getMemValue(es, RegValue(es, "SP")))

FlagsDefined(flags) == \A f \in flags : es.flag_state[f] # "DEAD" /\ f \notin lost

----------------------------------------------------------------------------
(***************************************************************************)
(* Where the emulator is known not to preserve what the function does.     *)
(* These are left out of the behaviours below; README lists them.          *)
(***************************************************************************)
\* Moving on an unknown condition, unless what is moved and where are plain.
CMovLimit(i) ==
  i.type \in DOMAIN CMovFlag /\ es.flag_state[CMovFlag[i.type]] = "DYNAMIC" =>
    /\ getOpValue(es, i.dst).state = "DYNAMIC"
    /\ getOpValue(es, i.src).state \in {"DYNAMIC", "STATIC", "STATIC2"}

\* Division of positive numbers of one word only, and not by a known 1.
DivisionLimit(i) ==
  i.type = "IDIV" =>
    /\ orig.reg["D"] = 0 /\ ~Negative(orig.reg["A"]) /\ ~Negative(Value(orig, i.dst))
    /\ LET v == getOpValue(es, i.dst) IN ~(IsStatic(v) /\ v.val = 1)

\* Sign extension looks at the wrong bit.
SignLimit(i) ==
  i.type = "CQTO" => Bit(orig.reg["A"], W - 1) = Bit(orig.reg["A"], W - 2)

\* Only sums and differences of stack-relative values make sense.
RelativeLimit(i) ==
  LET relative(o) == o # NoOp /\ getOpValue(es, o).state = "STACKRELATIVE"
  IN /\ i.type \in BinaryOps \ {"ADD", "AND", "OR", "XOR"} => ~relative(i.src)
     /\ i.type \in BinaryOps \ {"ADD", "SUB", "AND", "OR", "XOR"} => ~relative(i.dst)
     /\ i.type = "NEG"  => ~relative(i.dst)
     /\ i.type = "IDIV" => ~relative(i.dst) /\ es.reg_state["D"] # "STACKRELATIVE"
     /\ i.type \in {"CQTO", "IDIV"} => es.reg_state["A"] # "STACKRELATIVE"

\* Vector registers are not tracked, and what is on the stack is not loaded for them.
VectorLimit(i) ==
  i.type \in {"VLOAD", "VADD", "VSTORE"} =>
    \A o \in MemOps(i) : IsStackOp(o) => getOpValue(es, o).state = "DYNAMIC"

\* A known operand in memory that has to be loaded first is loaded without resolving
\* the known registers of its address.
LoadLimit(i) ==
  LET known(o) == o.kind = "Ind" /\ IsStatic(getOpValue(es, o))
      plain(o) == \A r \in {o.reg, o.ireg} \ {"None"} : ~csIsStatic(es.reg_state[r])
  IN /\ i.type \in BinaryOps \cup {"CMP"} /\ known(i.dst) /\ ~IsStatic(getOpValue(es, i.src)) => plain(i.dst)
     /\ i.type \in {"INC", "DEC", "NEG"} /\ known(i.dst) /\ TRUE \in ForceUnknown(es) => plain(i.dst)
     /\ i.type \in DOMAIN CMovFlag /\ known(i.src) /\ ~csIsStatic(es.flag_state[CMovFlag[i.type]])
          => plain(i.src)

\* Pushing and popping known values is not captured, so that the stack pointer is
\* off; other places on the stack are not found then.
StackLimit(i) ==
  LET top   == RegValue(es, IF i.type = "LEAVE" THEN "BP" ELSE "SP")
      known == csIsStatic(getStackState(es, top))
  IN /\ skew # 0 => /\ i.type # "LEAVE" /\ ~Mentions(i, "SP")
                    /\ \A o \in MemOps(i) : ~IsStackOp(o)
                    /\ (i.type = "RET" => Depth(es) > 0)
     /\ i.type \in {"PUSH", "POP"} => ~Mentions(i, "SP") /\ i.dst.kind # "Ind"
     /\ i.type \in {"POP", "LEAVE"} /\ OnStack(top) /\ known => skew > 0
     /\ i.type = "RET" /\ Depth(es) > 0 => skew > 0
     /\ \A o \in MemOps(i) : IsStackOp(o) => at[Offset(getOpAddr(es, o))] = 0
     /\ i.type = "LEAVE" /\ OnStack(top) => at[Offset(top)] = 0
     /\ i.dst = RegOp("SP") \/ i.type = "LEAVE" =>
          \A o \in Slots : Live(o) /\ Unknown(es.stackState[o]) /\ SlotAddr(o) >= Exec(orig, i).reg["SP"]
                           => at[o] = 0

WithinLimits(i) ==
  /\ CMovLimit(i) /\ DivisionLimit(i) /\ SignLimit(i)
  /\ RelativeLimit(i) /\ VectorLimit(i) /\ LoadLimit(i) /\ StackLimit(i)

\* Flags that are wrong in the emulator, or in new, after instruction i, which
\* leads to state e and captures out: those an instruction changes behind the
\* emulator's back; carry and overflow of known sums; those of operations
\* simplified away; those of a test of a register that is not loaded.
LostBy(i, e, out) ==
  LET known   == { f \in FlagType : e.flag_state[f] = "STATIC" }
      emitted == out # <<>> /\ Last(out).type = i.type
  IN CASE i.type \in {"NEG", "SHL", "SHR", "SAR", "IMUL", "IDIV"} -> lost \cup FlagType
       [] i.type \in {"INC", "DEC"} -> lost \cup (FlagType \ {"Carry"})
       [] i.type \in {"ADD", "SUB", "AND", "OR", "XOR", "CMP", "TEST"} ->
            (IF emitted THEN {} ELSE FlagType \ known)
            \cup (IF i.type = "ADD" THEN known \cap {"Carry", "Overflow"} ELSE {})
            \cup (IF i.type = "TEST" /\ \E o \in Reads(i) : opStateIsTracked(es, o) /\ IsStatic(getOpValue(es, o))
                  THEN FlagType \ known ELSE {})
       [] OTHER -> lost

----------------------------------------------------------------------------
(***************************************************************************)
(* Steps                                                                   *)
(***************************************************************************)
\* The effect on new's stack pointer that is missing in what is captured.
Missing(i, out) ==
  CASE i.type \in {"PUSH", "CALL"} /\ out = <<>> -> 1
    [] i.type = "CALL" /\ out # <<>>             -> 1
    [] i.type = "POP" /\ out = <<>>              -> -1
    [] i.type = "LEAVE" /\ Last(out).type # "POP" -> -1
    [] i.type = "RET" /\ Depth(es) > 0           -> -1
    [] OTHER                                     -> 0

\* All three execute instruction i; r is the outcome of emulating it.
Execute(i, r) ==
  /\ es' = r.es
  /\ status' = CASE r.err # "none" -> "failed"
                 [] i.type = "RET" /\ Depth(es) = 0 -> "returned"
                 [] OTHER -> "running"
  /\ IF r.err # "none"
     THEN UNCHANGED << orig, new, lost, skew, at >>
     ELSE /\ orig' = Exec(orig, i)
          /\ new'  = ExecAll(new, r.out)
          /\ lost' = LostBy(i, r.es, r.out)
          /\ skew' = skew + Missing(i, r.out)
          /\ at'   = [o \in Slots |->
                        IF \/ SlotAddr(o) \in { AddrOf(orig, p) : p \in StoresTo(i) }
                           \/ i.type \in {"PUSH", "CALL"} /\ SlotAddr(o) = orig'.reg["SP"]
                        THEN skew
                        ELSE IF Unknown(r.es.stackState[o]) /\ new'.mem[Place(o)] # new.mem[Place(o)]
                        THEN Gone ELSE at[o]]
  /\ steps' = steps + 1
  /\ UNCHANGED << kind, savedState >>

Running(i) ==
  /\ status = "running"
  /\ steps < Functions[kind].steps
  /\ Accesses(i) /\ Defined(i) /\ ReturnsProperly(i)
  /\ WithinLimits(i)

Instruction ==
  \E i \in Functions[kind].palette : \E force \in ForceUnknown(es) :
    /\ i.type \notin {"CALL", "RET"}
    /\ Running(i)
    /\ i.type \in DOMAIN CMovFlag => FlagsDefined({CMovFlag[i.type]})
    /\ Execute(i, processInstr(es, i, force))

\* A call goes on in the function called, which may be one that tells dbrew what
\* to know.
Call ==
  \E i \in Functions[kind].palette :
    /\ i.type = "CALL"
    /\ Running(i)
    /\ LET target == getOpValue(es, i.dst).val
           call   == processInstr(es, i, FALSE)
           known  == processKnownTargets(call.es, target)
       IN /\ target = MakeStatic => orig.reg["DI"] = es.reg["DI"]
          /\ Execute(i, IF call.err = "none"
                        THEN Done(known.es, call.out \o known.out) ELSE call)

Return ==
  \E i \in Functions[kind].palette :
    /\ i.type = "RET"
    /\ Running(i)
    /\ Execute(i, processInstr(es, i, FALSE))

\* A conditional jump on unknown data ends the captured block: captureJcc.  The
\* next one starts with the state saved.
FlagsOfJcc(t) == JccFlags(t) \cup IF t \in {"JLE", "JG"} THEN {"Overflow"} ELSE {}

Branch ==
  \E t \in Branches :
    /\ status = "running"
    /\ JccUnknown(es, t) /\ FlagsDefined(FlagsOfJcc(t))
    /\ \/ \E s \in savedState :
            /\ esIsEqual(es, s)
            /\ es' = copyEmuState(es, s)
            /\ UNCHANGED savedState
       \/ /\ \A s \in savedState : ~esIsEqual(es, s)
          /\ Cardinality(savedState) < MaxSaved
          /\ es' = copyEmuState(es, cloneEmuState(es))
          /\ savedState' = savedState \cup {cloneEmuState(es)}
    /\ UNCHANGED << kind, orig, new, status, steps, lost, skew, at >>

Next == Instruction \/ Call \/ Return \/ Branch

Spec == Init /\ [][Next]_vars

----------------------------------------------------------------------------
(***************************************************************************)
(* Properties                                                              *)
(***************************************************************************)
TypeOK ==
  /\ kind \in DOMAIN Functions
  /\ es \in EmuState
  /\ savedState \subseteq EmuState
  /\ orig \in Machine /\ new \in Machine
  /\ status \in {"running", "returned", "failed"}
  /\ steps \in 0 .. Functions[kind].steps
  /\ lost \subseteq FlagType
  /\ skew \in Int
  /\ at \in [Slots -> Int]

\* What a value the emulator knows stands for when the function runs.
MeansValue(s, v, x) ==
  /\ csIsStatic(s) => x = v
  /\ s = "STACKRELATIVE" => Mask(x - Base) = Mask(v - StackTop)

\* What the emulator knows is so: every register, flag and place on the stack that
\* is known while rewriting has that value whenever the function runs, and every
\* stack-relative one has its distance from the stack pointer at the start.
KnownAgrees == status = "running" =>
  /\ \A r \in Regs : MeansValue(es.reg_state[r], es.reg[r], orig.reg[r])
  /\ \A f \in FlagType : es.flag_state[f] = "STATIC" /\ f \notin lost => es.flag[f] = orig.flag[f]
  /\ \A o \in Slots : Live(o) => MeansValue(es.stackState[o], es.stack[o], orig.mem[SlotAddr(o)])

\* What the emulator does not know is computed by the captured code: every unknown
\* register, flag and place on the stack, vector registers and other memory are the
\* same in both executions; only the stack pointer is off by what was not captured.
UnknownAgrees == status = "running" =>
  /\ \A r \in Regs \ {"SP"} : Unknown(es.reg_state[r]) => new.reg[r] = orig.reg[r]
  /\ Unknown(es.reg_state["SP"]) => new.reg["SP"] = Mask(orig.reg["SP"] + skew)
  /\ \A f \in FlagType \ lost : es.flag_state[f] = "DYNAMIC" => new.flag[f] = orig.flag[f]
  /\ \A o \in Slots : Live(o) /\ Unknown(es.stackState[o]) =>
       IF at[o] = Gone THEN SlotAddr(o) < orig.reg["SP"]
       ELSE new.mem[Place(o)] = orig.mem[SlotAddr(o)]
  /\ new.vec = orig.vec
  /\ \A v \in Heap \cup Data : new.mem[v] = orig.mem[v]

\* Every conditional jump goes the way the function goes: those on known flags, which
\* are followed while rewriting, and those captured, of the type and with the flags
\* they have in the captured code.
BranchesAgree == status = "running" =>
  \A t \in Branches : FlagsDefined(FlagsOfJcc(t)) =>
    Taken(t, orig.flag) = IF JccUnknown(es, t) THEN Taken(JccCaptured(t), new.flag)
                          ELSE JccTaken(es, t)

\* The same without an exception for flags the emulator does not keep track of.
BranchesAgreeAlways == status = "running" =>
  \A t \in Branches : (\A f \in FlagsOfJcc(t) : es.flag_state[f] # "DEAD") =>
    Taken(t, orig.flag) = IF JccUnknown(es, t) THEN Taken(JccCaptured(t), new.flag)
                          ELSE JccTaken(es, t)

\* The captured code can be used instead of the function: it returns the same, at
\* the same stack pointer, and with the same saved registers.
ReturnAgrees ==
  status = "returned" =>
    /\ (~hasReturnFP /\ es.reg_state["A"] # "DEAD") => new.reg["A"] = orig.reg["A"]
    /\ new.vec = orig.vec
    /\ new.reg["SP"] = orig.reg["SP"]
    /\ es.reg_state["BP"] = "DYNAMIC" => new.reg["BP"] = orig.reg["BP"]
=============================================================================
