------------------------------ MODULE Capture ------------------------------
(***************************************************************************)
(* The trace engine of the rewriter: emulateAndCapture (src/src/engine.c)  *)
(* and the management of captured basic blocks (src/src/emulate.c).        *)
(*                                                                         *)
(* The engine emulates the original function instruction by instruction.   *)
(* Instructions that depend on unknown data are captured into the current  *)
(* captured basic block (CBB).  A conditional jump with an unknown         *)
(* condition ends the CBB; both continuations are put on the capture       *)
(* stack, keyed by (address, saved emulator state), and explored one after *)
(* the other, each from a restored emulator state.                         *)
(*                                                                         *)
(* What one instruction does to the emulator state is a parameter here     *)
(* (Emulate, modelled by the modules about the emulator): the engine only  *)
(* tells apart whether emulation goes on, reaches an unknown condition,    *)
(* leaves the function or fails, and what was captured on the way.         *)
(*                                                                         *)
(* A definition commented "Fault" is not part of the model: it is what an  *)
(* error in the code would make of the definition behind it, kept to see   *)
(* the properties fail (PROJECT.json, "mutants").                          *)
(***************************************************************************)
EXTENDS Integers, Sequences

CONSTANTS
  Addr,               \* addresses of original instructions
  State,              \* emulator states, as far as emulation depends on them
  Code,               \* original code: the programs that may be rewritten
  Instr,              \* instructions that may be captured
  JccType,            \* types of conditional jumps (IT_JO .. IT_JG)
  Emulate(_, _, _),   \* processInstr for the code, address and state given
  EsIsEqual(_, _, _), \* esIsEqual, given whether both states have one parent
  func,               \* r->func, entry of the function to rewrite
  InitState,          \* emulator states after resetting and setting parameters
  Hints,              \* the captured HINT_CALL, or << >> if hints are disabled
  CAPTURESTACK_LEN,   \* bound of the capture stack
  SAVEDSTATE_MAX,     \* bound of the list of saved emulator states
  capBBCapacity,      \* bound of the CBB table
  capInstrCapacity    \* bound of the pool of captured instructions

None == "IT_None"
Ret  == "IT_RET"

(***************************************************************************)
(* What processInstr reports: a next address to go on with, a conditional  *)
(* jump on an unknown condition, the return from the function (es->depth   *)
(* below 0), or an error.  `out' is what was captured while emulating and  *)
(* `fin' what captureRet appends on return.                                *)
(***************************************************************************)
Outcome ==
  [ kind   : {"step", "jcc", "ret", "error"},
    es     : State,
    next   : Addr,
    it     : JccType,
    target : Addr,
    fall   : Addr,
    out    : Seq(Instr),
    fin    : Seq(Instr) ]

ASSUME BoundsAssumption ==
  /\ CAPTURESTACK_LEN \in Nat \ {0}
  /\ SAVEDSTATE_MAX \in Nat \ {0}
  /\ capBBCapacity \in Nat
  /\ capInstrCapacity \in Nat

ASSUME CodeAssumption ==
  /\ Addr \subseteq Nat
  /\ func \in Addr
  /\ InitState \subseteq State
  /\ Hints \in Seq(Instr)
  /\ None \notin JccType /\ Ret \notin JccType

ASSUME EmulateAssumption ==
  \A c \in Code, a \in Addr, s \in State : Emulate(c, a, s) \in Outcome

VARIABLES
  code,         \* the original program, never changed
  es,           \* r->es, the current emulator state
  parent,       \* r->es->parent: "none" after reset, later "es" as in saved states
  pc,           \* bb_addr / address of the next instruction to emulate
  capBB,        \* table of captured basic blocks
  capInstr,     \* pool of captured instructions
  capStack,     \* indices of CBBs waiting, last one on top
  savedState,   \* saved emulator states, indexed by esID
  currentCapBB, \* index of the CBB instructions are captured into, or 0
  status        \* "called", "running", "done" or the error that occurred

vars == << code, es, parent, pc, capBB, capInstr, capStack, savedState,
           currentCapBB, status >>

Errors == { "Emulator", "Too many captured blocks",
            "Too many blocks on capture stack",
            "Too many different emulation states",
            "Too many captured instructions" }

----------------------------------------------------------------------------
(***************************************************************************)
(* Captured basic blocks                                                   *)
(***************************************************************************)

CBB == [ dec_addr        : Addr,
         esID            : Nat,
         endType         : JccType \cup {None, Ret},
         nextBranch      : Nat,
         nextFallThrough : Nat,
         preferBranch    : BOOLEAN,
         instr           : Nat,
         count           : Nat ]

\* Fault: a new block's successor is left unset.
NewCBBUnset(f, id) ==
  [ dec_addr |-> f, esID |-> id, endType |-> None, nextBranch |-> -1,
    nextFallThrough |-> 0, preferBranch |-> FALSE, instr |-> 0, count |-> 0 ]

\* A block getCaptureBB starts: no instructions, no end, no successors.
NewCBB(f, id) ==
  [ dec_addr |-> f, esID |-> id, endType |-> None, nextBranch |-> 0,
    nextFallThrough |-> 0, preferBranch |-> FALSE, instr |-> 0, count |-> 0 ]

\* Faults: only ended blocks are searched; the emulator state is ignored.
WithKeyDone(bbs, f, id) ==
  { i \in 1 .. Len(bbs) :
      bbs[i].dec_addr = f /\ bbs[i].esID = id /\ bbs[i].endType # None }

WithKeyAddr(bbs, f, id) == { i \in 1 .. Len(bbs) : bbs[i].dec_addr = f }

\* The blocks of table bbs with key (f, id); findCaptureBB returns the first.
WithKey(bbs, f, id) ==
  { i \in 1 .. Len(bbs) : bbs[i].dec_addr = f /\ bbs[i].esID = id }

FindCaptureBB(bbs, f, id) ==
  CHOOSE i \in WithKey(bbs, f, id) :
    \A j \in WithKey(bbs, f, id) : i <= j

\* Whether getCaptureBB finds or has room for a block with key (f, id), the
\* table it leaves and the index of the block it returns.
CanGetCaptureBB(bbs, f, id) ==
  WithKey(bbs, f, id) # {} \/ Len(bbs) < capBBCapacity

\* Fault: a block that is found is started again.
TableAfterGetReset(bbs, f, id) ==
  IF WithKey(bbs, f, id) # {}
  THEN [bbs EXCEPT ![FindCaptureBB(bbs, f, id)] = NewCBB(f, id)]
  ELSE Append(bbs, NewCBB(f, id))

TableAfterGet(bbs, f, id) ==
  IF WithKey(bbs, f, id) # {} THEN bbs ELSE Append(bbs, NewCBB(f, id))

IndexOfGet(bbs, f, id) ==
  IF WithKey(bbs, f, id) # {} THEN FindCaptureBB(bbs, f, id) ELSE Len(bbs) + 1

(***************************************************************************)
(* Saved emulator states.  saveEmuState compares with all states saved so  *)
(* far; the first one found equal gives the ID.                            *)
(***************************************************************************)
\* Fault: only the state saved last is compared with.
EqualSavedLast(s) ==
  { i \in 1 .. Len(savedState) :
      i = Len(savedState) /\ EsIsEqual(s, savedState[i], parent = "es") }

EqualSaved(s) ==
  { i \in 1 .. Len(savedState) : EsIsEqual(s, savedState[i], parent = "es") }

CanSave(s) == EqualSaved(s) # {} \/ Len(savedState) < SAVEDSTATE_MAX

SaveID(s) ==
  IF EqualSaved(s) # {}
  THEN CHOOSE i \in EqualSaved(s) : \A j \in EqualSaved(s) : i <= j
  ELSE Len(savedState) + 1

SavedAfter(s) ==
  IF EqualSaved(s) # {} THEN savedState ELSE Append(savedState, s)

(***************************************************************************)
(* capture: copy instructions to the pool and count them for the block.    *)
(* Only the first captured instruction sets the start of the block; the    *)
(* others are taken to follow it in the pool.                              *)
(***************************************************************************)
Room(ins) == Len(capInstr) + Len(ins) <= capInstrCapacity

PoolAfter(ins) ==
  IF Room(ins) THEN capInstr \o ins
  ELSE capInstr \o SubSeq(ins, 1, capInstrCapacity - Len(capInstr))

\* Faults: capturing into the newest block; a start that is one too low.
CapturedLast(bbs, i, ins) ==
  IF ins = << >> THEN bbs
  ELSE [bbs EXCEPT
          ![Len(bbs)].instr = IF bbs[Len(bbs)].count = 0
                              THEN Len(capInstr) + 1 ELSE @,
          ![Len(bbs)].count = @ + Len(ins)]

CapturedFromZero(bbs, i, ins) ==
  IF ins = << >> THEN bbs
  ELSE [bbs EXCEPT
          ![i].instr = IF bbs[i].count = 0 THEN Len(capInstr) ELSE @,
          ![i].count = @ + Len(ins)]

Captured(bbs, i, ins) ==
  IF ins = << >> THEN bbs
  ELSE [bbs EXCEPT
          ![i].instr = IF bbs[i].count = 0 THEN Len(capInstr) + 1 ELSE @,
          ![i].count = @ + Len(ins)]

----------------------------------------------------------------------------
(***************************************************************************)
(* The engine                                                              *)
(***************************************************************************)

Init ==
  /\ code \in Code
  /\ es \in InitState
  /\ parent = "none"
  /\ pc = func
  /\ capBB = << >>
  /\ capInstr = << >>
  /\ capStack = << >>
  /\ savedState = << >>
  /\ currentCapBB = 0
  /\ status = "called"

\* The request for the function itself: first CBB, first saved state.
Start ==
  /\ status = "called"
  /\ savedState' = << es >>
  /\ IF capBBCapacity = 0
     THEN /\ status' = "Too many captured blocks"
          /\ UNCHANGED << capBB, capInstr, capStack, currentCapBB >>
     ELSE /\ capBB' = Captured(<< NewCBB(func, 1) >>, 1,
                               IF Room(Hints) THEN Hints ELSE << >>)
          /\ capInstr' = PoolAfter(Hints)
          /\ capStack' = << 1 >>
          /\ currentCapBB' = 1
          /\ status' = IF Room(Hints) THEN "running"
                       ELSE "Too many captured instructions"
  /\ UNCHANGED << code, es, parent, pc >>

\* Faults: handled blocks are not skipped; only the topmost block is looked at.
OpenOnStackAll == 1 .. Len(capStack)

OpenOnStackTop ==
  { k \in 1 .. Len(capStack) :
      k = Len(capStack) /\ capBB[capStack[k]].endType = None }

\* Positions on the capture stack that hold a block not yet processed.
OpenOnStack == { k \in 1 .. Len(capStack) : capBB[capStack[k]].endType = None }

\* Fault: a handled block is not taken off the stack, but looked at forever.
PathEndedSpin ==
  /\ status = "running" /\ currentCapBB = 0
  /\ Len(capStack) > 0 => Len(capStack) \in OpenOnStack

\* A path was followed to its end, or none was started yet.
PathEnded == status = "running" /\ currentCapBB = 0

\* Pop blocks already handled; go on with the topmost open one, if any.
OpenNext ==
  /\ PathEnded
  /\ IF OpenOnStack = {}
     THEN /\ status' = "done"
          /\ capStack' = << >>
          /\ UNCHANGED << es, parent, pc, currentCapBB >>
     ELSE LET top == CHOOSE k \in OpenOnStack : \A j \in OpenOnStack : j <= k
              cbb == capStack[top]
          IN /\ capStack' = SubSeq(capStack, 1, top)
             /\ currentCapBB' = cbb
             /\ es' = savedState[capBB[cbb].esID]
             /\ parent' = "es"
             /\ pc' = capBB[cbb].dec_addr
             /\ UNCHANGED status
  /\ UNCHANGED << code, capBB, capInstr, savedState >>

Result == Emulate(code, pc, es)

\* An instruction is about to be emulated.
Emulating == status = "running" /\ currentCapBB # 0

\* The emulator, or capturing while emulating, reports an error: the engine
\* drops all captured blocks and gives up.
EmulateError ==
  /\ Emulating
  /\ Result.kind = "error" \/ ~Room(Result.out)
  /\ status' = IF Room(Result.out) THEN "Emulator"
               ELSE "Too many captured instructions"
  /\ capInstr' = PoolAfter(Result.out)
  /\ es' = Result.es
  /\ capBB' = << >>
  /\ UNCHANGED << code, parent, pc, capStack, savedState, currentCapBB >>

\* Emulation goes on at a known address, within the same CBB.
EmulateStep ==
  /\ Emulating
  /\ Result.kind = "step" /\ Room(Result.out)
  /\ capBB' = Captured(capBB, currentCapBB, Result.out)
  /\ capInstr' = capInstr \o Result.out
  /\ es' = Result.es
  /\ pc' = Result.next
  /\ UNCHANGED << code, parent, capStack, savedState, currentCapBB, status >>

(***************************************************************************)
(* captureJcc: a jump whose condition is unknown ends the current CBB.     *)
(* Both continuations start in the state reached now; the one predicted    *)
(* (backward branch, else fall-through) is pushed last, to be next.        *)
(***************************************************************************)
AtJcc == Emulating /\ Result.kind = "jcc" /\ Room(Result.out)

JccID == SaveID(Result.es)

PreferBranch == Result.target < Result.fall

\* The table with the current CBB ended, and after each getCaptureBB.
ClosedTable ==
  LET bbs == Captured(capBB, currentCapBB, Result.out)
  IN [bbs EXCEPT ![currentCapBB].endType = Result.it,
                 ![currentCapBB].preferBranch = PreferBranch]

TableFT == TableAfterGet(ClosedTable, Result.fall, JccID)
TableBR == TableAfterGet(TableFT, Result.target, JccID)

\* Fault: the branch target is looked up before the fall-through was added.
NextBRStale == IndexOfGet(ClosedTable, Result.target, JccID)

NextFT == IndexOfGet(ClosedTable, Result.fall, JccID)
NextBR == IndexOfGet(TableFT, Result.target, JccID)

\* Fault: the link to the branch target is forgotten.
LinkedTableFTOnly ==
  [TableBR EXCEPT ![currentCapBB].nextFallThrough = NextFT]

LinkedTable ==
  [TableBR EXCEPT ![currentCapBB].nextFallThrough = NextFT,
                  ![currentCapBB].nextBranch = NextBR]

\* Fault: the continuation that is predicted is pushed twice.
PushedFirstSame == IF PreferBranch THEN NextBR ELSE NextFT

PushedFirst  == IF PreferBranch THEN NextFT ELSE NextBR
PushedSecond == IF PreferBranch THEN NextBR ELSE NextFT

PoppedStack == SubSeq(capStack, 1, Len(capStack) - 1)

RoomForBlocks ==
  /\ CanGetCaptureBB(ClosedTable, Result.fall, JccID)
  /\ CanGetCaptureBB(TableFT, Result.target, JccID)

RoomOnStack == Len(PoppedStack) + 2 <= CAPTURESTACK_LEN

EmulateJcc ==
  /\ AtJcc
  /\ CanSave(Result.es) /\ RoomForBlocks /\ RoomOnStack
  /\ es' = Result.es
  /\ capInstr' = capInstr \o Result.out
  /\ savedState' = SavedAfter(Result.es)
  /\ capBB' = LinkedTable
  /\ capStack' = Append(Append(PoppedStack, PushedFirst), PushedSecond)
  /\ currentCapBB' = 0
  /\ UNCHANGED << code, parent, pc, status >>

\* One of the three tables is full.  The engine drops all captured blocks.
\* Without a number for the state the blocks are still requested, with an ID no
\* block has, as they are here; their error is the one reported.
EmulateJccError ==
  /\ AtJcc
  /\ es' = Result.es
  /\ capInstr' = capInstr \o Result.out
  /\ savedState' = IF CanSave(Result.es) THEN SavedAfter(Result.es) ELSE savedState
  /\ \/ /\ ~RoomForBlocks
        /\ status' = "Too many captured blocks"
        /\ capStack' = PoppedStack
     \/ /\ ~CanSave(Result.es) /\ RoomForBlocks
        /\ status' = "Too many different emulation states"
        /\ capStack' = PoppedStack
     \/ /\ CanSave(Result.es) /\ RoomForBlocks /\ ~RoomOnStack
        /\ status' = "Too many blocks on capture stack"
        /\ capStack' = IF Len(PoppedStack) < CAPTURESTACK_LEN
                       THEN Append(PoppedStack, PushedFirst) ELSE PoppedStack
  /\ capBB' = << >>
  /\ currentCapBB' = 0
  /\ UNCHANGED << code, parent, pc >>

\* Return from the function: captureRet ends the path and the current CBB.
\* An error of captureRet leaves the captured blocks as they are.
EmulateRet ==
  /\ Emulating
  /\ Result.kind = "ret" /\ Room(Result.out)
  /\ LET all  == Result.out \o Result.fin
         bbs  == Captured(capBB, currentCapBB, all)
     IN IF Room(all)
        THEN /\ capBB' = [bbs EXCEPT ![currentCapBB].endType = Ret]
             /\ capInstr' = capInstr \o all
             /\ capStack' = SubSeq(capStack, 1, Len(capStack) - 1)
             /\ currentCapBB' = 0
             /\ UNCHANGED status
        ELSE /\ capInstr' = PoolAfter(all)
             /\ capBB' = Captured(capBB, currentCapBB,
                           SubSeq(all, 1, capInstrCapacity - Len(capInstr)))
             /\ status' = "Too many captured instructions"
             /\ UNCHANGED << capStack, currentCapBB >>
  /\ es' = Result.es
  /\ UNCHANGED << code, parent, pc, savedState >>

Next ==
  \/ Start
  \/ OpenNext
  \/ EmulateStep
  \/ EmulateJcc
  \/ EmulateJccError
  \/ EmulateRet
  \/ EmulateError

Spec == Init /\ [][Next]_vars

\* The engine is one sequential loop: it never stops while it can go on.
FairSpec == Spec /\ WF_vars(Next)

----------------------------------------------------------------------------
(***************************************************************************)
(* Properties                                                              *)
(***************************************************************************)

\* Every variable holds a value of the kind the C structures can hold.
TypeOK ==
  /\ code \in Code
  /\ es \in State
  /\ parent \in {"none", "es"}
  /\ pc \in Addr
  /\ capBB \in Seq(CBB)
  /\ capInstr \in Seq(Instr)
  /\ capStack \in Seq(Nat \ {0})
  /\ savedState \in Seq(State)
  /\ currentCapBB \in Nat
  /\ status \in {"called", "running", "done"} \cup Errors

\* The rewriting has not failed, so the captured blocks are meaningful.
Sound == status \in {"called", "running", "done"}

\* popCaptureBB asserts that the block to end is on top of the capture stack;
\* while emulating that holds, and the block has not been ended before.
StackDiscipline ==
  Emulating =>
    /\ Len(capStack) > 0
    /\ capStack[Len(capStack)] = currentCapBB
    /\ currentCapBB \in 1 .. Len(capBB)
    /\ capBB[currentCapBB].endType = None

\* No path is forgotten: a block without an end is always waiting on the
\* capture stack, however often it was pushed and duplicates were dropped.
NothingForgotten ==
  Sound =>
    \A i \in 1 .. Len(capBB) :
      capBB[i].endType = None => \E k \in 1 .. Len(capStack) : capStack[k] = i

\* The assertion made when a block is opened: nothing was captured into a
\* block before its turn, so its instructions are those of one trace.
EmptyUntilOpened ==
  Sound =>
    \A i \in 1 .. Len(capBB) :
      capBB[i].endType = None /\ i # currentCapBB => capBB[i].count = 0

\* A code point (address and emulator state) is captured only once: this is
\* what makes jumps back to known points end the exploration.
UniqueKeys ==
  \A i, j \in 1 .. Len(capBB) :
    capBB[i].dec_addr = capBB[j].dec_addr /\ capBB[i].esID = capBB[j].esID
      => i = j

\* A block ended by a jump has two successors that exist and start in one and
\* the same saved state; a block ended by a return has none.
WellLinked ==
  Sound =>
    \A i \in 1 .. Len(capBB) :
      LET b == capBB[i]
      IN IF b.endType \in {None, Ret}
         THEN b.nextBranch = 0 /\ b.nextFallThrough = 0
         ELSE /\ b.nextBranch \in 1 .. Len(capBB)
              /\ b.nextFallThrough \in 1 .. Len(capBB)
              /\ capBB[b.nextBranch].esID = capBB[b.nextFallThrough].esID
              /\ b.preferBranch <=> capBB[b.nextBranch].dec_addr
                                      < capBB[b.nextFallThrough].dec_addr

\* Blocks only keep the start of their instructions in the shared pool and
\* count on them being contiguous: no two blocks may claim the same slot, and
\* only the block being captured may end where the pool ends growing.
PoolRange(b) == IF b.count = 0 THEN {} ELSE b.instr .. (b.instr + b.count - 1)

PoolPartition ==
  Sound =>
    /\ \A i, j \in 1 .. Len(capBB) :
         i # j => PoolRange(capBB[i]) \cap PoolRange(capBB[j]) = {}
    /\ \A i \in 1 .. Len(capBB) :
         PoolRange(capBB[i]) \subseteq 1 .. Len(capInstr)
    /\ Emulating /\ capBB[currentCapBB].count > 0 =>
         capBB[currentCapBB].instr + capBB[currentCapBB].count = Len(capInstr) + 1

\* Every block but the first is the successor of a block found before it, so
\* all captured code is reachable from the entry of the new function.
Discovered ==
  Sound =>
    \A j \in 2 .. Len(capBB) :
      \E i \in 1 .. (j - 1) :
        j \in { capBB[i].nextBranch, capBB[i].nextFallThrough }

\* Saving never stores a state twice, except once for the entry state: until
\* the first restore the live state has no parent, and stack-relative values
\* of states with different parents never compare equal.
SavedOnce ==
  \A i, j \in 1 .. Len(savedState) :
    i < j /\ EsIsEqual(savedState[j], savedState[i], TRUE) => i = 1 /\ j = 2

\* When capturing succeeds, every path was followed to its end.
AllPathsDone ==
  status = "done" =>
    /\ Len(capBB) > 0 /\ Len(capStack) = 0 /\ currentCapBB = 0
    /\ \A i \in 1 .. Len(capBB) : capBB[i].endType # None

\* Blocks that were ended are never changed again, unless all are dropped.
EndedStays ==
  [][ capBB' # << >> =>
        \A i \in 1 .. Len(capBB) :
          capBB[i].endType # None => capBB'[i] = capBB[i] ]_vars

\* Capturing explores code points as PathExploration promises.
KeyOf(i) == << capBB[i].dec_addr, capBB[i].esID >>

OpenKeys   == { KeyOf(i) : i \in { j \in 1 .. Len(capBB) : capBB[j].endType = None } }
ClosedKeys == { KeyOf(i) : i \in { j \in 1 .. Len(capBB) : capBB[j].endType # None } }

BlockOf(p) == CHOOSE i \in 1 .. Len(capBB) : KeyOf(i) = p

SuccKeys ==
  [p \in ClosedKeys |->
     LET b == capBB[BlockOf(p)]
     IN IF b.endType = Ret THEN {}
        ELSE { KeyOf(b.nextBranch), KeyOf(b.nextFallThrough) }]

Exploration ==
  INSTANCE PathExploration WITH
    Point   <- Addr \X (1 .. SAVEDSTATE_MAX),
    open    <- IF Sound THEN OpenKeys ELSE {},
    closed  <- IF Sound THEN ClosedKeys ELSE {},
    succ    <- IF Sound THEN SuccKeys ELSE << >>,
    outcome <- CASE status = "done" -> "complete"
                 [] status \in Errors -> "failed"
                 [] OTHER -> "none"

ExploresPaths == Exploration!Spec
=============================================================================
