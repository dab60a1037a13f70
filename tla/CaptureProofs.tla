--------------------------- MODULE CaptureProofs ---------------------------
(***************************************************************************)
(* Proofs about Capture, for every program, emulator and capacity.         *)
(***************************************************************************)
EXTENDS CaptureTrace, FiniteSetTheorems, WellFoundedInduction, TLAPS

\* Every block waits for a state that was saved, and every entry of the
\* capture stack is a block of the table.
RefsValid ==
  Sound =>
    /\ \A i \in 1 .. Len(capBB) : capBB[i].esID \in 1 .. Len(savedState)
    /\ \A k \in 1 .. Len(capStack) : capStack[k] \in 1 .. Len(capBB)

\* resetCapturing has run before the first block is requested.
ResetBefore ==
  status = "called" =>
    /\ capBB = << >> /\ capInstr = << >> /\ capStack = << >>
    /\ savedState = << >> /\ currentCapBB = 0

\* While capturing there is at least the block of the function entry.
EntryExists == status \in {"running", "done"} => Len(capBB) > 0

PoolBound == Len(capInstr) <= capInstrCapacity

IInv ==
  /\ TypeOK /\ RefsValid /\ ResetBefore /\ EntryExists /\ PoolBound
  /\ StackDiscipline /\ NothingForgotten /\ AllPathsDone

----------------------------------------------------------------------------
(***************************************************************************)
(* Facts about the operators of Capture                                    *)
(***************************************************************************)

\* A nonempty set of natural numbers has a least element.
LEMMA LeastElement ==
  ASSUME NEW S, S \subseteq Nat, S # {}
  PROVE  \E i \in S : \A j \in S : i <= j
<1> DEFINE R == OpToRel(<, Nat)
<1>1. IsWellFoundedOn(R, Nat)
  BY NatLessThanWellFounded
<1>2. \A y, x \in Nat : y < x => << y, x >> \in R
  BY DEF OpToRel
<1> HIDE DEF R
<1>3. PICK x \in S : \A y \in S : ~(<< y, x >> \in R)
  BY <1>1, WFMin
<1>4. \A y \in S : ~(y < x)
  BY <1>2, <1>3
<1> QED
  BY <1>3, <1>4

\* Capturing changes only the pool range of the block captured into.
LEMMA CapturedFacts ==
  ASSUME NEW bbs \in Seq(CBB), NEW i \in 1 .. Len(bbs), NEW ins \in Seq(Instr),
         capInstr \in Seq(Instr)
  PROVE  LET new == Captured(bbs, i, ins)
         IN /\ new \in Seq(CBB)
            /\ Len(new) = Len(bbs)
            /\ \A j \in 1 .. Len(bbs) : j # i => new[j] = bbs[j]
            /\ \A j \in 1 .. Len(bbs) :
                 /\ new[j].dec_addr = bbs[j].dec_addr
                 /\ new[j].esID = bbs[j].esID
                 /\ new[j].endType = bbs[j].endType
                 /\ new[j].nextBranch = bbs[j].nextBranch
                 /\ new[j].nextFallThrough = bbs[j].nextFallThrough
                 /\ new[j].preferBranch = bbs[j].preferBranch
<1>1. bbs[i] \in CBB
  OBVIOUS
<1>2. CASE ins = << >>
  BY <1>2 DEF Captured
<1>3. CASE ins # << >>
  <2> DEFINE first == IF bbs[i].count = 0 THEN Len(capInstr) + 1 ELSE bbs[i].instr
             rec == [bbs[i] EXCEPT !.instr = first, !.count = @ + Len(ins)]
  <2>1. Captured(bbs, i, ins) = [bbs EXCEPT ![i] = rec]
    BY <1>3 DEF Captured
  <2>2. first \in Nat
    BY <1>1, SMTT(30) DEF CBB
  <2>3. rec \in CBB
    <3>1. Len(ins) \in Nat /\ bbs[i].count \in Nat
      BY <1>1, SMTT(30) DEF CBB
    <3>2. bbs[i].count + Len(ins) \in Nat
      BY <3>1
    <3> QED
      BY <1>1, <2>2, <3>2 DEF CBB
  <2>4. /\ rec.dec_addr = bbs[i].dec_addr
        /\ rec.esID = bbs[i].esID
        /\ rec.endType = bbs[i].endType
        /\ rec.nextBranch = bbs[i].nextBranch
        /\ rec.nextFallThrough = bbs[i].nextFallThrough
        /\ rec.preferBranch = bbs[i].preferBranch
    BY <1>1 DEF CBB
  <2> HIDE DEF rec
  <2> QED
    BY <2>1, <2>3, <2>4
<1> QED
  BY <1>2, <1>3

\* getCaptureBB keeps the blocks there are and returns one with the key asked
\* for; a new block is open, empty and has no successors.
LEMMA GetFacts ==
  ASSUME NEW bbs \in Seq(CBB), NEW f \in Addr, NEW id \in Nat
  PROVE  LET new == TableAfterGet(bbs, f, id)
             idx == IndexOfGet(bbs, f, id)
         IN /\ new \in Seq(CBB)
            /\ Len(new) \in {Len(bbs), Len(bbs) + 1}
            /\ idx \in 1 .. Len(new)
            /\ \A j \in 1 .. Len(bbs) : new[j] = bbs[j]
            /\ new[idx].dec_addr = f /\ new[idx].esID = id
            /\ Len(new) = Len(bbs) + 1 =>
                 /\ idx = Len(bbs) + 1
                 /\ new[idx] = NewCBB(f, id)
                 /\ WithKey(bbs, f, id) = {}
<1>1. NewCBB(f, id) \in CBB /\ NewCBB(f, id).dec_addr = f /\ NewCBB(f, id).esID = id
  BY DEF NewCBB, CBB
<1>2. CASE WithKey(bbs, f, id) = {}
  BY <1>1, <1>2 DEF TableAfterGet, IndexOfGet
<1>3. CASE WithKey(bbs, f, id) # {}
  <2>1. WithKey(bbs, f, id) \subseteq Nat
    BY DEF WithKey
  <2>2. \E i \in WithKey(bbs, f, id) : \A j \in WithKey(bbs, f, id) : i <= j
    BY <1>3, <2>1, LeastElement
  <2> DEFINE idx == FindCaptureBB(bbs, f, id)
  <2>3. idx \in WithKey(bbs, f, id)
    BY <2>2 DEF FindCaptureBB
  <2>4. idx \in 1 .. Len(bbs) /\ bbs[idx].dec_addr = f /\ bbs[idx].esID = id
    BY <2>3 DEF WithKey
  <2> HIDE DEF idx
  <2> QED
    BY <1>3, <2>4 DEF TableAfterGet, IndexOfGet, idx
<1> QED
  BY <1>2, <1>3

\* A prefix of a sequence.
LEMMA PrefixFacts ==
  ASSUME NEW S, NEW stack \in Seq(S), NEW n \in 0 .. Len(stack)
  PROVE  LET cut == SubSeq(stack, 1, n)
         IN /\ cut \in Seq(S)
            /\ Len(cut) = n
            /\ \A k \in 1 .. n : cut[k] = stack[k]
  OBVIOUS

\* Sequences of no and of one element, concatenation.
LEMMA EmptyFacts ==
  ASSUME NEW S
  PROVE  << >> \in Seq(S)
  OBVIOUS

\* A sequence of one element.
LEMMA SingletonFacts ==
  ASSUME NEW S, NEW x \in S
  PROVE  << x >> \in Seq(S) /\ Len(<< x >>) = 1 /\ << x >>[1] = x
  OBVIOUS

\* Concatenating sequences of the same elements.
LEMMA ConcatFacts ==
  ASSUME NEW S, NEW s \in Seq(S), NEW t \in Seq(S)
  PROVE  s \o t \in Seq(S) /\ Len(s \o t) = Len(s) + Len(t)
  OBVIOUS

\* Capturing never grows the pool beyond its capacity.
LEMMA PoolFacts ==
  ASSUME capInstr \in Seq(Instr), PoolBound, NEW ins \in Seq(Instr)
  PROVE  /\ PoolAfter(ins) \in Seq(Instr)
         /\ Len(PoolAfter(ins)) <= capInstrCapacity
<1>1. CASE Room(ins)
  BY <1>1, ConcatFacts DEF PoolAfter, Room
<1>2. CASE ~Room(ins)
  <2> DEFINE n == capInstrCapacity - Len(capInstr)
  <2>1. n \in 0 .. Len(ins)
    BY <1>2, BoundsAssumption DEF Room, PoolBound
  <2>2. SubSeq(ins, 1, n) \in Seq(Instr) /\ Len(SubSeq(ins, 1, n)) = n
    BY <2>1, PrefixFacts
  <2>3. PoolAfter(ins) = capInstr \o SubSeq(ins, 1, n)
    BY <1>2 DEF PoolAfter
  <2> HIDE DEF n
  <2>4. /\ PoolAfter(ins) \in Seq(Instr)
        /\ Len(PoolAfter(ins)) = Len(capInstr) + n
    BY <2>2, <2>3, ConcatFacts
  <2> QED
    BY <2>4, BoundsAssumption DEF n
<1> QED
  BY <1>1, <1>2

\* What the emulator reports is an outcome the engine can handle.
LEMMA ResultType == TypeOK => Result \in Outcome
  BY EmulateAssumption DEF TypeOK, Result

----------------------------------------------------------------------------
(***************************************************************************)
(* The invariant holds initially and every action preserves it.            *)
(***************************************************************************)

\* An engine that was just allocated.
LEMMA InitIInv == Init => IInv
<1> SUFFICES ASSUME Init PROVE IInv
  OBVIOUS
<1>1. TypeOK
  BY CodeAssumption DEF Init, TypeOK
<1>2. RefsValid /\ ResetBefore /\ EntryExists /\ PoolBound
  BY BoundsAssumption DEF Init, RefsValid, ResetBefore, EntryExists, PoolBound
<1>3. StackDiscipline /\ NothingForgotten /\ AllPathsDone
  BY DEF Init, StackDiscipline, NothingForgotten, AllPathsDone, Emulating
<1> QED
  BY <1>1, <1>2, <1>3 DEF IInv

\* The request: tables reset, the entry state saved, the first block pushed.
LEMMA StartIInv == IInv /\ Start => IInv'
<1> SUFFICES ASSUME IInv, Start PROVE IInv'
  OBVIOUS
<1> DEFINE entry == << NewCBB(func, 1) >>
           ins == IF Room(Hints) THEN Hints ELSE << >>
<1>1. /\ TypeOK /\ capBB = << >> /\ capInstr = << >> /\ capStack = << >>
      /\ savedState = << >> /\ currentCapBB = 0
  BY DEF IInv, ResetBefore, Start
<1>2. /\ entry \in Seq(CBB) /\ Len(entry) = 1 /\ entry[1] = NewCBB(func, 1)
      /\ ins \in Seq(Instr)
  <2>1. NewCBB(func, 1) \in CBB
    BY CodeAssumption DEF NewCBB, CBB
  <2>2. ins \in Seq(Instr)
    BY CodeAssumption
  <2> QED
    BY <2>1, <2>2, SingletonFacts
<1>3. /\ savedState' = << es >> /\ es' = es /\ es \in State
      /\ savedState' \in Seq(State) /\ Len(savedState') = 1
  BY <1>1, SingletonFacts DEF Start, TypeOK
<1>4. CASE capBBCapacity = 0
  <2>1. /\ status' = "Too many captured blocks"
        /\ UNCHANGED << capBB, capInstr, capStack, currentCapBB, code, es, parent, pc >>
    BY <1>4 DEF Start
  <2>2. TypeOK'
    BY <1>1, <1>3, <2>1 DEF TypeOK, Errors
  <2> QED
    BY <1>1, <2>1, <2>2
    DEF IInv, RefsValid, ResetBefore, EntryExists, PoolBound, StackDiscipline,
        NothingForgotten, AllPathsDone, Sound, Emulating
<1>5. CASE capBBCapacity # 0
  <2> DEFINE new == Captured(entry, 1, ins)
  <2>1. /\ capBB' = new /\ capInstr' = PoolAfter(Hints) /\ capStack' = << 1 >>
        /\ currentCapBB' = 1
        /\ status' \in {"running", "Too many captured instructions"}
        /\ UNCHANGED << code, es, parent, pc >>
    BY <1>5 DEF Start
  <2>2. /\ new \in Seq(CBB) /\ Len(new) = 1
        /\ new[1].esID = 1 /\ new[1].endType = None
    <3>1. entry[1].esID = 1 /\ entry[1].endType = None
      BY <1>2 DEF NewCBB
    <3>2. capInstr \in Seq(Instr) /\ 1 \in 1 .. Len(entry)
      BY <1>1, <1>2 DEF TypeOK
    <3> HIDE DEF entry, ins
    <3>3. /\ new \in Seq(CBB) /\ Len(new) = Len(entry)
          /\ \A j \in 1 .. Len(entry) :
               new[j].esID = entry[j].esID /\ new[j].endType = entry[j].endType
      BY <1>2, <3>2, CapturedFacts
    <3> QED
      BY <1>2, <3>1, <3>2, <3>3
  <2> HIDE DEF new
  <2>3. capInstr' \in Seq(Instr) /\ Len(capInstr') <= capInstrCapacity
    BY <1>1, <2>1, CodeAssumption, PoolFacts DEF IInv, TypeOK
  <2>4. /\ capStack' \in Seq(Nat \ {0}) /\ Len(capStack') = 1
        /\ capStack'[1] = 1
    <3>1. 1 \in Nat \ {0}
      OBVIOUS
    <3> QED
      BY <2>1, <3>1, SingletonFacts
  <2>5. TypeOK'
    BY <1>1, <1>3, <2>1, <2>2, <2>3, <2>4 DEF TypeOK, Errors
  <2>6. /\ Len(capBB') = 1 /\ capBB'[1].esID = 1
        /\ capBB'[1].endType = None
    BY <2>1, <2>2
  <2>7. RefsValid'
    <3>1. \A i \in 1 .. Len(capBB') : i = 1 /\ capBB'[i].esID = 1
      BY <2>6
    <3>2. \A k \in 1 .. Len(capStack') : k = 1 /\ capStack'[k] = 1
      BY <2>4
    <3> QED
      BY <1>3, <2>1, <2>2, <3>1, <3>2 DEF RefsValid
  <2>8. StackDiscipline'
    <3>1. capStack'[Len(capStack')] = 1 /\ Len(capStack') > 0
      BY <2>4
    <3>2. 1 \in 1 .. Len(capBB')
      BY <2>6
    <3> QED
      BY <2>1, <2>6, <3>1, <3>2 DEF StackDiscipline
  <2>9. NothingForgotten'
    BY <2>6, <2>4 DEF NothingForgotten
  <2>10. ResetBefore' /\ AllPathsDone'
    BY <2>1 DEF ResetBefore, AllPathsDone
  <2>11. EntryExists'
    BY <2>6 DEF EntryExists
  <2>12. PoolBound'
    BY <2>3 DEF PoolBound
  <2> QED
    BY <2>5, <2>7, <2>8, <2>9, <2>10, <2>11, <2>12 DEF IInv
<1> QED
  BY <1>4, <1>5

\* Opening the next block drops stale entries of the stack only.
LEMMA OpenNextIInv == IInv /\ OpenNext => IInv'
<1> SUFFICES ASSUME IInv, OpenNext PROVE IInv'
  OBVIOUS
<1>1. /\ TypeOK /\ RefsValid /\ NothingForgotten /\ EntryExists /\ PoolBound
      /\ status = "running" /\ currentCapBB = 0
      /\ UNCHANGED << code, capBB, capInstr, savedState >>
  BY DEF IInv, OpenNext, PathEnded
<1>2. CASE OpenOnStack = {}
  <2>1. /\ status' = "done" /\ capStack' = << >>
        /\ UNCHANGED << es, parent, pc, currentCapBB >>
    BY <1>2 DEF OpenNext, PathEnded
  <2>2. \A i \in 1 .. Len(capBB) : capBB[i].endType # None
    BY <1>1, <1>2 DEF NothingForgotten, Sound, OpenOnStack
  <2>3. TypeOK'
    BY <1>1, <2>1 DEF TypeOK
  <2> QED
    BY <1>1, <2>1, <2>2, <2>3
    DEF IInv, RefsValid, ResetBefore, EntryExists, PoolBound, StackDiscipline,
        NothingForgotten, AllPathsDone, Sound, Emulating
<1>3. CASE OpenOnStack # {}
  <2> DEFINE top == CHOOSE k \in OpenOnStack : \A j \in OpenOnStack : j <= k
             cbb == capStack[top]
  <2>1. top \in OpenOnStack /\ \A j \in OpenOnStack : j <= top
    <3> DEFINE D == { Len(capStack) - k : k \in OpenOnStack }
    <3>1. D \subseteq Nat /\ D # {}
      BY <1>1, <1>3 DEF OpenOnStack, TypeOK
    <3>2. PICK d \in D : \A e \in D : d <= e
      BY <3>1, LeastElement
    <3>3. PICK k \in OpenOnStack : d = Len(capStack) - k
      OBVIOUS
    <3>4. ASSUME NEW j \in OpenOnStack PROVE j <= k
      <4>1. Len(capStack) - j \in D
        OBVIOUS
      <4>2. Len(capStack) - k <= Len(capStack) - j
        BY <3>2, <3>3, <4>1
      <4> QED
        BY <1>1, <4>2 DEF OpenOnStack, TypeOK
    <3> QED
      BY <3>3, <3>4
  <2>2. /\ top \in 1 .. Len(capStack)
        /\ capBB[cbb].endType = None
        /\ cbb \in 1 .. Len(capBB)
        /\ capBB[cbb].esID \in 1 .. Len(savedState)
        /\ capBB[cbb] \in CBB
    <3>1. top \in 1 .. Len(capStack) /\ capBB[cbb].endType = None
      BY <2>1 DEF OpenOnStack
    <3> HIDE DEF top
    <3>2. Sound
      BY <1>1 DEF Sound
    <3>3. cbb \in 1 .. Len(capBB)
      BY <1>1, <3>1, <3>2 DEF RefsValid
    <3>4. capBB[cbb].esID \in 1 .. Len(savedState)
      BY <1>1, <3>2, <3>3 DEF RefsValid
    <3>5. capBB[cbb] \in CBB
      BY <1>1, <3>3 DEF TypeOK
    <3> QED
      BY <3>1, <3>3, <3>4, <3>5
  <2>3. /\ capStack' = SubSeq(capStack, 1, top)
        /\ currentCapBB' = cbb
        /\ es' = savedState[capBB[cbb].esID]
        /\ parent' = "es"
        /\ pc' = capBB[cbb].dec_addr
        /\ status' = status
    BY <1>3 DEF OpenNext, PathEnded
  <2>4. \A k \in 1 .. Len(capStack) :
          capBB[capStack[k]].endType = None => k <= top
    BY <2>1 DEF OpenOnStack
  <2>5. cbb = capStack[top]
    OBVIOUS
  <2> HIDE DEF top, cbb
  <2>6. /\ capStack' \in Seq(Nat \ {0}) /\ Len(capStack') = top
        /\ \A k \in 1 .. top : capStack'[k] = capStack[k]
    <3>1. capStack \in Seq(Nat \ {0}) /\ top \in 0 .. Len(capStack)
      BY <1>1, <2>2 DEF TypeOK
    <3> QED
      BY <2>3, <3>1, PrefixFacts
  <2>7. TypeOK'
    <3>1. es' \in State
      BY <1>1, <2>2, <2>3 DEF TypeOK
    <3>2. pc' \in Addr /\ currentCapBB' \in Nat
      BY <2>2, <2>3 DEF CBB
    <3> QED
      BY <1>1, <2>3, <2>6, <3>1, <3>2 DEF TypeOK
  <2>8. RefsValid'
    BY <1>1, <2>2, <2>3, <2>6 DEF RefsValid, Sound, TypeOK
  <2>9. NothingForgotten'
    <3>1. ASSUME NEW i \in 1 .. Len(capBB), capBB[i].endType = None
          PROVE  \E k \in 1 .. Len(capStack') : capStack'[k] = i
      <4>1. PICK k \in 1 .. Len(capStack) : capStack[k] = i
        BY <1>1, <3>1 DEF NothingForgotten, Sound
      <4>2. k \in 1 .. top
        BY <2>2, <2>4, <3>1, <4>1
      <4> QED
        BY <2>6, <4>1, <4>2
    <3> QED
      BY <1>1, <3>1 DEF NothingForgotten
  <2>10. StackDiscipline'
    BY <1>1, <2>2, <2>3, <2>6, <2>5 DEF StackDiscipline, TypeOK
  <2> QED
    BY <1>1, <2>3, <2>7, <2>8, <2>9, <2>10
    DEF IInv, ResetBefore, EntryExists, PoolBound, AllPathsDone
<1> QED
  BY <1>2, <1>3

\* What holds whenever an instruction is about to be emulated.
LEMMA EmulatingFacts ==
  ASSUME IInv, Emulating
  PROVE  /\ TypeOK /\ Sound /\ status = "running"
         /\ currentCapBB \in 1 .. Len(capBB)
         /\ capBB[currentCapBB].endType = None
         /\ Len(capStack) > 0 /\ capStack[Len(capStack)] = currentCapBB
         /\ Result.es \in State /\ Result.next \in Addr
         /\ Result.target \in Addr /\ Result.fall \in Addr
         /\ Result.it \in JccType
         /\ Result.out \in Seq(Instr) /\ Result.fin \in Seq(Instr)
<1>1. TypeOK /\ StackDiscipline /\ Sound /\ status = "running"
  BY DEF IInv, Emulating, Sound
<1>2. Result \in Outcome
  BY <1>1, ResultType
<1> QED
  BY <1>1, <1>2 DEF StackDiscipline, Outcome

\* Once an error is reported, only the types and the pool matter.
LEMMA FailedIInv ==
  ASSUME TypeOK', PoolBound', status' \in Errors
  PROVE  IInv'
<1>1. status' \notin {"called", "running", "done"}
  BY DEF Errors
<1> QED
  BY <1>1 DEF IInv, RefsValid, ResetBefore, EntryExists, StackDiscipline,
              NothingForgotten, AllPathsDone, Sound, Emulating

\* An error of the emulator empties the table of blocks.
LEMMA EmulateErrorIInv == IInv /\ EmulateError => IInv'
<1> SUFFICES ASSUME IInv, EmulateError PROVE IInv'
  OBVIOUS
<1>1. /\ Emulating
      /\ status' \in {"Emulator", "Too many captured instructions"}
      /\ capInstr' = PoolAfter(Result.out) /\ es' = Result.es /\ capBB' = << >>
      /\ UNCHANGED << code, parent, pc, capStack, savedState, currentCapBB >>
  BY DEF EmulateError
<1>2. TypeOK /\ Result.es \in State /\ Result.out \in Seq(Instr)
  BY <1>1, EmulatingFacts
<1>3. capInstr' \in Seq(Instr) /\ Len(capInstr') <= capInstrCapacity
  BY <1>1, <1>2, PoolFacts DEF IInv, TypeOK
<1>4. capBB' \in Seq(CBB)
  <2>1. << >> \in Seq(CBB)
    BY EmptyFacts
  <2> QED
    BY <1>1, <2>1
<1>5. TypeOK'
  BY <1>1, <1>2, <1>3, <1>4 DEF TypeOK, Errors
<1>6. PoolBound'
  BY <1>3 DEF PoolBound
<1> QED
  BY <1>1, <1>5, <1>6, FailedIInv DEF Errors

\* Emulating on captures into the current block only.
LEMMA EmulateStepIInv == IInv /\ EmulateStep => IInv'
<1> SUFFICES ASSUME IInv, EmulateStep PROVE IInv'
  OBVIOUS
<1>1. /\ Emulating /\ Room(Result.out)
      /\ capBB' = Captured(capBB, currentCapBB, Result.out)
      /\ capInstr' = capInstr \o Result.out
      /\ es' = Result.es /\ pc' = Result.next
      /\ UNCHANGED << code, parent, capStack, savedState, currentCapBB, status >>
  BY DEF EmulateStep
<1>2. /\ TypeOK /\ RefsValid /\ NothingForgotten /\ status = "running" /\ Sound
      /\ currentCapBB \in 1 .. Len(capBB)
      /\ capBB[currentCapBB].endType = None
      /\ Len(capStack) > 0 /\ capStack[Len(capStack)] = currentCapBB
      /\ Result.es \in State /\ Result.next \in Addr
      /\ Result.out \in Seq(Instr)
  BY <1>1, EmulatingFacts DEF IInv
<1>3. /\ capBB' \in Seq(CBB) /\ Len(capBB') = Len(capBB)
      /\ \A j \in 1 .. Len(capBB) :
           capBB'[j].esID = capBB[j].esID /\ capBB'[j].endType = capBB[j].endType
  BY <1>1, <1>2, CapturedFacts, ZenonT(60) DEF TypeOK
<1>4. /\ capInstr' \in Seq(Instr)
      /\ Len(capInstr') = Len(capInstr) + Len(Result.out)
  BY <1>1, <1>2, ConcatFacts DEF TypeOK
<1>5. TypeOK'
  BY <1>1, <1>2, <1>3, <1>4 DEF TypeOK
<1>6. RefsValid'
  BY <1>1, <1>2, <1>3 DEF RefsValid, Sound
<1>7. StackDiscipline'
  BY <1>1, <1>2, <1>3 DEF StackDiscipline
<1>8. NothingForgotten'
  BY <1>1, <1>2, <1>3 DEF NothingForgotten, Sound
<1>9. PoolBound'
  BY <1>1, <1>4 DEF PoolBound, Room
<1>10. ResetBefore' /\ AllPathsDone'
  BY <1>1, <1>2 DEF ResetBefore, AllPathsDone
<1>11. EntryExists'
  BY <1>2, <1>3 DEF EntryExists
<1> QED
  BY <1>5, <1>6, <1>7, <1>8, <1>9, <1>10, <1>11 DEF IInv

\* Saving a state returns the number of a saved state and forgets none.
LEMMA SaveFacts ==
  ASSUME TypeOK, NEW s \in State
  PROVE  LET new == SavedAfter(s)
         IN /\ new \in Seq(State)
            /\ Len(savedState) <= Len(new)
            /\ SaveID(s) \in 1 .. Len(new)
<1>1. savedState \in Seq(State)
  BY DEF TypeOK
<1>2. CASE EqualSaved(s) = {}
  BY <1>1, <1>2 DEF SavedAfter, SaveID
<1>3. CASE EqualSaved(s) # {}
  <2>1. EqualSaved(s) \subseteq 1 .. Len(savedState) /\ Len(savedState) \in Nat
    BY <1>1 DEF EqualSaved
  <2>2. \E i \in EqualSaved(s) : \A j \in EqualSaved(s) : i <= j
    BY <1>3, <2>1, LeastElement
  <2>3. SaveID(s) \in EqualSaved(s)
    BY <1>3, <2>2 DEF SaveID
  <2> QED
    BY <1>1, <1>3, <2>1, <2>3 DEF SavedAfter
<1> QED
  BY <1>2, <1>3

\* The table while a conditional jump is captured: the block ended keeps its
\* key, the others are kept as they are, and what is new is open and waits in
\* the state just saved for its turn.
LEMMA ClosedFacts ==
  ASSUME IInv, AtJcc
  PROVE  /\ ClosedTable \in Seq(CBB) /\ Len(ClosedTable) = Len(capBB)
         /\ ClosedTable[currentCapBB].esID = capBB[currentCapBB].esID
         /\ ClosedTable[currentCapBB].dec_addr = capBB[currentCapBB].dec_addr
         /\ ClosedTable[currentCapBB].endType = Result.it
         /\ \A j \in 1 .. Len(capBB) : j # currentCapBB => ClosedTable[j] = capBB[j]
<1> DEFINE bbs == Captured(capBB, currentCapBB, Result.out)
           cur == currentCapBB
           rec == [bbs[cur] EXCEPT !.endType = Result.it,
                                   !.preferBranch = PreferBranch]
<1>1. /\ TypeOK /\ cur \in 1 .. Len(capBB) /\ Result.out \in Seq(Instr)
      /\ Result.it \in JccType
  BY EmulatingFacts DEF AtJcc
<1>2. /\ bbs \in Seq(CBB) /\ Len(bbs) = Len(capBB)
      /\ \A j \in 1 .. Len(capBB) : j # cur => bbs[j] = capBB[j]
      /\ bbs[cur].esID = capBB[cur].esID
      /\ bbs[cur].dec_addr = capBB[cur].dec_addr
  BY <1>1, CapturedFacts DEF TypeOK
<1>3. ClosedTable = [bbs EXCEPT ![cur] = rec]
  BY DEF ClosedTable
<1>4. PreferBranch \in BOOLEAN
  BY DEF PreferBranch
<1> HIDE DEF bbs, cur
<1>5. bbs[cur] \in CBB
  BY <1>1, <1>2
<1>6. /\ rec \in CBB /\ rec.endType = Result.it
      /\ rec.esID = bbs[cur].esID /\ rec.dec_addr = bbs[cur].dec_addr
  BY <1>1, <1>4, <1>5 DEF CBB
<1> HIDE DEF rec
<1> QED
  BY <1>1, <1>2, <1>3, <1>6 DEF cur

\* The table after captureJcc has linked the block that ends to both successors.
LEMMA LinkedFacts ==
  ASSUME IInv, AtJcc
  PROVE  /\ LinkedTable \in Seq(CBB) /\ Len(capBB) <= Len(LinkedTable)
         /\ NextFT \in 1 .. Len(LinkedTable) /\ NextBR \in 1 .. Len(LinkedTable)
         /\ LinkedTable[currentCapBB].endType = Result.it
         /\ LinkedTable[currentCapBB].esID = capBB[currentCapBB].esID
         /\ \A j \in 1 .. Len(capBB) :
              j # currentCapBB => LinkedTable[j] = capBB[j]
         /\ \A j \in 1 .. Len(LinkedTable) : j > Len(capBB) =>
              /\ LinkedTable[j].esID = JccID
              /\ j \in {NextFT, NextBR}
<1> DEFINE cur == currentCapBB
           n == Len(capBB)
           rec == [TableBR[cur] EXCEPT !.nextFallThrough = NextFT,
                                       !.nextBranch = NextBR]
<1>1. /\ ClosedTable \in Seq(CBB) /\ Len(ClosedTable) = n
      /\ ClosedTable[cur].esID = capBB[cur].esID
      /\ ClosedTable[cur].endType = Result.it
      /\ \A j \in 1 .. n : j # cur => ClosedTable[j] = capBB[j]
  BY ClosedFacts
<1>2. /\ TypeOK /\ cur \in 1 .. n /\ Result.fall \in Addr /\ Result.target \in Addr
      /\ Result.es \in State
  BY EmulatingFacts DEF AtJcc
<1>3. JccID \in Nat /\ n \in Nat
  <2>1. JccID \in 1 .. Len(SavedAfter(Result.es)) /\ SavedAfter(Result.es) \in Seq(State)
    BY <1>2, SaveFacts DEF JccID
  <2> QED
    BY <1>2, <2>1 DEF TypeOK
<1> HIDE DEF cur, n
<1>4. /\ TableFT \in Seq(CBB) /\ Len(TableFT) \in {n, n + 1}
      /\ NextFT \in 1 .. Len(TableFT)
      /\ \A j \in 1 .. n : TableFT[j] = ClosedTable[j]
      /\ TableFT[NextFT].esID = JccID
      /\ Len(TableFT) = n + 1 => NextFT = n + 1
  BY <1>1, <1>2, <1>3, GetFacts DEF TableFT, NextFT
<1>5. /\ TableBR \in Seq(CBB) /\ Len(TableBR) \in {Len(TableFT), Len(TableFT) + 1}
      /\ NextBR \in 1 .. Len(TableBR)
      /\ \A j \in 1 .. Len(TableFT) : TableBR[j] = TableFT[j]
      /\ TableBR[NextBR].esID = JccID
      /\ Len(TableBR) = Len(TableFT) + 1 => NextBR = Len(TableFT) + 1
  BY <1>2, <1>3, <1>4, GetFacts DEF TableBR, NextBR
<1>6. LinkedTable = [TableBR EXCEPT ![cur] = rec]
  BY DEF LinkedTable, cur
<1>7. n <= Len(TableFT) /\ Len(TableFT) <= Len(TableBR)
  BY <1>3, <1>4, <1>5
<1>8. cur \in 1 .. Len(TableBR) /\ TableBR[cur] \in CBB
  BY <1>2, <1>3, <1>4, <1>5, <1>7
<1>9. rec \in CBB /\ rec.endType = TableBR[cur].endType /\ rec.esID = TableBR[cur].esID
  <2>1. NextFT \in Nat /\ NextBR \in Nat
    BY <1>4, <1>5
  <2> QED
    BY <1>8, <2>1 DEF CBB
<1> HIDE DEF rec
<1>10. /\ LinkedTable \in Seq(CBB) /\ Len(LinkedTable) = Len(TableBR)
       /\ LinkedTable[cur] = rec
       /\ \A j \in 1 .. Len(TableBR) : j # cur => LinkedTable[j] = TableBR[j]
  BY <1>5, <1>6, <1>8, <1>9
<1>11. TableBR[cur] = ClosedTable[cur]
  BY <1>2, <1>3, <1>4, <1>5, <1>7
<1>12. \A j \in 1 .. n : j # cur => LinkedTable[j] = capBB[j]
  BY <1>1, <1>3, <1>4, <1>5, <1>7, <1>10
<1>13. ASSUME NEW j \in 1 .. Len(LinkedTable), j > n
       PROVE  LinkedTable[j].esID = JccID /\ j \in {NextFT, NextBR}
  <2>1. j # cur /\ LinkedTable[j] = TableBR[j]
    BY <1>2, <1>3, <1>10, <1>13
  <2>2. CASE j <= Len(TableFT)
    <3>1. Len(TableFT) = n + 1 /\ j = n + 1
      BY <1>3, <1>4, <1>13, <2>2
    <3> QED
      BY <1>4, <1>5, <2>1, <2>2, <3>1
  <2>3. CASE j > Len(TableFT)
    <3>1. Len(TableBR) = Len(TableFT) + 1 /\ j = Len(TableFT) + 1
      BY <1>3, <1>4, <1>5, <1>10, <1>13, <2>3
    <3> QED
      BY <1>5, <2>1, <3>1
  <2> QED
    BY <1>4, <1>10, <2>2, <2>3
<1>14. n <= Len(LinkedTable) /\ NextFT \in 1 .. Len(LinkedTable)
       /\ NextBR \in 1 .. Len(LinkedTable)
  BY <1>3, <1>4, <1>5, <1>7, <1>10
<1> QED
  BY <1>1, <1>9, <1>10, <1>11, <1>12, <1>13, <1>14 DEF cur, n

\* Pushing one or two blocks on the capture stack without its topmost entry.
LEMMA PushFacts ==
  ASSUME TypeOK, Len(capStack) > 0, NEW a \in Nat \ {0}, NEW b \in Nat \ {0}
  PROVE  LET n == Len(capStack) - 1
             two == Append(Append(PoppedStack, a), b)
         IN /\ PoppedStack \in Seq(Nat \ {0})
            /\ Append(PoppedStack, a) \in Seq(Nat \ {0})
            /\ two \in Seq(Nat \ {0}) /\ Len(two) = n + 2
            /\ \A k \in 1 .. n : two[k] = capStack[k]
            /\ two[n + 1] = a /\ two[n + 2] = b
<1> DEFINE n == Len(capStack) - 1
<1>1. capStack \in Seq(Nat \ {0}) /\ n \in 0 .. Len(capStack)
  BY DEF TypeOK
<1>2. /\ PoppedStack \in Seq(Nat \ {0}) /\ Len(PoppedStack) = n
      /\ \A k \in 1 .. n : PoppedStack[k] = capStack[k]
  BY <1>1, PrefixFacts DEF PoppedStack
<1> HIDE DEF n
<1> QED
  BY <1>1, <1>2 DEF n

\* Ending a block with a jump pushes both successors before it is popped.
LEMMA EmulateJccIInv == IInv /\ EmulateJcc => IInv'
<1> SUFFICES ASSUME IInv, EmulateJcc PROVE IInv'
  OBVIOUS
<1> DEFINE n == Len(capStack) - 1
<1>1. /\ AtJcc /\ Emulating /\ Room(Result.out)
      /\ es' = Result.es /\ capInstr' = capInstr \o Result.out
      /\ savedState' = SavedAfter(Result.es)
      /\ capBB' = LinkedTable
      /\ capStack' = Append(Append(PoppedStack, PushedFirst), PushedSecond)
      /\ currentCapBB' = 0
      /\ UNCHANGED << code, parent, pc, status >>
  BY DEF EmulateJcc, AtJcc
<1>2. /\ TypeOK /\ RefsValid /\ NothingForgotten /\ Sound /\ status = "running"
      /\ currentCapBB \in 1 .. Len(capBB)
      /\ Len(capStack) > 0 /\ capStack[Len(capStack)] = currentCapBB
      /\ Result.es \in State /\ Result.out \in Seq(Instr) /\ Result.it \in JccType
  BY <1>1, EmulatingFacts DEF IInv
<1>3. /\ capBB' \in Seq(CBB) /\ Len(capBB) <= Len(capBB')
      /\ NextFT \in 1 .. Len(capBB') /\ NextBR \in 1 .. Len(capBB')
      /\ capBB'[currentCapBB].endType = Result.it
      /\ capBB'[currentCapBB].esID = capBB[currentCapBB].esID
      /\ \A j \in 1 .. Len(capBB) : j # currentCapBB => capBB'[j] = capBB[j]
      /\ \A j \in 1 .. Len(capBB') : j > Len(capBB) =>
           capBB'[j].esID = JccID /\ j \in {NextFT, NextBR}
  BY <1>1, LinkedFacts
<1>4. /\ savedState' \in Seq(State) /\ Len(savedState) <= Len(savedState')
      /\ JccID \in 1 .. Len(savedState')
  BY <1>1, <1>2, SaveFacts DEF JccID
<1>5. PushedFirst \in {NextFT, NextBR} /\ PushedSecond \in {NextFT, NextBR}
      /\ {NextFT, NextBR} = {PushedFirst, PushedSecond}
  BY DEF PushedFirst, PushedSecond
<1>6. /\ capStack' \in Seq(Nat \ {0}) /\ Len(capStack') = n + 2 /\ n \in Nat
      /\ \A k \in 1 .. n : capStack'[k] = capStack[k]
      /\ capStack'[n + 1] = PushedFirst /\ capStack'[n + 2] = PushedSecond
  <2>1. PushedFirst \in Nat \ {0} /\ PushedSecond \in Nat \ {0}
    BY <1>3, <1>5
  <2>2. n \in Nat
    BY <1>2 DEF TypeOK
  <2> QED
    BY <1>1, <1>2, <2>1, <2>2, PushFacts
<1>7. /\ capInstr' \in Seq(Instr)
      /\ Len(capInstr') = Len(capInstr) + Len(Result.out)
  BY <1>1, <1>2, ConcatFacts DEF TypeOK
<1> HIDE DEF n
<1>8. TypeOK'
  BY <1>1, <1>2, <1>3, <1>4, <1>6, <1>7 DEF TypeOK
<1>9. RefsValid'
  <2>1. ASSUME NEW i \in 1 .. Len(capBB') PROVE capBB'[i].esID \in 1 .. Len(savedState')
    <3>1. CASE i > Len(capBB)
      BY <1>3, <1>4, <3>1
    <3>2. CASE ~(i > Len(capBB))
      <4>1. i \in 1 .. Len(capBB) /\ capBB[i].esID \in 1 .. Len(savedState)
        BY <1>2, <1>3, <3>2 DEF RefsValid, TypeOK
      <4>2. capBB'[i].esID = capBB[i].esID
        BY <1>3, <4>1
      <4> QED
        BY <1>2, <1>4, <4>1, <4>2 DEF TypeOK
    <3> QED
      BY <3>1, <3>2
  <2>2. ASSUME NEW k \in 1 .. Len(capStack') PROVE capStack'[k] \in 1 .. Len(capBB')
    <3>1. CASE k \in 1 .. n
      <4>1. capStack'[k] = capStack[k] /\ k \in 1 .. Len(capStack)
        BY <1>2, <1>6, <3>1, SMTT(30) DEF n, TypeOK
      <4>2. capStack[k] \in 1 .. Len(capBB)
        BY <1>2, <4>1 DEF RefsValid
      <4> QED
        BY <1>2, <1>3, <4>1, <4>2 DEF TypeOK
    <3>2. CASE k \notin 1 .. n
      <4>1. k = n + 1 \/ k = n + 2
        BY <1>6, <3>2
      <4> QED
        BY <1>3, <1>5, <1>6, <4>1
    <3> QED
      BY <3>1, <3>2
  <2> QED
    BY <2>1, <2>2 DEF RefsValid
<1>10. NothingForgotten'
  <2>1. ASSUME NEW i \in 1 .. Len(capBB'), capBB'[i].endType = None
        PROVE  \E k \in 1 .. Len(capStack') : capStack'[k] = i
    <3>1. CASE i > Len(capBB)
      <4>1. i = PushedFirst \/ i = PushedSecond
        BY <1>3, <1>5, <3>1
      <4>2. n + 1 \in 1 .. Len(capStack') /\ n + 2 \in 1 .. Len(capStack')
        BY <1>6
      <4> QED
        BY <1>6, <4>1, <4>2
    <3>2. CASE ~(i > Len(capBB))
      <4>1. i # currentCapBB
        BY <1>2, <1>3, <2>1, CodeAssumption
      <4>2. i \in 1 .. Len(capBB) /\ capBB[i].endType = None
        BY <1>2, <1>3, <2>1, <3>2, <4>1 DEF TypeOK
      <4>3. PICK k \in 1 .. Len(capStack) : capStack[k] = i
        BY <1>2, <4>2 DEF NothingForgotten
      <4>4. k \in 1 .. n
        BY <1>2, <1>6, <4>1, <4>3 DEF n
      <4>5. k \in 1 .. Len(capStack') /\ capStack'[k] = i
        BY <1>6, <4>3, <4>4
      <4> QED
        BY <4>5
    <3> QED
      BY <3>1, <3>2
  <2> QED
    BY <2>1 DEF NothingForgotten
<1>11. StackDiscipline'
  BY <1>1 DEF StackDiscipline, Emulating
<1>12. PoolBound'
  BY <1>1, <1>7 DEF PoolBound, Room
<1>13. ResetBefore' /\ AllPathsDone'
  BY <1>1, <1>2 DEF ResetBefore, AllPathsDone
<1>14. EntryExists'
  BY <1>2, <1>3 DEF EntryExists, TypeOK
<1> QED
  BY <1>8, <1>9, <1>10, <1>11, <1>12, <1>13, <1>14 DEF IInv

\* Failing to save, to get a block or to push gives up.
LEMMA EmulateJccErrorIInv == IInv /\ EmulateJccError => IInv'
<1> SUFFICES ASSUME IInv, EmulateJccError PROVE IInv'
  OBVIOUS
<1>1. /\ AtJcc /\ Emulating /\ Room(Result.out)
      /\ es' = Result.es /\ capInstr' = capInstr \o Result.out
      /\ savedState' \in {savedState, SavedAfter(Result.es)}
      /\ capStack' \in {PoppedStack, Append(PoppedStack, PushedFirst)}
      /\ capBB' = << >> /\ currentCapBB' = 0 /\ status' \in Errors
      /\ UNCHANGED << code, parent, pc >>
  BY DEF EmulateJccError, AtJcc, Errors
<1>2. /\ TypeOK /\ Len(capStack) > 0
      /\ Result.es \in State /\ Result.out \in Seq(Instr)
  BY <1>1, EmulatingFacts DEF IInv
<1>3. PushedFirst \in Nat \ {0}
  <2>1. NextFT \in Nat \ {0} /\ NextBR \in Nat \ {0}
    BY <1>1, LinkedFacts
  <2> QED
    BY <2>1 DEF PushedFirst
<1>4. savedState' \in Seq(State) /\ capStack' \in Seq(Nat \ {0})
  BY <1>1, <1>2, <1>3, SaveFacts, PushFacts DEF TypeOK
<1>5. /\ capInstr' \in Seq(Instr)
      /\ Len(capInstr') = Len(capInstr) + Len(Result.out)
  BY <1>1, <1>2, ConcatFacts DEF TypeOK
<1>6. capBB' \in Seq(CBB)
  <2>1. << >> \in Seq(CBB)
    BY EmptyFacts
  <2> QED
    BY <1>1, <2>1
<1>7. TypeOK'
  BY <1>1, <1>2, <1>4, <1>5, <1>6 DEF TypeOK
<1>8. PoolBound'
  BY <1>1, <1>5 DEF PoolBound, Room
<1> QED
  BY <1>1, <1>7, <1>8, FailedIInv

\* The return ends the current block and pops it.
LEMMA EmulateRetIInv == IInv /\ EmulateRet => IInv'
<1> SUFFICES ASSUME IInv, EmulateRet PROVE IInv'
  OBVIOUS
<1> DEFINE ins == Result.out \o Result.fin
           cur == currentCapBB
<1>1. /\ Emulating /\ Room(Result.out) /\ es' = Result.es
      /\ UNCHANGED << code, parent, pc, savedState >>
  BY DEF EmulateRet
<1>2. /\ TypeOK /\ RefsValid /\ NothingForgotten /\ Sound /\ status = "running"
      /\ PoolBound /\ cur \in 1 .. Len(capBB)
      /\ Len(capStack) > 0 /\ capStack[Len(capStack)] = cur
      /\ Result.es \in State /\ Result.out \in Seq(Instr) /\ Result.fin \in Seq(Instr)
  BY <1>1, EmulatingFacts DEF IInv
<1>3. ins \in Seq(Instr)
  BY <1>2, ConcatFacts
<1>4. CASE Room(ins)
  <2> DEFINE bbs == Captured(capBB, cur, ins)
             rec == [bbs[cur] EXCEPT !.endType = Ret]
             n == Len(capStack) - 1
  <2>1. /\ capBB' = [bbs EXCEPT ![cur] = rec]
        /\ capInstr' = capInstr \o ins
        /\ capStack' = SubSeq(capStack, 1, n)
        /\ currentCapBB' = 0 /\ status' = status
    BY <1>4 DEF EmulateRet
  <2> HIDE DEF ins
  <2>2. /\ bbs \in Seq(CBB) /\ Len(bbs) = Len(capBB)
        /\ \A j \in 1 .. Len(capBB) :
             bbs[j].esID = capBB[j].esID /\ bbs[j].endType = capBB[j].endType
    BY <1>2, <1>3, CapturedFacts DEF TypeOK
  <2> HIDE DEF bbs
  <2>3. bbs[cur] \in CBB
    BY <1>2, <2>2
  <2>4. rec \in CBB /\ rec.endType = Ret /\ rec.esID = bbs[cur].esID
    BY <2>3 DEF CBB
  <2> HIDE DEF rec
  <2>5. /\ capBB' \in Seq(CBB) /\ Len(capBB') = Len(capBB)
        /\ \A j \in 1 .. Len(capBB) : capBB'[j].esID = capBB[j].esID
        /\ \A j \in 1 .. Len(capBB) : j # cur => capBB'[j].endType = capBB[j].endType
        /\ capBB'[cur].endType = Ret
    BY <1>2, <2>1, <2>2, <2>4
  <2>6. n \in 0 .. Len(capStack)
    BY <1>2 DEF TypeOK
  <2>7. /\ capStack' \in Seq(Nat \ {0}) /\ Len(capStack') = n
        /\ \A k \in 1 .. n : capStack'[k] = capStack[k]
    BY <1>2, <2>1, <2>6, PrefixFacts DEF TypeOK
  <2>8. capInstr' \in Seq(Instr) /\ Len(capInstr') = Len(capInstr) + Len(ins)
    BY <1>2, <1>3, <2>1, ConcatFacts DEF TypeOK
  <2> HIDE DEF n
  <2>9. TypeOK'
    BY <1>1, <1>2, <2>1, <2>5, <2>7, <2>8 DEF TypeOK
  <2>10. RefsValid'
    <3>1. \A i \in 1 .. Len(capBB') : capBB'[i].esID \in 1 .. Len(savedState')
      BY <1>1, <1>2, <2>5 DEF RefsValid
    <3>2. ASSUME NEW k \in 1 .. Len(capStack') PROVE capStack'[k] \in 1 .. Len(capBB')
      <4>1. k \in 1 .. Len(capStack) /\ capStack'[k] = capStack[k]
        BY <1>2, <2>6, <2>7 DEF TypeOK
      <4> QED
        BY <1>2, <2>5, <4>1 DEF RefsValid
    <3> QED
      BY <3>1, <3>2 DEF RefsValid
  <2>11. NothingForgotten'
    <3>1. ASSUME NEW i \in 1 .. Len(capBB'), capBB'[i].endType = None
          PROVE  \E k \in 1 .. Len(capStack') : capStack'[k] = i
      <4>1. i # cur /\ i \in 1 .. Len(capBB) /\ capBB[i].endType = None
        BY <2>5, <3>1 DEF None, Ret
      <4>2. PICK k \in 1 .. Len(capStack) : capStack[k] = i
        BY <1>2, <4>1 DEF NothingForgotten
      <4>3. k \in 1 .. n
        BY <1>2, <2>6, <4>1, <4>2 DEF n
      <4> QED
        BY <2>7, <4>2, <4>3
    <3> QED
      BY <3>1 DEF NothingForgotten
  <2>12. StackDiscipline'
    BY <2>1 DEF StackDiscipline, Emulating
  <2>13. PoolBound'
    BY <1>4, <2>1, <2>8 DEF PoolBound, Room
  <2>14. ResetBefore' /\ AllPathsDone'
    BY <1>2, <2>1 DEF ResetBefore, AllPathsDone
  <2>15. EntryExists'
    BY <1>2, <2>5 DEF EntryExists
  <2> QED
    BY <2>9, <2>10, <2>11, <2>12, <2>13, <2>14, <2>15 DEF IInv
<1>5. CASE ~Room(ins)
  <2> DEFINE m == capInstrCapacity - Len(capInstr)
  <2>1. /\ capInstr' = PoolAfter(ins)
        /\ capBB' = Captured(capBB, cur, SubSeq(ins, 1, m))
        /\ status' = "Too many captured instructions"
        /\ UNCHANGED << capStack, currentCapBB >>
    BY <1>5 DEF EmulateRet
  <2> HIDE DEF ins
  <2>2. m \in 0 .. Len(ins)
    <3>1. Len(ins) \in Nat
      BY <1>3
    <3>2. Len(capInstr) \in Nat /\ Len(capInstr) <= capInstrCapacity
      BY <1>2 DEF PoolBound, TypeOK
    <3>3. ~(Len(capInstr) + Len(ins) <= capInstrCapacity)
      BY <1>5 DEF Room
    <3> QED
      BY <3>1, <3>2, <3>3, BoundsAssumption
  <2> HIDE DEF m
  <2>3. SubSeq(ins, 1, m) \in Seq(Instr)
    BY <1>3, <2>2, PrefixFacts
  <2>4. capBB' \in Seq(CBB)
    BY <1>2, <2>1, <2>3, CapturedFacts DEF TypeOK
  <2>5. capInstr' \in Seq(Instr) /\ Len(capInstr') <= capInstrCapacity
    BY <1>2, <1>3, <2>1, PoolFacts DEF TypeOK
  <2>6. TypeOK'
    BY <1>1, <1>2, <2>1, <2>4, <2>5 DEF TypeOK, Errors
  <2>7. PoolBound'
    BY <2>5 DEF PoolBound
  <2> QED
    BY <2>1, <2>6, <2>7, FailedIInv DEF Errors
<1> QED
  BY <1>4, <1>5

\* Nothing changes while others act.
LEMMA StutterIInv == IInv /\ UNCHANGED vars => IInv'
<1> SUFFICES ASSUME IInv, UNCHANGED vars PROVE IInv'
  OBVIOUS
<1>1. TypeOK'
  BY DEF IInv, TypeOK, vars
<1> QED
  BY <1>1 DEF IInv, vars, RefsValid, ResetBefore, EntryExists, PoolBound,
              StackDiscipline, NothingForgotten, AllPathsDone, Sound, Emulating

----------------------------------------------------------------------------
(***************************************************************************)
(* Theorems                                                                *)
(***************************************************************************)

\* IInv is an inductive invariant of the engine.
THEOREM CaptureInvariant == Spec => []IInv
<1>1. Init => IInv
  BY InitIInv
<1>2. IInv /\ [Next]_vars => IInv'
  BY StartIInv, OpenNextIInv, EmulateStepIInv, EmulateJccIInv,
     EmulateJccErrorIInv, EmulateRetIInv, EmulateErrorIInv, StutterIInv
  DEF Next
<1> QED
  BY <1>1, <1>2, PTL DEF Spec

\* Whatever the program and however the emulator classifies its instructions,
\* all tables of the engine hold values of their types.
THEOREM TypeCorrect == Spec => []TypeOK
<1>1. IInv => TypeOK
  BY DEF IInv
<1> QED
  BY <1>1, CaptureInvariant, PTL

\* The assertions of popCaptureBB and captureRet never fail: the block that
\* instructions are captured into is the open block on top of the stack.
THEOREM StackDisciplined == Spec => []StackDiscipline
<1>1. IInv => StackDiscipline
  BY DEF IInv
<1> QED
  BY <1>1, CaptureInvariant, PTL

\* No continuation of a conditional jump is lost: as long as capturing has
\* not failed, each block without an end is on the capture stack.
THEOREM NoPathForgotten == Spec => []NothingForgotten
<1>1. IInv => NothingForgotten
  BY DEF IInv
<1> QED
  BY <1>1, CaptureInvariant, PTL

\* When emulateAndCapture succeeds, there is an entry block and every block
\* it hands to the generator has an end.
THEOREM Complete == Spec => []AllPathsDone
<1>1. IInv => AllPathsDone
  BY DEF IInv
<1> QED
  BY <1>1, CaptureInvariant, PTL

----------------------------------------------------------------------------
(***************************************************************************)
(* The table of captured blocks, the pool of instructions and the saved    *)
(* states: keys, successors, slots and discovery.                          *)
(***************************************************************************)

\* Until the first block is restored the live state has no parent, and the only
\* state saved is the one of the function entry.
EntryStateOnly ==
  Emulating /\ parent = "none" => Len(savedState) = 1

TableInv ==
  /\ IInv /\ EntryStateOnly
  /\ UniqueKeys /\ EmptyUntilOpened /\ WellLinked /\ PoolPartition
  /\ Discovered /\ SavedOnce

----------------------------------------------------------------------------
(***************************************************************************)
(* Facts about the operators of Capture                                    *)
(***************************************************************************)

\* Capturing counts the instructions, and the first one sets the start.
LEMMA CapturedPool ==
  ASSUME NEW bbs \in Seq(CBB), NEW i \in 1 .. Len(bbs), NEW ins \in Seq(Instr),
         capInstr \in Seq(Instr)
  PROVE  LET new == Captured(bbs, i, ins)
         IN /\ new[i].count = bbs[i].count + Len(ins)
            /\ new[i].instr = IF ins # << >> /\ bbs[i].count = 0
                              THEN Len(capInstr) + 1 ELSE bbs[i].instr
<1>1. bbs[i] \in CBB /\ bbs[i].count \in Nat
  <2>1. bbs[i] \in CBB
    OBVIOUS
  <2> QED
    BY <2>1 DEF CBB
<1>2. CASE ins = << >>
  BY <1>1, <1>2 DEF Captured
<1>3. CASE ins # << >>
  <2> DEFINE first == IF bbs[i].count = 0 THEN Len(capInstr) + 1 ELSE bbs[i].instr
             rec == [bbs[i] EXCEPT !.instr = first, !.count = @ + Len(ins)]
  <2>1. Captured(bbs, i, ins) = [bbs EXCEPT ![i] = rec]
    BY <1>3 DEF Captured
  <2>2. rec.instr = first /\ rec.count = bbs[i].count + Len(ins)
    BY <1>1 DEF CBB
  <2> HIDE DEF rec
  <2>3. Captured(bbs, i, ins)[i] = rec
    BY <2>1
  <2> QED
    BY <1>3, <2>2, <2>3
<1> QED
  BY <1>2, <1>3

\* No two blocks of a table have the same key.
UniqueIn(bbs) ==
  \A i, j \in 1 .. Len(bbs) :
    bbs[i].dec_addr = bbs[j].dec_addr /\ bbs[i].esID = bbs[j].esID => i = j

\* getCaptureBB does not add a key a second time.
LEMMA GetUnique ==
  ASSUME NEW bbs \in Seq(CBB), NEW f \in Addr, NEW id \in Nat, UniqueIn(bbs)
  PROVE  UniqueIn(TableAfterGet(bbs, f, id))
<1> DEFINE new == TableAfterGet(bbs, f, id)
<1>1. CASE WithKey(bbs, f, id) # {}
  BY <1>1 DEF TableAfterGet
<1>2. CASE WithKey(bbs, f, id) = {}
  <2>1. /\ new = Append(bbs, NewCBB(f, id))
        /\ NewCBB(f, id).dec_addr = f /\ NewCBB(f, id).esID = id
    BY <1>2 DEF TableAfterGet, NewCBB
  <2>2. /\ Len(new) = Len(bbs) + 1 /\ Len(bbs) \in Nat
        /\ new[Len(bbs) + 1].dec_addr = f /\ new[Len(bbs) + 1].esID = id
        /\ \A j \in 1 .. Len(bbs) : new[j] = bbs[j]
    BY <2>1
  <2>3. \A j \in 1 .. Len(bbs) : ~(bbs[j].dec_addr = f /\ bbs[j].esID = id)
    BY <1>2 DEF WithKey
  <2> HIDE DEF new
  <2>4. ASSUME NEW i \in 1 .. Len(new), NEW j \in 1 .. Len(new),
               new[i].dec_addr = new[j].dec_addr, new[i].esID = new[j].esID
        PROVE  i = j
    <3>1. CASE i \in 1 .. Len(bbs) /\ j \in 1 .. Len(bbs)
      BY <2>2, <2>4, <3>1 DEF UniqueIn
    <3>2. CASE i \notin 1 .. Len(bbs) /\ j \in 1 .. Len(bbs)
      <4>1. i = Len(bbs) + 1
        BY <2>2, <3>2
      <4> QED
        BY <2>2, <2>3, <2>4, <3>2, <4>1
    <3>3. CASE i \in 1 .. Len(bbs) /\ j \notin 1 .. Len(bbs)
      <4>1. j = Len(bbs) + 1
        BY <2>2, <3>3
      <4> QED
        BY <2>2, <2>3, <2>4, <3>3, <4>1
    <3>4. CASE i \notin 1 .. Len(bbs) /\ j \notin 1 .. Len(bbs)
      BY <2>2, <3>4
    <3> QED
      BY <3>1, <3>2, <3>3, <3>4
  <2> QED
    BY <2>4 DEF UniqueIn, new
<1> QED
  BY <1>1, <1>2

\* Tables of the same length with the same keys.
LEMMA SameKeysUnique ==
  ASSUME NEW old, NEW new, UniqueIn(old), Len(new) = Len(old),
         \A j \in 1 .. Len(old) :
           new[j].dec_addr = old[j].dec_addr /\ new[j].esID = old[j].esID
  PROVE  UniqueIn(new)
  BY DEF UniqueIn

\* The table after a conditional jump: the block ended keeps its key and gets
\* its end and its links; blocks that are added are open, empty and linked to.
LEMMA JccTable ==
  ASSUME IInv, AtJcc
  PROVE  LET new == LinkedTable
             cur == currentCapBB
             n   == Len(capBB)
         IN /\ new \in Seq(CBB) /\ n <= Len(new)
            /\ \A j \in 1 .. n : j # cur => new[j] = capBB[j]
            /\ \A j \in 1 .. n :
                 new[j].dec_addr = capBB[j].dec_addr /\ new[j].esID = capBB[j].esID
            /\ new[cur].endType = Result.it
            /\ new[cur].preferBranch = PreferBranch
            /\ new[cur].nextBranch = NextBR /\ new[cur].nextFallThrough = NextFT
            /\ new[cur].count = capBB[cur].count + Len(Result.out)
            /\ new[cur].instr = IF Result.out # << >> /\ capBB[cur].count = 0
                                THEN Len(capInstr) + 1 ELSE capBB[cur].instr
            /\ NextBR \in 1 .. Len(new) /\ NextFT \in 1 .. Len(new)
            /\ new[NextBR].dec_addr = Result.target /\ new[NextBR].esID = JccID
            /\ new[NextFT].dec_addr = Result.fall /\ new[NextFT].esID = JccID
            /\ \A j \in 1 .. Len(new) : j > n =>
                 /\ j \in {NextBR, NextFT}
                 /\ new[j].endType = None /\ new[j].count = 0
                 /\ new[j].nextBranch = 0 /\ new[j].nextFallThrough = 0
            /\ UniqueIn(capBB) => UniqueIn(new)
<1> DEFINE cur == currentCapBB
           n   == Len(capBB)
           bbs == Captured(capBB, cur, Result.out)
           end == [bbs[cur] EXCEPT !.endType = Result.it,
                                   !.preferBranch = PreferBranch]
           rec == [TableBR[cur] EXCEPT !.nextFallThrough = NextFT,
                                       !.nextBranch = NextBR]
<1>1. /\ TypeOK /\ cur \in 1 .. n /\ n \in Nat
      /\ Result.es \in State /\ Result.fall \in Addr /\ Result.target \in Addr
      /\ Result.out \in Seq(Instr) /\ Result.it \in JccType
  BY EmulatingFacts DEF AtJcc, TypeOK
<1>2. JccID \in Nat
  <2>1. JccID \in 1 .. Len(SavedAfter(Result.es)) /\ SavedAfter(Result.es) \in Seq(State)
    BY <1>1, SaveFacts DEF JccID
  <2> QED
    BY <2>1
<1>3. /\ bbs \in Seq(CBB) /\ Len(bbs) = n
      /\ \A j \in 1 .. n : j # cur => bbs[j] = capBB[j]
      /\ bbs[cur].dec_addr = capBB[cur].dec_addr /\ bbs[cur].esID = capBB[cur].esID
  BY <1>1, CapturedFacts DEF TypeOK
<1>4. /\ bbs[cur].count = capBB[cur].count + Len(Result.out)
      /\ bbs[cur].instr = IF Result.out # << >> /\ capBB[cur].count = 0
                          THEN Len(capInstr) + 1 ELSE capBB[cur].instr
  BY <1>1, CapturedPool DEF TypeOK
<1>5. ClosedTable = [bbs EXCEPT ![cur] = end]
  BY DEF ClosedTable
<1>6. PreferBranch \in BOOLEAN
  BY DEF PreferBranch
<1> HIDE DEF bbs, cur, n
<1>7. bbs[cur] \in CBB
  BY <1>1, <1>3
<1>8. /\ end \in CBB /\ end.endType = Result.it /\ end.preferBranch = PreferBranch
      /\ end.dec_addr = bbs[cur].dec_addr /\ end.esID = bbs[cur].esID
      /\ end.count = bbs[cur].count /\ end.instr = bbs[cur].instr
  BY <1>1, <1>6, <1>7 DEF CBB
<1> HIDE DEF end
<1>9. /\ ClosedTable \in Seq(CBB) /\ Len(ClosedTable) = n
      /\ ClosedTable[cur] = end
      /\ \A j \in 1 .. n : j # cur => ClosedTable[j] = capBB[j]
  BY <1>1, <1>3, <1>5, <1>8
<1>10. /\ TableFT \in Seq(CBB) /\ Len(TableFT) \in {n, n + 1}
       /\ NextFT \in 1 .. Len(TableFT)
       /\ \A j \in 1 .. n : TableFT[j] = ClosedTable[j]
       /\ TableFT[NextFT].dec_addr = Result.fall /\ TableFT[NextFT].esID = JccID
       /\ Len(TableFT) = n + 1 =>
            NextFT = n + 1 /\ TableFT[NextFT] = NewCBB(Result.fall, JccID)
  <2>1. /\ TableFT = TableAfterGet(ClosedTable, Result.fall, JccID)
        /\ NextFT = IndexOfGet(ClosedTable, Result.fall, JccID)
    BY DEF TableFT, NextFT
  <2>2. ClosedTable \in Seq(CBB) /\ Len(ClosedTable) = n
        /\ Result.fall \in Addr /\ JccID \in Nat
    BY <1>1, <1>2, <1>9
  <2> QED
    BY <2>1, <2>2, GetFacts
<1>11. /\ TableBR \in Seq(CBB) /\ Len(TableBR) \in {Len(TableFT), Len(TableFT) + 1}
       /\ NextBR \in 1 .. Len(TableBR)
       /\ \A j \in 1 .. Len(TableFT) : TableBR[j] = TableFT[j]
       /\ TableBR[NextBR].dec_addr = Result.target /\ TableBR[NextBR].esID = JccID
       /\ Len(TableBR) = Len(TableFT) + 1 =>
            NextBR = Len(TableFT) + 1 /\ TableBR[NextBR] = NewCBB(Result.target, JccID)
  <2>1. /\ TableBR = TableAfterGet(TableFT, Result.target, JccID)
        /\ NextBR = IndexOfGet(TableFT, Result.target, JccID)
    BY DEF TableBR, NextBR
  <2>2. TableFT \in Seq(CBB) /\ Result.target \in Addr /\ JccID \in Nat
    BY <1>1, <1>2, <1>10
  <2> QED
    BY <2>1, <2>2, GetFacts
<1>12. LinkedTable = [TableBR EXCEPT ![cur] = rec]
  BY DEF LinkedTable, cur
<1>13. n <= Len(TableFT) /\ Len(TableFT) <= Len(TableBR) /\ Len(TableFT) \in Nat
  BY <1>1, <1>10, <1>11
<1>14. cur \in 1 .. Len(TableBR) /\ TableBR[cur] = end
  BY <1>1, <1>9, <1>10, <1>11, <1>13
<1>15. /\ rec \in CBB /\ rec.endType = end.endType
       /\ rec.preferBranch = end.preferBranch
       /\ rec.dec_addr = end.dec_addr /\ rec.esID = end.esID
       /\ rec.count = end.count /\ rec.instr = end.instr
       /\ rec.nextBranch = NextBR /\ rec.nextFallThrough = NextFT
  <2>1. NextFT \in Nat /\ NextBR \in Nat
    BY <1>10, <1>11
  <2> QED
    BY <1>8, <1>14, <2>1 DEF CBB
<1> HIDE DEF rec
<1>16. /\ LinkedTable \in Seq(CBB) /\ Len(LinkedTable) = Len(TableBR)
       /\ LinkedTable[cur] = rec
       /\ \A j \in 1 .. Len(TableBR) : j # cur => LinkedTable[j] = TableBR[j]
  BY <1>11, <1>12, <1>14, <1>15
<1>17. \A j \in 1 .. Len(TableBR) :
         /\ LinkedTable[j].dec_addr = TableBR[j].dec_addr
         /\ LinkedTable[j].esID = TableBR[j].esID
  BY <1>14, <1>15, <1>16
<1>18. \A j \in 1 .. n : j # cur => LinkedTable[j] = capBB[j]
  <2>1. ASSUME NEW j \in 1 .. n, j # cur PROVE LinkedTable[j] = capBB[j]
    <3>1. ClosedTable[j] = capBB[j] /\ TableFT[j] = ClosedTable[j]
      BY <1>9, <1>10, <2>1
    <3>2. j \in 1 .. Len(TableFT) /\ j \in 1 .. Len(TableBR)
      BY <1>1, <1>11, <1>13
    <3> QED
      BY <1>11, <1>16, <2>1, <3>1, <3>2
  <2> QED
    BY <2>1
<1>19. NextFT \in 1 .. Len(TableBR) /\ TableBR[NextFT] = TableFT[NextFT]
  BY <1>10, <1>11, <1>13
<1>20. ASSUME NEW j \in 1 .. Len(LinkedTable), j > n
       PROVE  /\ j \in {NextBR, NextFT}
              /\ LinkedTable[j].endType = None /\ LinkedTable[j].count = 0
              /\ LinkedTable[j].nextBranch = 0 /\ LinkedTable[j].nextFallThrough = 0
  <2>1. j # cur /\ LinkedTable[j] = TableBR[j]
    BY <1>1, <1>16, <1>20
  <2>2. CASE j <= Len(TableFT)
    <3>1. Len(TableFT) = n + 1 /\ j = NextFT
      BY <1>1, <1>10, <1>20, <2>2
    <3>2. LinkedTable[j] = NewCBB(Result.fall, JccID)
      BY <1>10, <1>19, <2>1, <3>1
    <3> QED
      BY <3>1, <3>2 DEF NewCBB
  <2>3. CASE j > Len(TableFT)
    <3>1. Len(TableBR) = Len(TableFT) + 1 /\ j = NextBR
      BY <1>11, <1>13, <1>16, <1>20, <2>3
    <3>2. LinkedTable[j] = NewCBB(Result.target, JccID)
      BY <1>11, <2>1, <3>1
    <3> QED
      BY <3>1, <3>2 DEF NewCBB
  <2> QED
    BY <1>13, <1>16, <2>2, <2>3
<1>21. ASSUME UniqueIn(capBB) PROVE UniqueIn(LinkedTable)
  <2>1. UniqueIn(ClosedTable)
    BY <1>3, <1>8, <1>9, <1>21, SameKeysUnique DEF n
  <2>2. UniqueIn(TableFT)
    BY <1>1, <1>2, <1>9, <2>1, GetUnique DEF TableFT
  <2>3. UniqueIn(TableBR)
    BY <1>1, <1>2, <1>10, <2>2, GetUnique DEF TableBR
  <2> QED
    BY <1>16, <1>17, <2>3, SameKeysUnique
<1>22. /\ LinkedTable[NextBR].dec_addr = Result.target /\ LinkedTable[NextBR].esID = JccID
       /\ LinkedTable[NextFT].dec_addr = Result.fall /\ LinkedTable[NextFT].esID = JccID
  BY <1>10, <1>11, <1>17, <1>19
<1>23. n <= Len(LinkedTable) /\ NextBR \in 1 .. Len(LinkedTable)
       /\ NextFT \in 1 .. Len(LinkedTable)
  BY <1>1, <1>11, <1>13, <1>16, <1>19
<1>24. \A j \in 1 .. n : LinkedTable[j].dec_addr = capBB[j].dec_addr
                        /\ LinkedTable[j].esID = capBB[j].esID
  BY <1>3, <1>8, <1>15, <1>16, <1>18
<1> QED
  BY <1>4, <1>8, <1>15, <1>16, <1>18, <1>20, <1>21, <1>22, <1>23, <1>24 DEF cur, n

----------------------------------------------------------------------------
(***************************************************************************)
(* What the steps have in common that emulate an instruction and do not    *)
(* fail: ins is appended to the pool for the current block, which stays    *)
(* open or gets its end; blocks that are added are its successors.         *)
(***************************************************************************)
Extended(ins) ==
  LET cur == currentCapBB
      n   == Len(capBB)
      m   == Len(capBB')
      b   == capBB'[cur]
  IN /\ Emulating /\ status' = status /\ ins \in Seq(Instr)
     /\ Len(capInstr') = Len(capInstr) + Len(ins)
     /\ m \in Nat /\ n <= m
     /\ \A j \in 1 .. n : j # cur => capBB'[j] = capBB[j]
     /\ \A j \in 1 .. n :
          capBB'[j].dec_addr = capBB[j].dec_addr /\ capBB'[j].esID = capBB[j].esID
     /\ b.count = capBB[cur].count + Len(ins)
     /\ b.instr = IF ins # << >> /\ capBB[cur].count = 0
                  THEN Len(capInstr) + 1 ELSE capBB[cur].instr
     /\ \A j \in 1 .. m : j > n =>
          /\ capBB'[j].endType = None /\ capBB'[j].count = 0
          /\ capBB'[j].nextBranch = 0 /\ capBB'[j].nextFallThrough = 0
     /\ \/ currentCapBB' = cur /\ b.endType = None
        \/ currentCapBB' = 0 /\ b.endType # None
     /\ \/ /\ b.endType \in {None, Ret} /\ m = n
           /\ b.nextBranch = capBB[cur].nextBranch
           /\ b.nextFallThrough = capBB[cur].nextFallThrough
        \/ /\ b.endType \notin {None, Ret}
           /\ b.nextBranch \in 1 .. m /\ b.nextFallThrough \in 1 .. m
           /\ capBB'[b.nextBranch].esID = capBB'[b.nextFallThrough].esID
           /\ b.preferBranch <=> capBB'[b.nextBranch].dec_addr
                                   < capBB'[b.nextFallThrough].dec_addr
           /\ \A j \in 1 .. m : j > n => j \in {b.nextBranch, b.nextFallThrough}
     /\ UniqueIn(capBB) => UniqueIn(capBB')

\* Emulating on extends the current block.
LEMMA StepExtends == IInv /\ EmulateStep => Extended(Result.out)
<1> SUFFICES ASSUME IInv, EmulateStep PROVE Extended(Result.out)
  OBVIOUS
<1> DEFINE cur == currentCapBB
           ins == Result.out
<1>1. /\ Emulating /\ capBB' = Captured(capBB, cur, ins)
      /\ capInstr' = capInstr \o ins /\ status' = status /\ currentCapBB' = cur
  BY DEF EmulateStep
<1>2. /\ TypeOK /\ cur \in 1 .. Len(capBB) /\ ins \in Seq(Instr)
      /\ capBB[cur].endType = None
  BY <1>1, EmulatingFacts
<1>3. capBB \in Seq(CBB) /\ capInstr \in Seq(Instr) /\ Len(capBB) \in Nat
  BY <1>2 DEF TypeOK
<1> HIDE DEF ins, cur
<1>4. /\ capBB' \in Seq(CBB) /\ Len(capBB') = Len(capBB)
      /\ \A j \in 1 .. Len(capBB) : j # cur => capBB'[j] = capBB[j]
      /\ \A j \in 1 .. Len(capBB) :
           /\ capBB'[j].dec_addr = capBB[j].dec_addr
           /\ capBB'[j].esID = capBB[j].esID
           /\ capBB'[j].endType = capBB[j].endType
           /\ capBB'[j].nextBranch = capBB[j].nextBranch
           /\ capBB'[j].nextFallThrough = capBB[j].nextFallThrough
  BY <1>1, <1>2, <1>3, CapturedFacts, ZenonT(60)
<1>5. /\ capBB'[cur].count = capBB[cur].count + Len(ins)
      /\ capBB'[cur].instr = IF ins # << >> /\ capBB[cur].count = 0
                              THEN Len(capInstr) + 1 ELSE capBB[cur].instr
  BY <1>1, <1>2, <1>3, CapturedPool
<1>6. Len(capInstr') = Len(capInstr) + Len(ins)
  BY <1>1, <1>2, <1>3, ConcatFacts
<1>7. UniqueIn(capBB) => UniqueIn(capBB')
  BY <1>4, SameKeysUnique
<1> QED
  BY <1>1, <1>2, <1>3, <1>4, <1>5, <1>6, <1>7 DEF Extended, cur, ins

\* Ending with a conditional jump extends the current block, and adds blocks.
LEMMA JccExtends == IInv /\ EmulateJcc => Extended(Result.out)
<1> SUFFICES ASSUME IInv, EmulateJcc PROVE Extended(Result.out)
  OBVIOUS
<1> DEFINE cur == currentCapBB
           ins == Result.out
           b   == capBB'[cur]
<1>1. /\ AtJcc /\ Emulating /\ capBB' = LinkedTable
      /\ capInstr' = capInstr \o ins /\ status' = status /\ currentCapBB' = 0
  BY DEF EmulateJcc, AtJcc
<1>2. /\ TypeOK /\ cur \in 1 .. Len(capBB) /\ ins \in Seq(Instr)
      /\ Result.it \in JccType
  BY <1>1, EmulatingFacts
<1>3. /\ capBB' \in Seq(CBB) /\ Len(capBB) <= Len(capBB')
      /\ \A j \in 1 .. Len(capBB) : j # cur => capBB'[j] = capBB[j]
      /\ \A j \in 1 .. Len(capBB) :
           capBB'[j].dec_addr = capBB[j].dec_addr /\ capBB'[j].esID = capBB[j].esID
      /\ b.endType = Result.it /\ b.preferBranch = PreferBranch
      /\ b.nextBranch = NextBR /\ b.nextFallThrough = NextFT
      /\ b.count = capBB[cur].count + Len(ins)
      /\ b.instr = IF ins # << >> /\ capBB[cur].count = 0
                   THEN Len(capInstr) + 1 ELSE capBB[cur].instr
      /\ NextBR \in 1 .. Len(capBB') /\ NextFT \in 1 .. Len(capBB')
      /\ capBB'[NextBR].dec_addr = Result.target /\ capBB'[NextBR].esID = JccID
      /\ capBB'[NextFT].dec_addr = Result.fall /\ capBB'[NextFT].esID = JccID
      /\ \A j \in 1 .. Len(capBB') : j > Len(capBB) =>
           /\ j \in {NextBR, NextFT}
           /\ capBB'[j].endType = None /\ capBB'[j].count = 0
           /\ capBB'[j].nextBranch = 0 /\ capBB'[j].nextFallThrough = 0
      /\ UniqueIn(capBB) => UniqueIn(capBB')
  BY <1>1, JccTable
<1>4. Len(capInstr') = Len(capInstr) + Len(ins)
  BY <1>1, <1>2, ConcatFacts DEF TypeOK
<1>5. Result.it # None /\ Result.it # Ret
  BY <1>2, CodeAssumption
<1>6. b.preferBranch <=> capBB'[b.nextBranch].dec_addr
                          < capBB'[b.nextFallThrough].dec_addr
  BY <1>3 DEF PreferBranch
<1>7. Len(capBB') \in Nat
  BY <1>3
<1> HIDE DEF cur, ins, b
<1> QED
  BY <1>1, <1>2, <1>3, <1>4, <1>5, <1>6, <1>7 DEF Extended, cur, ins, b

\* Capturing at the return may fail; then the current block gets no end.
LEMMA RetExtends ==
  IInv /\ EmulateRet => \/ Extended(Result.out \o Result.fin)
                        \/ /\ status' = "Too many captured instructions"
                           /\ Len(capBB') = Len(capBB)
                           /\ \A j \in 1 .. Len(capBB) :
                                /\ capBB'[j].dec_addr = capBB[j].dec_addr
                                /\ capBB'[j].esID = capBB[j].esID
                                /\ j # currentCapBB => capBB'[j] = capBB[j]
<1> SUFFICES ASSUME IInv, EmulateRet
             PROVE  \/ Extended(Result.out \o Result.fin)
                    \/ /\ status' = "Too many captured instructions"
                       /\ Len(capBB') = Len(capBB)
                       /\ \A j \in 1 .. Len(capBB) :
                            /\ capBB'[j].dec_addr = capBB[j].dec_addr
                            /\ capBB'[j].esID = capBB[j].esID
                            /\ j # currentCapBB => capBB'[j] = capBB[j]
  OBVIOUS
<1> DEFINE cur == currentCapBB
           ins == Result.out \o Result.fin
<1>1. Emulating
  BY DEF EmulateRet
<1>2. /\ TypeOK /\ cur \in 1 .. Len(capBB) /\ PoolBound
      /\ Result.out \in Seq(Instr) /\ Result.fin \in Seq(Instr)
      /\ capBB[cur].endType = None
  BY <1>1, EmulatingFacts DEF IInv
<1>3. ins \in Seq(Instr)
  BY <1>2, ConcatFacts
<1>4. capBB \in Seq(CBB) /\ capInstr \in Seq(Instr) /\ Len(capBB) \in Nat
  BY <1>2 DEF TypeOK
<1>5. CASE Room(ins)
  <2> DEFINE bbs == Captured(capBB, cur, ins)
             rec == [bbs[cur] EXCEPT !.endType = Ret]
  <2>1. /\ capBB' = [bbs EXCEPT ![cur] = rec] /\ capInstr' = capInstr \o ins
        /\ currentCapBB' = 0 /\ status' = status
    BY <1>5 DEF EmulateRet
  <2> HIDE DEF ins, cur
  <2>2. /\ bbs \in Seq(CBB) /\ Len(bbs) = Len(capBB)
        /\ \A j \in 1 .. Len(capBB) : j # cur => bbs[j] = capBB[j]
        /\ bbs[cur].dec_addr = capBB[cur].dec_addr
        /\ bbs[cur].esID = capBB[cur].esID
        /\ bbs[cur].nextBranch = capBB[cur].nextBranch
        /\ bbs[cur].nextFallThrough = capBB[cur].nextFallThrough
    BY <1>2, <1>3, <1>4, CapturedFacts
  <2>3. /\ bbs[cur].count = capBB[cur].count + Len(ins)
        /\ bbs[cur].instr = IF ins # << >> /\ capBB[cur].count = 0
                            THEN Len(capInstr) + 1 ELSE capBB[cur].instr
    BY <1>2, <1>3, <1>4, CapturedPool
  <2> HIDE DEF bbs
  <2>4. bbs[cur] \in CBB
    BY <1>2, <2>2
  <2>5. /\ rec.endType = Ret /\ rec.dec_addr = bbs[cur].dec_addr
        /\ rec.esID = bbs[cur].esID /\ rec.count = bbs[cur].count
        /\ rec.instr = bbs[cur].instr /\ rec.nextBranch = bbs[cur].nextBranch
        /\ rec.nextFallThrough = bbs[cur].nextFallThrough
    BY <2>4 DEF CBB
  <2> HIDE DEF rec
  <2>6. /\ Len(capBB') = Len(capBB) /\ capBB'[cur] = rec
        /\ \A j \in 1 .. Len(capBB) : j # cur => capBB'[j] = capBB[j]
    BY <1>2, <2>1, <2>2
  <2>7. \A j \in 1 .. Len(capBB) :
          capBB'[j].dec_addr = capBB[j].dec_addr /\ capBB'[j].esID = capBB[j].esID
    BY <2>2, <2>5, <2>6
  <2>8. Len(capInstr') = Len(capInstr) + Len(ins)
    BY <1>3, <1>4, <2>1, ConcatFacts
  <2>9. UniqueIn(capBB) => UniqueIn(capBB')
    BY <2>6, <2>7, SameKeysUnique
  <2>10. Ret # None
    BY DEF Ret, None
  <2>11. Extended(ins)
    BY <1>1, <1>3, <1>4, <2>1, <2>2, <2>3, <2>5, <2>6, <2>7, <2>8, <2>9, <2>10
    DEF Extended, cur
  <2> QED
    BY <2>11 DEF ins
<1>6. CASE ~Room(ins)
  <2> DEFINE m == capInstrCapacity - Len(capInstr)
  <2>1. /\ capBB' = Captured(capBB, cur, SubSeq(ins, 1, m))
        /\ status' = "Too many captured instructions"
    BY <1>6 DEF EmulateRet
  <2> HIDE DEF ins
  <2>2. m \in 0 .. Len(ins)
    BY <1>2, <1>3, <1>4, <1>6, BoundsAssumption DEF PoolBound, Room
  <2> HIDE DEF m
  <2>3. SubSeq(ins, 1, m) \in Seq(Instr)
    BY <1>3, <2>2, PrefixFacts
  <2> QED
    BY <1>2, <1>4, <2>1, <2>3, CapturedFacts, ZenonT(60)
<1> QED
  BY <1>5, <1>6

----------------------------------------------------------------------------
(***************************************************************************)
(* Extending a block preserves each part of the invariant.                 *)
(***************************************************************************)

\* What every one of the next lemmas starts from.
LEMMA ExtendedFacts ==
  ASSUME TableInv, NEW ins, Extended(ins)
  PROVE  /\ TypeOK /\ Sound /\ Sound' /\ status' = status /\ status = "running"
         /\ currentCapBB \in 1 .. Len(capBB)
         /\ Len(capBB) \in Nat /\ Len(capBB') \in Nat /\ Len(capBB) <= Len(capBB')
         /\ capBB[currentCapBB].endType = None
         /\ \A j \in 1 .. Len(capBB) : capBB[j] \in CBB
         /\ capBB[currentCapBB].nextBranch = 0
         /\ capBB[currentCapBB].nextFallThrough = 0
         /\ EmptyUntilOpened /\ WellLinked /\ PoolPartition /\ Discovered
<1>1. /\ Emulating /\ IInv /\ status' = status
      /\ Len(capBB') \in Nat /\ Len(capBB) <= Len(capBB')
  BY DEF Extended, TableInv
<1>2. /\ TypeOK /\ Sound /\ status = "running" /\ currentCapBB \in 1 .. Len(capBB)
      /\ capBB[currentCapBB].endType = None
  BY <1>1, EmulatingFacts
<1>3. Len(capBB) \in Nat /\ \A j \in 1 .. Len(capBB) : capBB[j] \in CBB
  BY <1>2 DEF TypeOK
<1>4. /\ capBB[currentCapBB].nextBranch = 0
      /\ capBB[currentCapBB].nextFallThrough = 0
  BY <1>2 DEF TableInv, WellLinked
<1> QED
  BY <1>1, <1>2, <1>3, <1>4 DEF TableInv, Sound

\* Blocks added are empty until they are opened.
LEMMA ExtendedEmpty ==
  ASSUME TableInv, NEW ins, Extended(ins) PROVE EmptyUntilOpened'
<1>1. ASSUME NEW i \in 1 .. Len(capBB'), capBB'[i].endType = None, i # currentCapBB'
      PROVE  capBB'[i].count = 0
  <2>1. CASE i > Len(capBB)
    BY <2>1 DEF Extended
  <2>2. CASE ~(i > Len(capBB))
    <3>1. i \in 1 .. Len(capBB) /\ i # currentCapBB
      BY <1>1, <2>2, ExtendedFacts DEF Extended
    <3>2. capBB'[i] = capBB[i]
      BY <3>1 DEF Extended
    <3> QED
      BY <1>1, <3>1, <3>2, ExtendedFacts DEF EmptyUntilOpened
  <2> QED
    BY <2>1, <2>2
<1> QED
  BY <1>1 DEF EmptyUntilOpened

\* Links stay right when the current block is extended.
LEMMA ExtendedLinked ==
  ASSUME TableInv, NEW ins, Extended(ins) PROVE WellLinked'
<1> DEFINE cur == currentCapBB
           n   == Len(capBB)
           m   == Len(capBB')
<1>1. /\ n \in Nat /\ m \in Nat /\ n <= m /\ cur \in 1 .. n
      /\ \A j \in 1 .. n : capBB[j] \in CBB
      /\ capBB[cur].nextBranch = 0 /\ capBB[cur].nextFallThrough = 0
      /\ WellLinked /\ Sound
  BY ExtendedFacts
<1>2. /\ \A j \in 1 .. n : j # cur => capBB'[j] = capBB[j]
      /\ \A j \in 1 .. n :
           capBB'[j].dec_addr = capBB[j].dec_addr /\ capBB'[j].esID = capBB[j].esID
      /\ \A j \in 1 .. m : j > n =>
           /\ capBB'[j].endType = None
           /\ capBB'[j].nextBranch = 0 /\ capBB'[j].nextFallThrough = 0
  BY DEF Extended
<1> SUFFICES ASSUME NEW i \in 1 .. m
             PROVE  LET b == capBB'[i]
                    IN IF b.endType \in {None, Ret}
                       THEN b.nextBranch = 0 /\ b.nextFallThrough = 0
                       ELSE /\ b.nextBranch \in 1 .. m
                            /\ b.nextFallThrough \in 1 .. m
                            /\ capBB'[b.nextBranch].esID
                                 = capBB'[b.nextFallThrough].esID
                            /\ b.preferBranch <=> capBB'[b.nextBranch].dec_addr
                                 < capBB'[b.nextFallThrough].dec_addr
  BY DEF WellLinked
<1>3. CASE i > n
  BY <1>2, <1>3
<1>4. CASE i = cur
  BY <1>1, <1>4 DEF Extended
<1>5. CASE ~(i > n) /\ i # cur
  <2>1. i \in 1 .. n /\ capBB'[i] = capBB[i]
    BY <1>1, <1>2, <1>5
  <2>2. CASE capBB[i].endType \in {None, Ret}
    BY <1>1, <2>1, <2>2 DEF WellLinked
  <2>3. CASE capBB[i].endType \notin {None, Ret}
    <3>1. /\ capBB[i].nextBranch \in 1 .. n /\ capBB[i].nextFallThrough \in 1 .. n
          /\ capBB[capBB[i].nextBranch].esID = capBB[capBB[i].nextFallThrough].esID
          /\ capBB[i].preferBranch <=> capBB[capBB[i].nextBranch].dec_addr
                                         < capBB[capBB[i].nextFallThrough].dec_addr
      BY <1>1, <2>1, <2>3 DEF WellLinked
    <3>2. /\ capBB'[capBB[i].nextBranch].dec_addr = capBB[capBB[i].nextBranch].dec_addr
          /\ capBB'[capBB[i].nextBranch].esID = capBB[capBB[i].nextBranch].esID
          /\ capBB'[capBB[i].nextFallThrough].dec_addr
               = capBB[capBB[i].nextFallThrough].dec_addr
          /\ capBB'[capBB[i].nextFallThrough].esID
               = capBB[capBB[i].nextFallThrough].esID
      BY <1>2, <3>1
    <3>3. capBB[i].nextBranch \in 1 .. m /\ capBB[i].nextFallThrough \in 1 .. m
      BY <1>1, <3>1
    <3> QED
      BY <2>1, <2>3, <3>1, <3>2, <3>3
  <2> QED
    BY <2>2, <2>3
<1> QED
  BY <1>3, <1>4, <1>5

\* Where the range of the current block in the pool grows.
LEMMA ExtendedPool ==
  ASSUME TableInv, NEW ins, Extended(ins) PROVE PoolPartition'
<1> DEFINE cur == currentCapBB
           n   == Len(capBB)
           m   == Len(capBB')
           top == Len(capInstr)
           old == PoolRange(capBB[cur])
           new == PoolRange(capBB'[cur])
<1>1. /\ n \in Nat /\ m \in Nat /\ n <= m /\ cur \in 1 .. n
      /\ \A j \in 1 .. n : capBB[j] \in CBB
      /\ PoolPartition /\ Sound /\ Emulating /\ status' = status
      /\ top \in Nat /\ Len(ins) \in Nat /\ Len(capInstr') = top + Len(ins)
  BY ExtendedFacts DEF Extended, TypeOK
<1>2. /\ \A j \in 1 .. n : j # cur => capBB'[j] = capBB[j]
      /\ \A j \in 1 .. m : j > n => PoolRange(capBB'[j]) = {}
      /\ capBB'[cur].count = capBB[cur].count + Len(ins)
      /\ capBB'[cur].instr = IF ins # << >> /\ capBB[cur].count = 0
                             THEN top + 1 ELSE capBB[cur].instr
      /\ currentCapBB' \in {0, cur}
  BY DEF Extended, PoolRange
<1>3. capBB[cur].count \in Nat /\ capBB[cur].instr \in Nat
  <2>1. capBB[cur] \in CBB
    BY <1>1
  <2> QED
    BY <2>1 DEF CBB
<1>4. capBB[cur].count > 0 => capBB[cur].instr + capBB[cur].count = top + 1
  BY <1>1 DEF PoolPartition
<1>5. ins = << >> <=> Len(ins) = 0
  BY DEF Extended
<1>6. \A k \in new : k \in old \/ k \in (top + 1) .. (top + Len(ins))
  <2>1. /\ capBB'[cur].count = capBB[cur].count + Len(ins)
        /\ capBB'[cur].instr = IF ins # << >> /\ capBB[cur].count = 0
                               THEN top + 1 ELSE capBB[cur].instr
    BY <1>2
  <2>2. top \in Nat /\ Len(ins) \in Nat
    BY <1>1
  <2> DEFINE c == capBB[cur].count
             f == capBB[cur].instr
  <2>3. /\ old = IF c = 0 THEN {} ELSE f .. (f + c - 1)
        /\ new = IF c + Len(ins) = 0 THEN {}
                 ELSE IF c = 0 THEN (top + 1) .. (top + Len(ins))
                 ELSE f .. (f + c + Len(ins) - 1)
    <3>1. CASE c = 0
      BY <1>3, <1>5, <2>1, <2>2, <3>1 DEF PoolRange
    <3>2. CASE c # 0
      BY <1>3, <1>5, <2>1, <2>2, <3>2, SMTT(20) DEF PoolRange
    <3> QED
      BY <3>1, <3>2
  <2>4. c \in Nat /\ f \in Nat /\ (c > 0 => f + c = top + 1)
    BY <1>3, <1>4
  <2> HIDE DEF c, f, old, new, top, cur
  <2> QED
    BY <2>2, <2>3, <2>4
<1>7. /\ \A i \in 1 .. n : PoolRange(capBB[i]) \subseteq 1 .. top
      /\ \A i, j \in 1 .. n :
           i # j => PoolRange(capBB[i]) \cap PoolRange(capBB[j]) = {}
  BY <1>1 DEF PoolPartition
<1>8. \A i \in 1 .. m : \/ i = cur
                        \/ i \in 1 .. n /\ PoolRange(capBB'[i]) = PoolRange(capBB[i])
                        \/ PoolRange(capBB'[i]) = {}
  <2> SUFFICES ASSUME NEW i \in 1 .. m, i # cur
               PROVE  \/ i \in 1 .. n /\ PoolRange(capBB'[i]) = PoolRange(capBB[i])
                      \/ PoolRange(capBB'[i]) = {}
    OBVIOUS
  <2>1. CASE i \in 1 .. n
    BY <1>2, <2>1
  <2>2. CASE i \notin 1 .. n
    <3>1. i > n
      BY <1>1, <2>2
    <3> QED
      BY <1>2, <3>1
  <2> QED
    BY <2>1, <2>2
<1>9. ASSUME NEW i \in 1 .. m PROVE PoolRange(capBB'[i]) \subseteq 1 .. Len(capInstr')
  <2>1. 1 .. top \subseteq 1 .. Len(capInstr')
    BY <1>1
  <2>2. (top + 1) .. (top + Len(ins)) \subseteq 1 .. Len(capInstr')
    BY <1>1
  <2>3. old \subseteq 1 .. top
    BY <1>1, <1>7
  <2> HIDE DEF new, old, top, cur, n, m
  <2>4. CASE i = cur
    BY <1>6, <2>1, <2>2, <2>3, <2>4 DEF new
  <2>5. CASE i # cur
    BY <1>7, <1>8, <2>1, <2>5
  <2> QED
    BY <2>4, <2>5
<1>10. ASSUME NEW i \in 1 .. n, i # cur
       PROVE  PoolRange(capBB[i]) \cap new = {}
  <2>1. PoolRange(capBB[i]) \subseteq 1 .. top /\ PoolRange(capBB[i]) \cap old = {}
    BY <1>1, <1>7, <1>10
  <2>2. \A k \in 1 .. top : k \notin (top + 1) .. (top + Len(ins))
    BY <1>1
  <2> HIDE DEF new, old, top
  <2> QED
    BY <1>6, <2>1, <2>2
<1>11. ASSUME NEW i \in 1 .. m, NEW j \in 1 .. m, i # j
       PROVE  PoolRange(capBB'[i]) \cap PoolRange(capBB'[j]) = {}
  <2> HIDE DEF old, top, cur, n, m
  <2>1. CASE i # cur /\ j # cur
    BY <1>7, <1>8, <1>11, <2>1
  <2>2. CASE i = cur
    BY <1>8, <1>10, <1>11, <2>2
  <2>3. CASE j = cur
    BY <1>8, <1>10, <1>11, <2>3
  <2> QED
    BY <2>1, <2>2, <2>3
<1>12. Emulating' /\ capBB'[currentCapBB'].count > 0 =>
         capBB'[currentCapBB'].instr + capBB'[currentCapBB'].count = Len(capInstr') + 1
  <2> SUFFICES ASSUME Emulating', capBB'[currentCapBB'].count > 0
               PROVE  capBB'[currentCapBB'].instr + capBB'[currentCapBB'].count
                        = Len(capInstr') + 1
    OBVIOUS
  <2>1. currentCapBB' = cur
    BY <1>2 DEF Emulating
  <2>2. capBB'[cur].instr + capBB'[cur].count = top + Len(ins) + 1
    <3>1. capBB'[cur].count > 0
      BY <2>1
    <3> HIDE DEF cur, top
    <3>2. top \in Nat /\ Len(ins) \in Nat
      BY <1>1
    <3>3. /\ capBB'[cur].count = capBB[cur].count + Len(ins)
          /\ capBB'[cur].instr = IF ins # << >> /\ capBB[cur].count = 0
                                 THEN top + 1 ELSE capBB[cur].instr
      BY <1>2
    <3>4. CASE capBB[cur].count = 0
      BY <1>3, <1>5, <3>1, <3>2, <3>3, <3>4
    <3>5. CASE capBB[cur].count # 0
      BY <1>3, <1>4, <3>2, <3>3, <3>5
    <3> QED
      BY <3>4, <3>5
  <2> QED
    BY <1>1, <2>1, <2>2
<1> QED
  BY <1>9, <1>11, <1>12 DEF PoolPartition

\* Blocks added are successors of the current block.
LEMMA ExtendedDiscovered ==
  ASSUME TableInv, NEW ins, Extended(ins) PROVE Discovered'
<1> DEFINE cur == currentCapBB
           n   == Len(capBB)
           m   == Len(capBB')
<1>1. /\ n \in Nat /\ m \in Nat /\ n <= m /\ cur \in 1 .. n
      /\ capBB[cur].nextBranch = 0 /\ capBB[cur].nextFallThrough = 0
      /\ Discovered /\ Sound
      /\ \A j \in 1 .. n : j # cur => capBB'[j] = capBB[j]
  BY ExtendedFacts DEF Extended
<1> SUFFICES ASSUME NEW j \in 2 .. m
             PROVE  \E i \in 1 .. (j - 1) :
                      j \in { capBB'[i].nextBranch, capBB'[i].nextFallThrough }
  BY DEF Discovered
<1>2. CASE j > n
  <2>1. cur \in 1 .. (j - 1)
    BY <1>1, <1>2
  <2>2. j \in { capBB'[cur].nextBranch, capBB'[cur].nextFallThrough }
    BY <1>1, <1>2 DEF Extended
  <2> QED
    BY <2>1, <2>2
<1>3. CASE ~(j > n)
  <2>1. j \in 2 .. n
    BY <1>1, <1>3
  <2>2. PICK i \in 1 .. (j - 1) :
               j \in { capBB[i].nextBranch, capBB[i].nextFallThrough }
    BY <1>1, <2>1 DEF Discovered
  <2>3. i \in 1 .. n /\ i # cur
    BY <1>1, <2>1, <2>2
  <2> QED
    BY <1>1, <2>2, <2>3
<1> QED
  BY <1>2, <1>3

----------------------------------------------------------------------------
(***************************************************************************)
(* The invariant holds initially and every action preserves it.            *)
(***************************************************************************)

\* An engine just allocated has empty tables.
LEMMA InitTable == Init => TableInv
<1> SUFFICES ASSUME Init PROVE TableInv
  OBVIOUS
<1>1. capBB = << >> /\ capInstr = << >> /\ savedState = << >> /\ status = "called"
  BY DEF Init
<1>2. \A i : i \notin 1 .. Len(capBB) /\ i \notin 1 .. Len(savedState)
              /\ i \notin 2 .. Len(capBB)
  BY <1>1
<1>3. EntryStateOnly /\ ~Emulating
  BY <1>1 DEF EntryStateOnly, Emulating
<1>4. UniqueKeys /\ EmptyUntilOpened /\ WellLinked /\ PoolPartition /\ Discovered
      /\ SavedOnce
  BY <1>2, <1>3 DEF UniqueKeys, EmptyUntilOpened, WellLinked, PoolPartition,
                    Discovered, SavedOnce
<1> QED
  BY <1>3, <1>4, InitIInv DEF TableInv

\* What failing leaves behind satisfies all but the properties of the saved
\* states and the keys trivially.
LEMMA FailedTable ==
  ASSUME TableInv, IInv', status' \in Errors, UniqueKeys', SavedOnce'
  PROVE  TableInv'
<1>1. status' \notin {"called", "running", "done"}
  BY DEF Errors
<1> QED
  BY <1>1 DEF TableInv, EntryStateOnly, EmptyUntilOpened, WellLinked, PoolPartition,
              Discovered, Sound, Emulating

\* The request: only the entry block, with the hint captured into it.
LEMMA StartTable == TableInv /\ Start => TableInv'
<1> SUFFICES ASSUME TableInv, Start PROVE TableInv'
  OBVIOUS
<1> DEFINE entry == << NewCBB(func, 1) >>
           ins == IF Room(Hints) THEN Hints ELSE << >>
<1>1. /\ IInv /\ IInv' /\ TypeOK /\ status = "called"
      /\ capBB = << >> /\ capInstr = << >>
      /\ savedState' = << es >> /\ Len(savedState') = 1
  BY StartIInv DEF TableInv, IInv, ResetBefore, Start
<1>2. SavedOnce'
  BY <1>1 DEF SavedOnce
<1>3. CASE capBBCapacity = 0
  <2>1. status' = "Too many captured blocks" /\ capBB' = << >>
    BY <1>1, <1>3 DEF Start
  <2>2. Len(capBB') = 0
    BY <2>1
  <2>3. UniqueKeys'
    BY <2>2 DEF UniqueKeys
  <2> QED
    BY <1>1, <1>2, <2>1, <2>3, FailedTable DEF Errors
<1>4. CASE capBBCapacity # 0
  <2>1. /\ capBB' = Captured(entry, 1, ins) /\ capInstr' = PoolAfter(Hints)
        /\ currentCapBB' = 1
        /\ status' = IF Room(Hints) THEN "running"
                     ELSE "Too many captured instructions"
    BY <1>4 DEF Start
  <2>2. /\ entry \in Seq(CBB) /\ Len(entry) = 1 /\ entry[1] = NewCBB(func, 1)
        /\ ins \in Seq(Instr)
    <3>1. NewCBB(func, 1) \in CBB
      BY CodeAssumption DEF NewCBB, CBB
    <3>2. ins \in Seq(Instr)
      BY CodeAssumption
    <3> QED
      BY <3>1, <3>2, SingletonFacts
  <2>3. capInstr \in Seq(Instr) /\ 1 \in 1 .. Len(entry) /\ Len(capInstr) = 0
    BY <1>1, <2>2 DEF TypeOK
  <2>4. /\ entry[1].endType = None /\ entry[1].count = 0
        /\ entry[1].nextBranch = 0 /\ entry[1].nextFallThrough = 0
    BY <2>2 DEF NewCBB
  <2> HIDE DEF entry
  <2>5. /\ Len(capBB') = 1
        /\ capBB'[1].endType = None
        /\ capBB'[1].nextBranch = 0 /\ capBB'[1].nextFallThrough = 0
    <3> DEFINE new == Captured(entry, 1, ins)
    <3> HIDE DEF ins
    <3>1. /\ Len(new) = Len(entry)
          /\ \A j \in 1 .. Len(entry) :
               /\ new[j].endType = entry[j].endType
               /\ new[j].nextBranch = entry[j].nextBranch
               /\ new[j].nextFallThrough = entry[j].nextFallThrough
      <4>1. /\ entry \in Seq(CBB) /\ 1 \in 1 .. Len(entry) /\ ins \in Seq(Instr)
            /\ capInstr \in Seq(Instr)
        BY <2>2, <2>3
      <4> QED
        BY <4>1, CapturedFacts
    <3>2. capBB' = new
      BY <2>1
    <3> HIDE DEF new
    <3> QED
      BY <2>2, <2>3, <2>4, <3>1, <3>2
  <2>6. /\ capBB'[1].count = Len(ins)
        /\ capBB'[1].count > 0 => capBB'[1].instr = 1
    <3> HIDE DEF ins
    <3>1. /\ capBB'[1].count = entry[1].count + Len(ins)
          /\ capBB'[1].instr = IF ins # << >> /\ entry[1].count = 0
                               THEN Len(capInstr) + 1 ELSE entry[1].instr
      BY <2>1, <2>2, <2>3, CapturedPool
    <3>2. Len(ins) \in Nat /\ (ins = << >> => Len(ins) = 0)
      BY <2>2
    <3> QED
      BY <2>3, <2>4, <3>1, <3>2
  <2>7. \A i : i \in 1 .. Len(capBB') <=> i = 1
    BY <2>5
  <2>8. UniqueKeys'
    BY <2>7 DEF UniqueKeys
  <2>9. CASE Room(Hints)
    <3>1. status' = "running" /\ ins = Hints /\ capInstr' = capInstr \o Hints
      BY <2>1, <2>9 DEF PoolAfter
    <3>2. Len(capInstr') = Len(ins) /\ Len(ins) \in Nat
      BY <2>2, <2>3, <3>1, ConcatFacts
    <3>3. EntryStateOnly' /\ EmptyUntilOpened'
      BY <1>1, <2>1, <2>7 DEF EntryStateOnly, EmptyUntilOpened
    <3>4. WellLinked'
      BY <2>5, <2>7 DEF WellLinked
    <3>5. PoolPartition'
      <4>1. PoolRange(capBB'[1]) \subseteq 1 .. Len(capInstr')
        BY <2>6, <3>2 DEF PoolRange
      <4>2. capBB'[1].count > 0 =>
              capBB'[1].instr + capBB'[1].count = Len(capInstr') + 1
        BY <2>6, <3>2
      <4>3. \A i, j \in 1 .. Len(capBB') : i = j
        BY <2>7
      <4>4. \A i \in 1 .. Len(capBB') : PoolRange(capBB'[i]) \subseteq 1 .. Len(capInstr')
        BY <2>7, <4>1
      <4> QED
        BY <2>1, <4>2, <4>3, <4>4 DEF PoolPartition
    <3>6. Discovered'
      BY <2>5 DEF Discovered
    <3> QED
      BY <1>1, <1>2, <2>8, <3>3, <3>4, <3>5, <3>6 DEF TableInv
  <2>10. CASE ~Room(Hints)
    <3>1. status' \in Errors
      BY <2>1, <2>10 DEF Errors
    <3> QED
      BY <1>1, <1>2, <2>8, <3>1, FailedTable
  <2> QED
    BY <2>9, <2>10
<1> QED
  BY <1>3, <1>4

\* The block opened is the empty one on top of the stack.
LEMMA OpenNextTable == TableInv /\ OpenNext => TableInv'
<1> SUFFICES ASSUME TableInv, OpenNext PROVE TableInv'
  OBVIOUS
<1>1. /\ IInv' /\ status = "running" /\ currentCapBB = 0
      /\ UNCHANGED << code, capBB, capInstr, savedState >>
      /\ Sound /\ ~Emulating
  BY OpenNextIInv DEF TableInv, OpenNext, PathEnded, Sound, Emulating
<1>2. UniqueKeys' /\ WellLinked' /\ Discovered' /\ SavedOnce'
  BY <1>1 DEF TableInv, UniqueKeys, WellLinked, Discovered, SavedOnce
<1>3. \A i \in 1 .. Len(capBB) : capBB[i].endType = None => capBB[i].count = 0
  <2>1. \A i \in 1 .. Len(capBB) : i # currentCapBB
    BY <1>1
  <2> QED
    BY <1>1, <2>1 DEF TableInv, EmptyUntilOpened
<1>4. EmptyUntilOpened'
  BY <1>1, <1>3 DEF EmptyUntilOpened
<1>5. EntryStateOnly'
  BY <1>1 DEF OpenNext, EntryStateOnly, Emulating
<1>6. Emulating' => capBB'[currentCapBB'].count = 0
  BY <1>1, <1>3 DEF IInv, StackDiscipline
<1>7. PoolPartition'
  <2>1. /\ \A i, j \in 1 .. Len(capBB) :
             i # j => PoolRange(capBB[i]) \cap PoolRange(capBB[j]) = {}
        /\ \A i \in 1 .. Len(capBB) :
             PoolRange(capBB[i]) \subseteq 1 .. Len(capInstr)
    BY <1>1 DEF TableInv, PoolPartition
  <2>2. ~(Emulating' /\ capBB'[currentCapBB'].count > 0)
    BY <1>6
  <2> QED
    BY <1>1, <2>1, <2>2 DEF PoolPartition
<1> QED
  BY <1>1, <1>2, <1>4, <1>5, <1>7 DEF TableInv

\* The parts that extending a block preserves.
LEMMA ExtendedTable ==
  ASSUME TableInv, NEW ins, Extended(ins)
  PROVE  /\ UniqueKeys' /\ EmptyUntilOpened' /\ WellLinked' /\ PoolPartition'
         /\ Discovered'
<1>1. UniqueIn(capBB) => UniqueIn(capBB')
  BY DEF Extended
<1>2. UniqueKeys'
  BY <1>1 DEF TableInv, UniqueKeys, UniqueIn
<1> QED
  BY <1>2, ExtendedEmpty, ExtendedLinked, ExtendedPool, ExtendedDiscovered

\* A state is saved again only if it is not found among those saved before,
\* and it is not looked for only if the entry state is the only one there is.
LEMMA SaveOnce ==
  ASSUME TableInv, AtJcc, savedState' \in {savedState, SavedAfter(Result.es)}
  PROVE  SavedOnce'
<1>1. /\ TypeOK /\ SavedOnce /\ EntryStateOnly /\ Emulating /\ Result.es \in State
  BY EmulatingFacts DEF TableInv, AtJcc
<1>2. savedState \in Seq(State) /\ Len(savedState) \in Nat
      /\ parent \in {"none", "es"}
  BY <1>1 DEF TypeOK
<1>3. CASE savedState' = savedState
  BY <1>1, <1>3 DEF SavedOnce
<1>4. CASE savedState' # savedState
  <2> DEFINE n == Len(savedState)
  <2>1. EqualSaved(Result.es) = {} /\ savedState' = Append(savedState, Result.es)
    BY <1>4 DEF SavedAfter
  <2>2. /\ Len(savedState') = n + 1 /\ savedState'[n + 1] = Result.es
        /\ \A i \in 1 .. n : savedState'[i] = savedState[i]
    BY <1>1, <1>2, <2>1
  <2>3. ASSUME NEW i \in 1 .. Len(savedState'), NEW j \in 1 .. Len(savedState'),
               i < j, EsIsEqual(savedState'[j], savedState'[i], TRUE)
        PROVE  i = 1 /\ j = 2
    <3>1. CASE j \in 1 .. n
      <4>1. i \in 1 .. n
        BY <2>2, <2>3, <3>1
      <4>2. EsIsEqual(savedState[j], savedState[i], TRUE)
        BY <2>2, <2>3, <3>1, <4>1
      <4> QED
        BY <1>1, <2>3, <3>1, <4>1, <4>2 DEF SavedOnce
    <3>2. CASE j \notin 1 .. n
      <4>1. j = n + 1 /\ i \in 1 .. n
        BY <1>2, <2>2, <2>3, <3>2
      <4>2. EsIsEqual(Result.es, savedState[i], TRUE)
        BY <2>2, <2>3, <4>1
      <4>3. CASE parent = "none"
        <5>1. n = 1
          BY <1>1, <4>3 DEF EntryStateOnly
        <5> QED
          BY <4>1, <5>1
      <4>4. CASE parent = "es"
        <5>1. (parent = "es") = TRUE
          BY <4>4
        <5>2. ~EsIsEqual(Result.es, savedState[i], parent = "es")
          BY <2>1, <4>1 DEF EqualSaved
        <5>3. ~EsIsEqual(Result.es, savedState[i], TRUE)
          BY <5>1, <5>2
        <5> QED
          BY <4>2, <5>3
      <4> QED
        BY <1>2, <4>3, <4>4
    <3> QED
      BY <3>1, <3>2
  <2> QED
    BY <2>3 DEF SavedOnce
<1> QED
  BY <1>3, <1>4

\* Emulating on within the current block.
LEMMA EmulateStepTable == TableInv /\ EmulateStep => TableInv'
<1> SUFFICES ASSUME TableInv, EmulateStep PROVE TableInv'
  OBVIOUS
<1>1. /\ IInv' /\ Extended(Result.out) /\ Emulating
      /\ UNCHANGED << parent, savedState, status, currentCapBB >>
  BY EmulateStepIInv, StepExtends DEF TableInv, EmulateStep
<1>2. EntryStateOnly' /\ SavedOnce'
  BY <1>1 DEF TableInv, EntryStateOnly, SavedOnce, Emulating
<1> QED
  BY <1>1, <1>2, ExtendedTable DEF TableInv

\* Ending the current block with a conditional jump.
LEMMA EmulateJccTable == TableInv /\ EmulateJcc => TableInv'
<1> SUFFICES ASSUME TableInv, EmulateJcc PROVE TableInv'
  OBVIOUS
<1>1. /\ IInv' /\ Extended(Result.out) /\ AtJcc /\ currentCapBB' = 0
      /\ savedState' \in {savedState, SavedAfter(Result.es)}
  BY EmulateJccIInv, JccExtends DEF TableInv, EmulateJcc
<1>2. EntryStateOnly'
  BY <1>1 DEF EntryStateOnly, Emulating
<1>3. SavedOnce'
  BY <1>1, SaveOnce
<1> QED
  BY <1>1, <1>2, <1>3, ExtendedTable DEF TableInv

\* Failing in the middle of ending a block.
LEMMA EmulateJccErrorTable == TableInv /\ EmulateJccError => TableInv'
<1> SUFFICES ASSUME TableInv, EmulateJccError PROVE TableInv'
  OBVIOUS
<1>1. /\ IInv' /\ AtJcc /\ capBB' = << >> /\ status' \in Errors
      /\ savedState' \in {savedState, SavedAfter(Result.es)}
  BY EmulateJccErrorIInv DEF TableInv, EmulateJccError, Errors
<1>2. UniqueKeys'
  BY <1>1 DEF UniqueKeys
<1>3. SavedOnce'
  BY <1>1, SaveOnce
<1> QED
  BY <1>1, <1>2, <1>3, FailedTable

\* Ending the current block with the return.
LEMMA EmulateRetTable == TableInv /\ EmulateRet => TableInv'
<1> SUFFICES ASSUME TableInv, EmulateRet PROVE TableInv'
  OBVIOUS
<1>1. /\ IInv /\ IInv' /\ UNCHANGED << parent, savedState >>
  BY EmulateRetIInv DEF TableInv, EmulateRet
<1>2. SavedOnce'
  BY <1>1 DEF TableInv, SavedOnce
<1>3. CASE Extended(Result.out \o Result.fin)
  <2>1. EntryStateOnly'
    <3>1. Emulating /\ (Emulating' => currentCapBB' = currentCapBB)
      BY <1>3 DEF Extended, Emulating
    <3> QED
      BY <1>1, <3>1 DEF TableInv, EntryStateOnly
  <2> QED
    BY <1>1, <1>2, <1>3, <2>1, ExtendedTable DEF TableInv
<1>4. CASE ~Extended(Result.out \o Result.fin)
  <2>1. /\ status' = "Too many captured instructions" /\ Len(capBB') = Len(capBB)
        /\ \A j \in 1 .. Len(capBB) :
             capBB'[j].dec_addr = capBB[j].dec_addr /\ capBB'[j].esID = capBB[j].esID
    BY <1>1, <1>4, RetExtends
  <2>2. UniqueIn(capBB) => UniqueIn(capBB')
    BY <2>1, SameKeysUnique
  <2>3. UniqueKeys'
    BY <2>2 DEF TableInv, UniqueKeys, UniqueIn
  <2> QED
    BY <1>1, <1>2, <2>1, <2>3, FailedTable DEF Errors
<1> QED
  BY <1>3, <1>4

\* An error of the emulator.
LEMMA EmulateErrorTable == TableInv /\ EmulateError => TableInv'
<1> SUFFICES ASSUME TableInv, EmulateError PROVE TableInv'
  OBVIOUS
<1>1. /\ IInv' /\ capBB' = << >> /\ savedState' = savedState /\ status' \in Errors
  BY EmulateErrorIInv DEF TableInv, EmulateError, Errors
<1>2. UniqueKeys' /\ SavedOnce'
  <2>1. \A i : i \notin 1 .. Len(capBB')
    BY <1>1
  <2>2. UniqueKeys'
    BY <2>1 DEF UniqueKeys
  <2>3. SavedOnce'
    BY <1>1 DEF TableInv, SavedOnce
  <2> QED
    BY <2>2, <2>3
<1> QED
  BY <1>1, <1>2, FailedTable

\* Nothing changes while others act.
LEMMA StutterTable == TableInv /\ UNCHANGED vars => TableInv'
<1> SUFFICES ASSUME TableInv, UNCHANGED vars PROVE TableInv'
  OBVIOUS
<1>1. IInv'
  BY StutterIInv DEF TableInv
<1> QED
  BY <1>1 DEF TableInv, vars, EntryStateOnly, UniqueKeys, EmptyUntilOpened, WellLinked,
              PoolPartition, Discovered, SavedOnce, Sound, Emulating

----------------------------------------------------------------------------
(***************************************************************************)
(* Theorems                                                                *)
(***************************************************************************)

\* TableInv is an inductive invariant of the engine.
THEOREM TableInvariant == Spec => []TableInv
<1>1. Init => TableInv
  BY InitTable
<1>2. TableInv /\ [Next]_vars => TableInv'
  BY StartTable, OpenNextTable, EmulateStepTable, EmulateJccTable,
     EmulateJccErrorTable, EmulateRetTable, EmulateErrorTable, StutterTable
  DEF Next
<1> QED
  BY <1>1, <1>2, PTL DEF Spec

\* A code point is captured at most once: getCaptureBB never gives two blocks of
\* the table the same address and state, not even when capturing fails.
THEOREM KeysAreUnique == Spec => []UniqueKeys
<1>1. TableInv => UniqueKeys
  BY DEF TableInv
<1> QED
  BY <1>1, TableInvariant, PTL

\* The assertion on opening a block, that it is still empty, never fails.
THEOREM OpenedEmpty == Spec => []EmptyUntilOpened
<1>1. TableInv => EmptyUntilOpened
  BY DEF TableInv
<1> QED
  BY <1>1, TableInvariant, PTL

\* A block ended by captureJcc has two successors in the table, both for the
\* state saved there; a block ended by captureRet has none.
THEOREM LinksAreRight == Spec => []WellLinked
<1>1. TableInv => WellLinked
  BY DEF TableInv
<1> QED
  BY <1>1, TableInvariant, PTL

\* Instructions of a block are contiguous in the pool and no other block's,
\* although blocks only keep a start and a count.
THEOREM PoolIsPartitioned == Spec => []PoolPartition
<1>1. TableInv => PoolPartition
  BY DEF TableInv
<1> QED
  BY <1>1, TableInvariant, PTL

\* Every captured block is reachable from the entry block by successors.
THEOREM AllDiscovered == Spec => []Discovered
<1>1. TableInv => Discovered
  BY DEF TableInv
<1> QED
  BY <1>1, TableInvariant, PTL

\* saveEmuState stores no state twice, the entry state excepted, whatever
\* esIsEqual takes as equal.
THEOREM StatesSavedOnce == Spec => []SavedOnce
<1>1. TableInv => SavedOnce
  BY DEF TableInv
<1> QED
  BY <1>1, TableInvariant, PTL

----------------------------------------------------------------------------
(***************************************************************************)
(* The engine implements PathExploration, and blocks that were ended stay  *)
(* as they are                                                             *)
(***************************************************************************)
\* The list of saved states never grows beyond its bound.
SavedBound == Len(savedState) <= SAVEDSTATE_MAX

RInv == TableInv /\ SavedBound

\* The tables stay right, and saved states stay within their bound.
THEOREM RefinementInvariant == Spec => []RInv
<1>1. Init => SavedBound
  BY BoundsAssumption DEF Init, SavedBound
<1>2. TableInv /\ SavedBound /\ [Next]_vars => SavedBound'
  <2> SUFFICES ASSUME TableInv, SavedBound, [Next]_vars PROVE SavedBound'
    OBVIOUS
  <2>1. CASE savedState' = savedState
    BY <2>1 DEF SavedBound
  <2>2. CASE Start
    <3>1. savedState' = << es >> /\ Len(savedState') = 1
      BY <2>2 DEF Start
    <3> QED
      BY <3>1, BoundsAssumption DEF SavedBound
  <2>3. CASE (EmulateJcc \/ EmulateJccError) /\ savedState' # savedState
    <3>1. /\ AtJcc /\ CanSave(Result.es)
          /\ savedState' = SavedAfter(Result.es)
      BY <2>3 DEF EmulateJcc, EmulateJccError
    <3>2. savedState \in Seq(State) /\ Result.es \in State
      BY <3>1, EmulatingFacts DEF AtJcc, TableInv, TypeOK
    <3>3. EqualSaved(Result.es) = {} /\ savedState' = Append(savedState, Result.es)
      BY <2>3, <3>1 DEF SavedAfter
    <3>4. Len(savedState) < SAVEDSTATE_MAX
      BY <3>1, <3>3 DEF CanSave
    <3> QED
      BY <3>2, <3>3, <3>4, BoundsAssumption DEF SavedBound
  <2> QED
    BY <2>1, <2>2, <2>3 DEF Next, vars, OpenNext, EmulateStep, EmulateRet, EmulateError
<1> QED
  BY <1>1, <1>2, TableInvariant, PTL DEF Spec, RInv

----------------------------------------------------------------------------
\* Once captureJcc or captureRet has ended a block, no other step touches it,
\* unless an error drops the whole table.
THEOREM EndedBlocksStay == Spec => EndedStays
<1> DEFINE Kept ==
      capBB' # << >> =>
        \A i \in 1 .. Len(capBB) : capBB[i].endType # None => capBB'[i] = capBB[i]
<1>1. TableInv /\ [Next]_vars => [Kept]_vars
  <2> SUFFICES ASSUME TableInv, [Next]_vars PROVE Kept
    OBVIOUS
  <2>1. CASE capBB' = capBB \/ capBB' = << >>
    BY <2>1
  <2>2. ASSUME NEW ins, Extended(ins) PROVE Kept
    BY <2>2, ExtendedFacts DEF Extended
  <2>3. CASE EmulateStep
    BY <2>2, <2>3, StepExtends DEF TableInv
  <2>4. CASE EmulateJcc
    BY <2>2, <2>4, JccExtends DEF TableInv
  <2>5. CASE EmulateRet
    <3>1. Emulating /\ IInv
      BY <2>5 DEF EmulateRet, TableInv
    <3>2. capBB[currentCapBB].endType = None
      BY <3>1, EmulatingFacts
    <3> QED
      BY <2>2, <2>5, <3>1, <3>2, RetExtends
  <2>6. CASE Start
    <3>1. capBB = << >>
      BY <2>6 DEF TableInv, IInv, ResetBefore, Start
    <3> QED
      BY <3>1
  <2> QED
    BY <2>1, <2>3, <2>4, <2>5, <2>6
    DEF Next, vars, OpenNext, EmulateJccError, EmulateError
<1> QED
  BY <1>1, TableInvariant, PTL DEF Spec, EndedStays

----------------------------------------------------------------------------
(***************************************************************************)
(* Keys of blocks, as the code points of PathExploration                   *)
(***************************************************************************)
Points == Addr \X (1 .. SAVEDSTATE_MAX)

\* The key of block i in table bbs, and the keys of its successors.
Key(bbs, i) == << bbs[i].dec_addr, bbs[i].esID >>

Links(bbs, i) ==
  IF bbs[i].endType = Ret THEN {}
  ELSE { Key(bbs, bbs[i].nextBranch), Key(bbs, bbs[i].nextFallThrough) }

\* A key is a code point, and it tells which block it belongs to.
LEMMA KeyFacts ==
  RInv /\ Sound =>
    \A i \in 1 .. Len(capBB) : Key(capBB, i) \in Points /\ BlockOf(Key(capBB, i)) = i
<1> SUFFICES ASSUME RInv, Sound, NEW i \in 1 .. Len(capBB)
             PROVE  Key(capBB, i) \in Points /\ BlockOf(Key(capBB, i)) = i
  OBVIOUS
<1>1. TypeOK /\ RefsValid /\ UniqueKeys /\ SavedBound
  BY DEF RInv, TableInv, IInv
<1>2. capBB[i] \in CBB /\ capBB[i].esID \in 1 .. Len(savedState)
  BY <1>1 DEF TypeOK, RefsValid
<1>3. Key(capBB, i) \in Points
  <2>1. capBB[i].dec_addr \in Addr
    BY <1>2 DEF CBB
  <2>2. capBB[i].esID \in 1 .. SAVEDSTATE_MAX
    BY <1>1, <1>2, BoundsAssumption DEF SavedBound, TypeOK
  <2> QED
    BY <2>1, <2>2 DEF Key, Points
<1>4. \A j \in 1 .. Len(capBB) : KeyOf(j) = Key(capBB, i) => j = i
  BY <1>1 DEF Key, KeyOf, UniqueKeys
<1>5. KeyOf(i) = Key(capBB, i)
  BY DEF Key, KeyOf
<1>6. BlockOf(Key(capBB, i)) = i
  BY <1>4, <1>5 DEF BlockOf
<1> QED
  BY <1>3, <1>6

\* The successors of an ended block are code points of blocks in the table.
LEMMA SuccFacts ==
  RInv /\ Sound =>
    \A i \in 1 .. Len(capBB) : capBB[i].endType # None =>
      /\ SuccKeys[Key(capBB, i)] = Links(capBB, i)
      /\ Links(capBB, i) \subseteq Points
      /\ capBB[i].endType # Ret =>
           /\ capBB[i].nextBranch \in 1 .. Len(capBB)
           /\ capBB[i].nextFallThrough \in 1 .. Len(capBB)
<1> SUFFICES ASSUME RInv, Sound, NEW i \in 1 .. Len(capBB), capBB[i].endType # None
             PROVE  /\ SuccKeys[Key(capBB, i)] = Links(capBB, i)
                    /\ Links(capBB, i) \subseteq Points
                    /\ capBB[i].endType # Ret =>
                         /\ capBB[i].nextBranch \in 1 .. Len(capBB)
                         /\ capBB[i].nextFallThrough \in 1 .. Len(capBB)
  OBVIOUS
<1>1. Key(capBB, i) \in ClosedKeys
  BY DEF ClosedKeys, Key, KeyOf
<1>2. BlockOf(Key(capBB, i)) = i
  BY KeyFacts
<1>3. SuccKeys[Key(capBB, i)] = Links(capBB, i)
  BY <1>1, <1>2 DEF SuccKeys, Links, Key, KeyOf
<1>4. capBB[i].endType # Ret =>
        /\ capBB[i].nextBranch \in 1 .. Len(capBB)
        /\ capBB[i].nextFallThrough \in 1 .. Len(capBB)
  BY DEF RInv, TableInv, WellLinked
<1>5. Links(capBB, i) \subseteq Points
  BY <1>4, KeyFacts DEF Links
<1> QED
  BY <1>3, <1>4, <1>5

\* Which code points are open and closed.
LEMMA KeySets ==
  /\ \A p : p \in OpenKeys <=>
       \E i \in 1 .. Len(capBB) : capBB[i].endType = None /\ p = Key(capBB, i)
  /\ \A p : p \in ClosedKeys <=>
       \E i \in 1 .. Len(capBB) : capBB[i].endType # None /\ p = Key(capBB, i)
  BY DEF OpenKeys, ClosedKeys, Key, KeyOf

\* succ is a function on the closed ones.
LEMMA SuccType == RInv /\ Sound => SuccKeys \in [ClosedKeys -> SUBSET Points]
<1> SUFFICES ASSUME RInv, Sound PROVE SuccKeys \in [ClosedKeys -> SUBSET Points]
  OBVIOUS
<1>1. \A p \in ClosedKeys : SuccKeys[p] \subseteq Points
  BY KeySets, SuccFacts
<1>2. DOMAIN SuccKeys = ClosedKeys /\ SuccKeys = [p \in ClosedKeys |-> SuccKeys[p]]
  BY DEF SuccKeys
<1> QED
  BY <1>1, <1>2

----------------------------------------------------------------------------
(***************************************************************************)
(* Each step of the engine is a step of PathExploration, or none.          *)
(***************************************************************************)

\* A sequence without elements is the function on the empty set.
LEMMA NoKeysNoSucc == ClosedKeys = {} => SuccKeys = << >>
  BY DEF SuccKeys

\* An engine just allocated has no code points.
LEMMA InitRefines == Init => Exploration!Init
<1> SUFFICES ASSUME Init PROVE Exploration!Init
  OBVIOUS
<1>1. Len(capBB) = 0 /\ status = "called" /\ Sound
  BY DEF Init, Sound
<1>2. OpenKeys = {} /\ ClosedKeys = {}
  BY <1>1 DEF OpenKeys, ClosedKeys
<1>3. SuccKeys = << >>
  BY <1>2, NoKeysNoSucc
<1> QED
  BY <1>1, <1>2, <1>3 DEF Exploration!Init, Errors

\* Failing is giving up, from whatever was explored so far.
LEMMA FailRefines ==
  ASSUME status \in {"called", "running"}, status' \in Errors
  PROVE  Exploration!GiveUp
<1>1. ~Sound'
  BY DEF Sound, Errors
<1> QED
  BY <1>1 DEF Exploration!GiveUp, Errors


\* The same for the tables after a step.
LEMMA NextKeys ==
  ASSUME RInv', Sound'
  PROVE  /\ \A i \in 1 .. Len(capBB') :
              /\ Key(capBB', i) \in Points
              /\ capBB'[i].endType # None =>
                   /\ SuccKeys'[Key(capBB', i)] = Links(capBB', i)
                   /\ Links(capBB', i) \subseteq Points
                   /\ capBB'[i].endType # Ret =>
                        /\ capBB'[i].nextBranch \in 1 .. Len(capBB')
                        /\ capBB'[i].nextFallThrough \in 1 .. Len(capBB')
         /\ \A p : p \in OpenKeys' <=>
              \E i \in 1 .. Len(capBB') : capBB'[i].endType = None /\ p = Key(capBB', i)
         /\ \A p : p \in ClosedKeys' <=>
              \E i \in 1 .. Len(capBB') : capBB'[i].endType # None /\ p = Key(capBB', i)
         /\ SuccKeys' \in [ClosedKeys' -> SUBSET Points]
<1>1. (RInv /\ Sound => SuccKeys \in [ClosedKeys -> SUBSET Points])'
  BY SuccType, PTL
<1>2. (RInv /\ Sound =>
        \A i \in 1 .. Len(capBB) :
          Key(capBB, i) \in Points /\ BlockOf(Key(capBB, i)) = i)'
  BY KeyFacts, PTL
<1>3. (RInv /\ Sound =>
        \A i \in 1 .. Len(capBB) : capBB[i].endType # None =>
          /\ SuccKeys[Key(capBB, i)] = Links(capBB, i)
          /\ Links(capBB, i) \subseteq Points
          /\ capBB[i].endType # Ret =>
               /\ capBB[i].nextBranch \in 1 .. Len(capBB)
               /\ capBB[i].nextFallThrough \in 1 .. Len(capBB))'
  BY SuccFacts, PTL
<1>4. /\ \A p : p \in OpenKeys' <=>
           \E i \in 1 .. Len(capBB') : capBB'[i].endType = None /\ p = Key(capBB', i)
      /\ \A p : p \in ClosedKeys' <=>
           \E i \in 1 .. Len(capBB') : capBB'[i].endType # None /\ p = Key(capBB', i)
  BY DEF OpenKeys, ClosedKeys, Key, KeyOf
<1> QED
  BY <1>1, <1>2, <1>3, <1>4

\* A step that changes neither keys nor ends nor links of blocks is no step.
LEMMA SameRefines ==
  ASSUME Sound, Sound', Len(capBB') = Len(capBB),
         \A j \in 1 .. Len(capBB) :
           /\ capBB'[j].dec_addr = capBB[j].dec_addr
           /\ capBB'[j].esID = capBB[j].esID
           /\ capBB'[j].endType = capBB[j].endType
           /\ capBB[j].endType # None => capBB'[j] = capBB[j],
         status' = status, RInv, RInv'
  PROVE  UNCHANGED Exploration!vars
<1> DEFINE n == Len(capBB)
<1>1. \A j \in 1 .. n : Key(capBB', j) = Key(capBB, j)
  BY DEF Key
<1>2. OpenKeys' = OpenKeys /\ ClosedKeys' = ClosedKeys
  <2>1. \A p : p \in OpenKeys' <=> p \in OpenKeys
    BY <1>1, KeySets, NextKeys
  <2>2. \A p : p \in ClosedKeys' <=> p \in ClosedKeys
    BY <1>1, KeySets, NextKeys
  <2> QED
    BY <2>1, <2>2
<1>3. ASSUME NEW p \in ClosedKeys PROVE SuccKeys'[p] = SuccKeys[p]
  <2>1. PICK i \in 1 .. n : capBB[i].endType # None /\ p = Key(capBB, i)
    BY <1>3, KeySets
  <2>2. SuccKeys[p] = Links(capBB, i) /\ SuccKeys'[p] = Links(capBB', i)
    BY <1>1, <2>1, SuccFacts, NextKeys
  <2>3. Links(capBB', i) = Links(capBB, i)
    BY <1>1, <2>1, SuccFacts DEF Links
  <2> QED
    BY <2>2, <2>3
<1>4. SuccKeys' = SuccKeys
  BY <1>2, <1>3, SuccType, NextKeys
<1> QED
  BY <1>2, <1>4 DEF Exploration!vars

\* PathExploration has its own instance of the operators on finite sets.
LEMMA SameCardinality ==
  ASSUME NEW S PROVE Exploration!Cardinality(S) = Cardinality(S)
  BY Zenon DEF Exploration!Cardinality, Cardinality

\* Ending a block specialises its code point: its successors are discovered.
LEMMA EndRefines ==
  ASSUME RInv, RInv', NEW ins, Extended(ins), currentCapBB' = 0
  PROVE  Exploration!Specialise
<1> DEFINE cur == currentCapBB
           n   == Len(capBB)
           m   == Len(capBB')
           p   == Key(capBB, cur)
           new == SuccKeys'[p]
<1>1. /\ Sound /\ Sound' /\ status = "running" /\ status' = status
      /\ cur \in 1 .. n /\ n \in Nat /\ m \in Nat /\ n <= m
      /\ capBB[cur].endType = None
  BY ExtendedFacts DEF RInv
<1>2. cur # 0
  BY <1>1
<1>3. /\ capBB'[cur].endType # None
      /\ \A j \in 1 .. n : j # cur => capBB'[j] = capBB[j]
      /\ \A j \in 1 .. m : j > n => capBB'[j].endType = None
      /\ \/ capBB'[cur].endType = Ret /\ m = n
         \/ /\ capBB'[cur].endType # Ret
            /\ \A j \in 1 .. m : j > n =>
                 j \in {capBB'[cur].nextBranch, capBB'[cur].nextFallThrough}
  BY <1>2 DEF Extended
<1>4. \A j \in 1 .. n : Key(capBB', j) = Key(capBB, j) /\ j \in 1 .. m
  BY <1>1 DEF Extended, Key
<1>5. /\ \A i, j \in 1 .. n : Key(capBB, i) = Key(capBB, j) => i = j
      /\ \A i, j \in 1 .. m : Key(capBB', i) = Key(capBB', j) => i = j
  BY DEF RInv, TableInv, UniqueKeys, Key
<1>6. p \in OpenKeys
  BY <1>1, KeySets
<1>7. ClosedKeys' = ClosedKeys \cup {p}
  <2>1. ASSUME NEW q \in ClosedKeys' PROVE q \in ClosedKeys \cup {p}
    <3>1. PICK i \in 1 .. m : capBB'[i].endType # None /\ q = Key(capBB', i)
      BY <1>1, <2>1, NextKeys
    <3>2. i \in 1 .. n
      BY <1>1, <1>3, <3>1
    <3> QED
      BY <1>3, <1>4, <3>1, <3>2, KeySets
  <2>2. ASSUME NEW q \in ClosedKeys PROVE q \in ClosedKeys'
    <3>1. PICK i \in 1 .. n : capBB[i].endType # None /\ q = Key(capBB, i)
      BY <2>2, KeySets
    <3>2. capBB'[i].endType # None /\ q = Key(capBB', i)
      BY <1>1, <1>3, <1>4, <3>1
    <3> QED
      BY <1>1, <1>4, <3>2, NextKeys
  <2>3. p \in ClosedKeys'
    BY <1>1, <1>3, <1>4, NextKeys
  <2> QED
    BY <2>1, <2>2, <2>3
<1>8. new = Links(capBB', cur) /\ new \subseteq Points
  BY <1>1, <1>3, <1>4, NextKeys
<1>9. ASSUME NEW q \in ClosedKeys PROVE SuccKeys'[q] = SuccKeys[q]
  <2>1. PICK i \in 1 .. n : capBB[i].endType # None /\ q = Key(capBB, i)
    BY <1>9, KeySets
  <2>2. i # cur /\ capBB'[i] = capBB[i]
    BY <1>1, <1>3, <2>1
  <2>3. SuccKeys[q] = Links(capBB, i) /\ SuccKeys'[q] = Links(capBB', i)
    BY <1>1, <1>4, <2>1, <2>2, SuccFacts, NextKeys
  <2>4. Links(capBB', i) = Links(capBB, i)
    BY <1>1, <1>4, <2>1, <2>2, SuccFacts DEF Links
  <2> QED
    BY <2>3, <2>4
<1>10. Cardinality(new) <= 2
  <2>1. CASE capBB'[cur].endType = Ret
    <3>1. new = {}
      BY <1>8, <2>1 DEF Links
    <3> QED
      BY <3>1, FS_EmptySet
  <2>2. CASE capBB'[cur].endType # Ret
    <3> DEFINE a == Key(capBB', capBB'[cur].nextBranch)
               b == Key(capBB', capBB'[cur].nextFallThrough)
    <3>1. new = {a} \cup {b}
      BY <1>8, <2>2 DEF Links
    <3> HIDE DEF new, a, b
    <3>2. IsFiniteSet({a}) /\ Cardinality({a}) = 1
      BY FS_Singleton
    <3>3. Cardinality({a} \cup {b}) \in {1, 2}
      BY <3>2, FS_AddElement
    <3> QED
      BY <3>1, <3>3
  <2> QED
    BY <2>1, <2>2
<1>11. OpenKeys' = (OpenKeys \cup new) \ ClosedKeys'
  <2>1. ASSUME NEW q \in OpenKeys' PROVE q \in (OpenKeys \cup new) \ ClosedKeys'
    <3>1. PICK i \in 1 .. m : capBB'[i].endType = None /\ q = Key(capBB', i)
      BY <1>1, <2>1, NextKeys
    <3>2. q \notin ClosedKeys'
      BY <1>1, <1>5, <3>1, NextKeys
    <3>3. CASE i \in 1 .. n
      <4>1. capBB[i].endType = None /\ q = Key(capBB, i)
        BY <1>3, <1>4, <3>1, <3>3
      <4> QED
        BY <3>2, <3>3, <4>1, KeySets
    <3>4. CASE i \notin 1 .. n
      <4>1. i > n
        BY <1>1, <3>4
      <4>2. /\ capBB'[cur].endType # Ret
            /\ i \in {capBB'[cur].nextBranch, capBB'[cur].nextFallThrough}
        BY <1>1, <1>3, <4>1
      <4>3. q \in Links(capBB', cur)
        BY <3>1, <4>2 DEF Links
      <4> QED
        BY <1>8, <3>2, <4>3
    <3> QED
      BY <3>3, <3>4
  <2>2. ASSUME NEW q \in OpenKeys, q \notin ClosedKeys' PROVE q \in OpenKeys'
    <3>1. PICK i \in 1 .. n : capBB[i].endType = None /\ q = Key(capBB, i)
      BY <2>2, KeySets
    <3>2. i # cur
      BY <1>7, <2>2, <3>1
    <3>3. capBB'[i].endType = None /\ q = Key(capBB', i) /\ i \in 1 .. m
      BY <1>3, <1>4, <3>1, <3>2
    <3> QED
      BY <1>1, <3>3, NextKeys
  <2>3. ASSUME NEW q \in new, q \notin ClosedKeys' PROVE q \in OpenKeys'
    <3>1. capBB'[cur].endType # Ret
      BY <1>8, <2>3 DEF Links
    <3>2. PICK i \in {capBB'[cur].nextBranch, capBB'[cur].nextFallThrough} :
                 q = Key(capBB', i)
      BY <1>8, <2>3, <3>1 DEF Links
    <3>3. i \in 1 .. m
      BY <1>1, <1>3, <1>4, <3>1, <3>2, NextKeys
    <3>4. capBB'[i].endType = None
      BY <1>1, <2>3, <3>2, <3>3, NextKeys
    <3> QED
      BY <1>1, <3>2, <3>3, <3>4, NextKeys
  <2> QED
    BY <2>1, <2>2, <2>3
<1>12. SuccKeys' \in [ClosedKeys' -> SUBSET Points]
  BY <1>1, NextKeys
<1>13. status \notin Errors /\ status # "done"
  BY <1>1 DEF Errors
<1> HIDE DEF p, cur, n, m
<1>14. \E q \in OpenKeys :
         /\ ClosedKeys' = ClosedKeys \cup {q}
         /\ SuccKeys' \in [ClosedKeys' -> SUBSET Points]
         /\ \A r \in ClosedKeys : SuccKeys'[r] = SuccKeys[r]
         /\ Cardinality(SuccKeys'[q]) <= 2
         /\ OpenKeys' = (OpenKeys \cup SuccKeys'[q]) \ ClosedKeys'
  BY <1>6, <1>7, <1>9, <1>10, <1>11, <1>12
<1> HIDE DEF new
<1> QED
  BY <1>1, <1>13, <1>14, SameCardinality DEF Exploration!Specialise, Points

\* The request discovers the entry point.
LEMMA StartRefines ==
  ASSUME RInv, RInv', Start, status' \notin Errors
  PROVE  Exploration!Request
<1>1. /\ capBBCapacity # 0 /\ Room(Hints)
      /\ status' = "running" /\ status = "called"
      /\ capBB' = Captured(<< NewCBB(func, 1) >>, 1, Hints)
  BY DEF Start, Errors
<1>2. Len(capBB) = 0 /\ Sound /\ Sound'
  BY <1>1 DEF RInv, TableInv, IInv, ResetBefore, Sound
<1>3. OpenKeys = {} /\ ClosedKeys = {}
  BY <1>2, KeySets
<1>4. Len(capBB') = 1 /\ capBB'[1].endType = None
  <2> DEFINE entry == << NewCBB(func, 1) >>
             new == Captured(entry, 1, Hints)
  <2>1. NewCBB(func, 1) \in CBB /\ NewCBB(func, 1).endType = None
    BY CodeAssumption DEF NewCBB, CBB
  <2>2. /\ entry \in Seq(CBB) /\ Len(entry) = 1 /\ entry[1].endType = None
        /\ 1 \in 1 .. Len(entry)
    BY <2>1, SingletonFacts
  <2>3. Hints \in Seq(Instr) /\ capInstr \in Seq(Instr)
    BY CodeAssumption DEF RInv, TableInv, IInv, TypeOK
  <2>4. capBB' = new
    BY <1>1
  <2> HIDE DEF entry
  <2>5. /\ Len(new) = Len(entry)
        /\ \A j \in 1 .. Len(entry) : new[j].endType = entry[j].endType
    BY <2>2, <2>3, CapturedFacts
  <2> HIDE DEF new
  <2> QED
    BY <2>2, <2>4, <2>5
<1>5. Key(capBB', 1) \in Points
  BY <1>2, <1>4, NextKeys
<1>6. OpenKeys' = {Key(capBB', 1)} /\ ClosedKeys' = {}
  <2>1. \A i : i \in 1 .. Len(capBB') <=> i = 1
    BY <1>4
  <2> QED
    BY <1>2, <1>4, <2>1, NextKeys
<1>7. SuccKeys = << >> /\ SuccKeys' = << >>
  <2>1. (ClosedKeys = {} => SuccKeys = << >>)'
    BY NoKeysNoSucc, PTL
  <2> QED
    BY <1>3, <1>6, <2>1, NoKeysNoSucc
<1> QED
  BY <1>1, <1>2, <1>3, <1>5, <1>6, <1>7 DEF Exploration!Request, Points, Errors

\* Opening a block discovers nothing and specialises nothing; with none left
\* open, exploring is complete.
LEMMA OpenNextRefines ==
  ASSUME RInv, RInv', OpenNext
  PROVE  Exploration!Complete \/ UNCHANGED Exploration!vars
<1>1. /\ status = "running" /\ Sound /\ Sound' /\ capBB' = capBB
      /\ status' \in {"running", "done"}
  BY DEF OpenNext, PathEnded, Sound
<1>2. CASE status' = status
  BY <1>1, <1>2, SameRefines
<1>3. CASE status' # status
  <2>1. status' = "done"
    BY <1>1, <1>3
  <2>2. \A i \in 1 .. Len(capBB) : capBB[i].endType # None
    BY <1>1, <2>1 DEF RInv, TableInv, IInv, AllPathsDone
  <2>3. OpenKeys = {}
    BY <2>2, KeySets
  <2>4. ClosedKeys # {}
    <3>1. 1 \in 1 .. Len(capBB)
      BY <1>1 DEF RInv, TableInv, IInv, EntryExists, TypeOK
    <3> QED
      BY <2>2, <3>1, KeySets
  <2>5. OpenKeys' = OpenKeys /\ ClosedKeys' = ClosedKeys /\ SuccKeys' = SuccKeys
    BY <1>1 DEF OpenKeys, ClosedKeys, SuccKeys, KeyOf, BlockOf
  <2> QED
    BY <1>1, <2>1, <2>3, <2>4, <2>5 DEF Exploration!Complete, Errors
<1> QED
  BY <1>2, <1>3

----------------------------------------------------------------------------
\* What emulateAndCapture does is what PathExploration promises: every code
\* point found is specialised exactly once, the successors of its block are
\* discovered, and it succeeds only when none is left.
THEOREM Refinement == Spec => ExploresPaths
<1>1. Init => Exploration!Init
  BY InitRefines
<1>2. RInv /\ RInv' /\ [Next]_vars => [Exploration!Next]_Exploration!vars
  <2> SUFFICES ASSUME RInv, RInv', [Next]_vars
               PROVE  Exploration!Next \/ UNCHANGED Exploration!vars
    OBVIOUS
  <2>1. CASE status \in {"called", "running"} /\ status' \in Errors
    BY <2>1, FailRefines DEF Exploration!Next
  <2>2. ASSUME NEW ins, Extended(ins), currentCapBB' = 0
        PROVE  Exploration!Next
    BY <2>2, EndRefines DEF Exploration!Next
  <2>3. CASE Start
    <3>1. status = "called"
      BY <2>3 DEF Start
    <3> QED
      BY <2>1, <2>3, <3>1, StartRefines DEF Exploration!Next
  <2>4. CASE OpenNext
    BY <2>4, OpenNextRefines DEF Exploration!Next
  <2>5. CASE EmulateStep
    <3>1. /\ Extended(Result.out) /\ status' = status /\ currentCapBB' = currentCapBB
          /\ capBB' = Captured(capBB, currentCapBB, Result.out)
          /\ Emulating
      BY <2>5, StepExtends DEF RInv, TableInv, EmulateStep
    <3>2. /\ Sound /\ Sound' /\ currentCapBB \in 1 .. Len(capBB)
          /\ Result.out \in Seq(Instr) /\ TypeOK
          /\ capBB[currentCapBB].endType = None
      BY <3>1, EmulatingFacts, ExtendedFacts DEF RInv, TableInv
    <3>3. /\ Len(capBB') = Len(capBB)
          /\ \A j \in 1 .. Len(capBB) :
               /\ capBB'[j].dec_addr = capBB[j].dec_addr
               /\ capBB'[j].esID = capBB[j].esID
               /\ capBB'[j].endType = capBB[j].endType
               /\ j # currentCapBB => capBB'[j] = capBB[j]
      BY <3>1, <3>2, CapturedFacts, ZenonT(40) DEF TypeOK
    <3> QED
      BY <3>1, <3>2, <3>3, SameRefines
  <2>6. CASE EmulateJcc
    BY <2>2, <2>6, JccExtends DEF RInv, TableInv, EmulateJcc
  <2>7. CASE EmulateRet
    <3>1. Emulating /\ status = "running" /\ IInv
      BY <2>7 DEF EmulateRet, Emulating, RInv, TableInv
    <3>2. CASE status' = "Too many captured instructions"
      BY <2>1, <3>1, <3>2 DEF Errors
    <3>3. CASE status' # "Too many captured instructions"
      <4>1. Extended(Result.out \o Result.fin) /\ currentCapBB' = 0
        BY <2>7, <3>1, <3>3, RetExtends DEF EmulateRet
      <4> QED
        BY <2>2, <4>1
    <3> QED
      BY <3>2, <3>3
  <2>8. CASE EmulateJccError \/ EmulateError
    <3>1. status \in {"called", "running"} /\ status' \in Errors
      BY <2>8 DEF EmulateJccError, EmulateError, AtJcc, Emulating, Errors
    <3> QED
      BY <2>1, <3>1
  <2>9. CASE UNCHANGED vars
    BY <2>9 DEF vars, Exploration!vars, Sound, OpenKeys, ClosedKeys, SuccKeys, KeyOf,
                BlockOf
  <2> QED
    BY <2>3, <2>4, <2>5, <2>6, <2>7, <2>8, <2>9 DEF Next
<1> QED
  BY <1>1, <1>2, RefinementInvariant, PTL DEF Spec, ExploresPaths, Exploration!Spec

----------------------------------------------------------------------------
(***************************************************************************)
(* What exploring is for                                                   *)
(***************************************************************************)
Waiting  == IF Sound THEN OpenKeys ELSE {}
Ended    == IF Sound THEN ClosedKeys ELSE {}
Followed == IF Sound THEN SuccKeys ELSE << >>

\* Continuations of a specialised point are waiting or specialised themselves.
EInv ==
  /\ \A p \in Ended : Followed[p] \subseteq Waiting \cup Ended
  /\ status = "done" => Waiting = {}

\* Each step of the exploration keeps that.
LEMMA ExplorationKeeps ==
  ASSUME EInv, Exploration!Next
  PROVE  EInv'
<1> DEFINE outcome == CASE status = "done" -> "complete"
                        [] status \in Errors -> "failed"
                        [] OTHER -> "none"
<1>1. /\ outcome = "complete" <=> status = "done"
      /\ outcome' = "complete" <=> status' = "done"
  BY DEF Errors
<1>2. CASE Exploration!Request
  BY <1>1, <1>2 DEF Exploration!Request, EInv, Waiting, Ended, Followed
<1>3. CASE Exploration!Specialise
  <2>1. PICK p \in Waiting :
          /\ Ended' = Ended \cup {p}
          /\ \A q \in Ended : Followed'[q] = Followed[q]
          /\ Waiting' = (Waiting \cup Followed'[p]) \ Ended'
    BY <1>3 DEF Exploration!Specialise, Waiting, Ended, Followed
  <2>2. Waiting \cup Ended \cup Followed'[p] \subseteq Waiting' \cup Ended'
    BY <2>1
  <2>3. ASSUME NEW q \in Ended'
        PROVE  Followed'[q] \subseteq Waiting' \cup Ended'
    BY <2>1, <2>2, <2>3 DEF EInv
  <2>4. status' # "done"
    BY <1>1, <1>3 DEF Exploration!Specialise
  <2> QED
    BY <2>3, <2>4 DEF EInv
<1>4. CASE Exploration!Complete
  BY <1>1, <1>4 DEF Exploration!Complete, EInv, Waiting, Ended, Followed
<1>5. CASE Exploration!GiveUp
  BY <1>1, <1>5 DEF Exploration!GiveUp, EInv, Waiting, Ended, Followed
<1> QED
  BY <1>2, <1>3, <1>4, <1>5 DEF Exploration!Next

\* A complete exploration holds every continuation of every code point in it, so
\* the code generated by the engine never jumps to a point that was not captured.
\* emulateAndCapture, with captureJcc.
THEOREM CompleteIsClosed == Spec => []Exploration!Closed
<1>1. Exploration!Init => EInv
  BY DEF Exploration!Init, EInv, Waiting, Ended, Followed, Errors
<1>2. EInv /\ [Exploration!Next]_Exploration!vars => EInv'
  <2>1. ASSUME EInv, UNCHANGED Exploration!vars
        PROVE  EInv'
    BY <2>1 DEF Exploration!vars, EInv, Waiting, Ended, Followed, Errors
  <2> QED
    BY <2>1, ExplorationKeeps
<1>3. EInv => Exploration!Closed
  BY DEF Exploration!Closed, EInv, Waiting, Ended, Followed, Errors
<1> QED
  BY <1>1, <1>2, <1>3, Refinement, PTL DEF ExploresPaths, Exploration!Spec

----------------------------------------------------------------------------
(***************************************************************************)
(* Captured blocks hold the residual program: what is captured into the    *)
(* current block is what was captured so far on the run of its code point. *)
(***************************************************************************)

\* The block of the function entry is never left open for later.
EntryFirst == status = "running" /\ currentCapBB # 1 => capBB[1].endType # None

\* The current block holds what was captured along the run up to here.
CurrentOnRun ==
  Emulating =>
    LET b == capBB[currentCapBB]
    IN \E k \in 1 .. Len(RunOf(b)) :
         /\ RunOf(b)[k].pc = pc /\ RunOf(b)[k].es = es
         /\ Body(b) = HintsOf(currentCapBB) \o RunOf(b)[k].out

\* Emulation starts at the entry of the function.
CalledAtEntry == status = "called" => pc = func

\* The inductive invariant behind Residual.
TraceInv == CalledAtEntry /\ TableInv /\ EntryFirst /\ CurrentOnRun /\ Residual

\* What Residual says of block i.
ResidualOf(i) ==
  LET b == capBB[i]
      r == RunOf(b)
      q == r[Len(r)]
      o == OutcomeAt(code, q)
  IN b.endType # None =>
       /\ o.kind \in {"jcc", "ret"}
       /\ b.endType = Ret <=> o.kind = "ret"
       /\ Body(b) = HintsOf(i) \o q.out \o o.out
                      \o (IF o.kind = "ret" THEN o.fin ELSE << >>)
       /\ o.kind = "jcc" =>
            /\ b.endType = o.it
            /\ capBB[b.nextBranch].dec_addr = o.target
            /\ capBB[b.nextFallThrough].dec_addr = o.fall
            /\ Restores(savedState[capBB[b.nextBranch].esID], o.es)

\* Residual, block by block.
LEMMA ResidualByBlock ==
  Residual <=> (Sound => \A i \in 1 .. Len(capBB) : ResidualOf(i))
  BY DEF Residual, ResidualOf

\* Appending to a sequence leaves a range within it as it was, and extends one
\* that reaches its end.
LEMMA RangeFacts ==
  ASSUME NEW S, NEW s \in Seq(S), NEW t \in Seq(S), NEW i \in Nat, NEW n \in Nat
  PROVE  /\ n = 0 => SubSeq(s, i, i + n - 1) = << >>
         /\ n > 0 /\ i .. (i + n - 1) \subseteq 1 .. Len(s) =>
              /\ SubSeq(s \o t, i, i + n - 1) = SubSeq(s, i, i + n - 1)
              /\ SubSeq(s, i, i + n - 1) \in Seq(S)
              /\ Len(SubSeq(s, i, i + n - 1)) = n
         /\ n > 0 /\ i > 0 /\ i + n = Len(s) + 1 =>
              SubSeq(s \o t, i, i + n + Len(t) - 1) = SubSeq(s, i, i + n - 1) \o t
         /\ SubSeq(s \o t, Len(s) + 1, Len(s) + 1 + Len(t) - 1) = t
<1>1. n = 0 => SubSeq(s, i, i + n - 1) = << >>
  OBVIOUS
<1>2. ASSUME n > 0, i .. (i + n - 1) \subseteq 1 .. Len(s)
      PROVE  /\ SubSeq(s \o t, i, i + n - 1) = SubSeq(s, i, i + n - 1)
             /\ SubSeq(s, i, i + n - 1) \in Seq(S)
             /\ Len(SubSeq(s, i, i + n - 1)) = n
  <2>1. i \in 1 .. Len(s) /\ i + n - 1 \in 1 .. Len(s)
    <3>1. i \in i .. (i + n - 1) /\ i + n - 1 \in i .. (i + n - 1)
      BY <1>2
    <3> QED BY <3>1, <1>2
  <2> QED BY <1>2, <2>1
<1>3. ASSUME n > 0, i > 0, i + n = Len(s) + 1
      PROVE  SubSeq(s \o t, i, i + n + Len(t) - 1) = SubSeq(s, i, i + n - 1) \o t
  BY <1>3
<1>4. SubSeq(s \o t, Len(s) + 1, Len(s) + 1 + Len(t) - 1) = t
  OBVIOUS
<1> QED BY <1>1, <1>2, <1>3, <1>4

\* Capturing appends to the body of the current block, and to no other.
LEMMA ExtendedBody ==
  ASSUME TableInv, NEW ins, Extended(ins), capInstr' = capInstr \o ins,
         NEW cur, cur = currentCapBB
  PROVE  /\ Body(capBB[cur])' = Body(capBB[cur]) \o ins
         /\ Body(capBB[cur]) \in Seq(Instr) /\ Len(Body(capBB[cur])) <= Len(capInstr)
         /\ \A j \in 1 .. Len(capBB) : j # cur => Body(capBB[j])' = Body(capBB[j])
<1> DEFINE b == capBB[cur]
           c == capBB'[cur]
<1>1. /\ TypeOK /\ Sound /\ cur \in 1 .. Len(capBB) /\ Len(capBB) \in Nat /\ Emulating
      /\ \A j \in 1 .. Len(capBB) : capBB[j] \in CBB
      /\ PoolPartition /\ ins \in Seq(Instr)
  BY ExtendedFacts DEF Extended
<1>2. capInstr \in Seq(Instr) BY <1>1 DEF TypeOK
<1>3. b.instr \in Nat /\ b.count \in Nat /\ b \in CBB
  <2>1. b \in CBB BY <1>1
  <2> QED BY <2>1 DEF CBB
<1>4. /\ c.count = b.count + Len(ins)
      /\ c.instr = IF ins # << >> /\ b.count = 0 THEN Len(capInstr) + 1 ELSE b.instr
      /\ \A j \in 1 .. Len(capBB) : j # cur => capBB'[j] = capBB[j]
  BY DEF Extended
<1>5. /\ \A j \in 1 .. Len(capBB) : PoolRange(capBB[j]) \subseteq 1 .. Len(capInstr)
      /\ b.count > 0 => b.instr + b.count = Len(capInstr) + 1
  BY <1>1 DEF PoolPartition
<1>6. ASSUME NEW j \in 1 .. Len(capBB), j # cur PROVE Body(capBB[j])' = Body(capBB[j])
  <2>1. capBB'[j] = capBB[j] /\ capBB[j] \in CBB BY <1>1, <1>4, <1>6
  <2>2. capBB[j].instr \in Nat /\ capBB[j].count \in Nat BY <2>1 DEF CBB
  <2>3. capBB[j].count > 0 =>
          capBB[j].instr .. (capBB[j].instr + capBB[j].count - 1) \subseteq 1 .. Len(capInstr)
    BY <1>5, <2>2 DEF PoolRange
  <2>4. capInstr' \in Seq(Instr) BY <1>1, <1>2, ConcatFacts
  <2>5. CASE capBB[j].count = 0
    BY <1>1, <1>2, <2>1, <2>2, <2>4, <2>5, RangeFacts DEF Body
  <2>6. CASE capBB[j].count > 0
    <3> DEFINE x == capBB[j].instr
               n == capBB[j].count
    <3>1. x \in Nat /\ n \in Nat /\ n > 0 /\ x .. (x + n - 1) \subseteq 1 .. Len(capInstr)
      BY <2>2, <2>3, <2>6
    <3>2. Body(capBB[j])' = SubSeq(capInstr \o ins, x, x + n - 1)
      BY <2>1 DEF Body
    <3>3. Body(capBB[j]) = SubSeq(capInstr, x, x + n - 1) BY DEF Body
    <3> HIDE DEF x, n
    <3>4. SubSeq(capInstr \o ins, x, x + n - 1) = SubSeq(capInstr, x, x + n - 1)
      BY <1>1, <1>2, <3>1, RangeFacts
    <3> QED BY <3>2, <3>3, <3>4
  <2> QED BY <2>2, <2>5, <2>6
<1>7. CASE b.count = 0
  <2>1. Body(b) = << >> BY <1>2, <1>3, <1>7, RangeFacts, EmptyFacts DEF Body
  <2>2. Body(capBB[cur])' = ins
    <3>1. CASE ins = << >>
      <4>1. capInstr' \in Seq(Instr) /\ c.count = 0 /\ c.instr = b.instr
        BY <1>1, <1>2, <1>3, <1>4, <1>7, <3>1, ConcatFacts
      <4> QED BY <1>1, <1>3, <3>1, <4>1, RangeFacts DEF Body
    <3>2. CASE ins # << >>
      <4>1. c.count = Len(ins) /\ c.instr = Len(capInstr) + 1
        BY <1>1, <1>4, <1>7, <3>2
      <4> QED BY <1>1, <1>2, <4>1, RangeFacts DEF Body
    <3> QED BY <3>1, <3>2
  <2>3. Body(b) \in Seq(Instr) /\ Len(Body(b)) = 0 /\ Body(b) \o ins = ins
    BY <1>1, <2>1
  <2> QED BY <1>2, <1>6, <2>2, <2>3
<1>8. CASE b.count > 0
  <2>1. b.instr .. (b.instr + b.count - 1) \subseteq 1 .. Len(capInstr)
    BY <1>1, <1>5, <1>8 DEF PoolRange
  <2>2. b.instr > 0
    <3>1. b.instr \in b.instr .. (b.instr + b.count - 1) BY <1>3, <1>8
    <3> QED BY <2>1, <3>1
  <2> DEFINE x == b.instr
             n == b.count
             m == Len(ins)
  <2>3. /\ x \in Nat /\ n \in Nat /\ m \in Nat /\ n > 0 /\ x > 0 /\ x + n = Len(capInstr) + 1
        /\ x .. (x + n - 1) \subseteq 1 .. Len(capInstr)
        /\ c.instr = x /\ c.count = n + m
    BY <1>1, <1>3, <1>4, <1>5, <1>8, <2>1, <2>2
  <2>4. /\ Body(b) = SubSeq(capInstr, x, x + n - 1)
        /\ Body(capBB[cur])' = SubSeq(capInstr \o ins, x, x + (n + m) - 1)
    BY <2>3 DEF Body
  <2> HIDE DEF x, n
  <2>5. /\ SubSeq(capInstr \o ins, x, x + n + m - 1) = SubSeq(capInstr, x, x + n - 1) \o ins
        /\ SubSeq(capInstr, x, x + n - 1) \in Seq(Instr)
        /\ Len(SubSeq(capInstr, x, x + n - 1)) = n
    <3>1. capInstr \in Seq(Instr) /\ ins \in Seq(Instr) BY <1>1, <1>2
    <3> QED BY <2>3, <3>1, RangeFacts, SMTT(30)
  <2>6. x + (n + m) - 1 = x + n + m - 1 /\ n <= Len(capInstr)
    <3>1. Len(capInstr) \in Nat BY <1>2
    <3> HIDE DEF m
    <3> QED BY <2>3, <3>1
  <2> QED BY <1>6, <2>4, <2>5, <2>6
<1> QED BY <1>3, <1>7, <1>8

\* A block keeps its residual while others are extended.
LEMMA KeepsResidual ==
  ASSUME TableInv, Residual, NEW ins, Extended(ins), capInstr' = capInstr \o ins, code' = code,
         \A k \in 1 .. Len(savedState) : savedState'[k] = savedState[k],
         NEW i \in 1 .. Len(capBB), i # currentCapBB
  PROVE  ResidualOf(i)'
<1>1. /\ Sound /\ ResidualOf(i) /\ IInv /\ RefsValid /\ Len(capBB) \in Nat /\ WellLinked
  BY ExtendedFacts, ResidualByBlock DEF TableInv, IInv
<1>2. capBB'[i] = capBB[i] /\ Body(capBB[i])' = Body(capBB[i])
  <2>1. capBB'[i] = capBB[i] BY DEF Extended
  <2> QED BY <2>1, ExtendedBody
<1>3. capBB[i].esID \in 1 .. Len(savedState) BY <1>1 DEF RefsValid
<1>4. RunOf(capBB[i])' = RunOf(capBB[i]) BY <1>2, <1>3 DEF RunOf
<1>5. capBB[i].endType \notin {None, Ret} =>
        /\ capBB[i].nextBranch \in 1 .. Len(capBB)
        /\ capBB[i].nextFallThrough \in 1 .. Len(capBB)
  BY <1>1 DEF WellLinked
<1>6. \A j \in 1 .. Len(capBB) :
        /\ capBB'[j].dec_addr = capBB[j].dec_addr /\ capBB'[j].esID = capBB[j].esID
        /\ savedState'[capBB'[j].esID] = savedState[capBB[j].esID]
  BY <1>1 DEF Extended, RefsValid
<1> DEFINE b == capBB[i]
           r == RunOf(b)
           o == OutcomeAt(code, r[Len(r)])
<1>7. ASSUME b.endType # None, o.kind = "jcc"
      PROVE  /\ capBB'[b.nextBranch].dec_addr = o.target
             /\ capBB'[b.nextFallThrough].dec_addr = o.fall
             /\ Restores(savedState'[capBB'[b.nextBranch].esID], o.es)
  <2>1. b.endType # Ret BY <1>1, <1>7 DEF ResidualOf
  <2>2. b.nextBranch \in 1 .. Len(capBB) /\ b.nextFallThrough \in 1 .. Len(capBB)
    BY <1>5, <1>7, <2>1
  <2>3. /\ capBB[b.nextBranch].dec_addr = o.target
        /\ capBB[b.nextFallThrough].dec_addr = o.fall
        /\ Restores(savedState[capBB[b.nextBranch].esID], o.es)
    BY <1>1, <1>7 DEF ResidualOf
  <2> QED BY <1>6, <2>2, <2>3
<1> QED BY <1>1, <1>2, <1>4, <1>7 DEF ResidualOf

\* The place on the run that the engine has reached: where it emulates next, and
\* that it goes on along the run.
LEMMA OnRun ==
  ASSUME TraceInv, Emulating, NEW k \in 1 .. Len(RunOf(capBB[currentCapBB])),
         RunOf(capBB[currentCapBB])[k].pc = pc, RunOf(capBB[currentCapBB])[k].es = es
  PROVE  LET r == RunOf(capBB[currentCapBB])
         IN /\ IsRun(code, capBB[currentCapBB].dec_addr, savedState[capBB[currentCapBB].esID], r)
            /\ r[k] \in Place /\ OutcomeAt(code, r[k]) = Result
            /\ Result.kind # "step" => k = Len(r)
<1> DEFINE b == capBB[currentCapBB]
           r == RunOf(b)
<1>1. TypeOK /\ Sound /\ RefsValid /\ currentCapBB \in 1 .. Len(capBB)
  BY EmulatingFacts DEF TraceInv, TableInv, IInv
<1>2. /\ code \in Code /\ capBB \in Seq(CBB) /\ savedState \in Seq(State)
      /\ b.esID \in 1 .. Len(savedState)
  BY <1>1 DEF TypeOK, RefsValid
<1>3. b.dec_addr \in Addr /\ savedState[b.esID] \in State
  <2>1. b \in CBB BY <1>1, <1>2
  <2>2. b.dec_addr \in Addr BY <2>1 DEF CBB
  <2>3. savedState[b.esID] \in State BY <1>2
  <2> QED BY <2>2, <2>3
<1>4. IsRun(code, b.dec_addr, savedState[b.esID], r)
  BY <1>2, <1>3, RunAssumption DEF RunOf
<1> HIDE DEF r
<1>5. r \in Seq(Place) /\ Len(r) \in Nat
  BY <1>4 DEF IsRun
<1>6. r[k] \in Place BY <1>5 DEF r
<1>7. OutcomeAt(code, r[k]) = Result BY DEF OutcomeAt, Result, r
<1>8. ASSUME Result.kind # "step" PROVE k = Len(r)
  <2>1. k \notin 1 .. (Len(r) - 1) BY <1>4, <1>7, <1>8 DEF IsRun
  <2> QED BY <1>5, <2>1 DEF r
<1> QED BY <1>4, <1>6, <1>7, <1>8 DEF r

\* Concatenation is associative.
LEMMA ConcatAssoc ==
  ASSUME NEW S, NEW s \in Seq(S), NEW t \in Seq(S), NEW u \in Seq(S)
  PROVE  (s \o t) \o u = s \o (t \o u)
  OBVIOUS

\* The empty sequence adds nothing.
LEMMA ConcatEmpty ==
  ASSUME NEW S, NEW s \in Seq(S)
  PROVE  << >> \o s = s /\ s \o << >> = s
  OBVIOUS

\* The hints are instructions.
LEMMA HintsType == ASSUME NEW i PROVE HintsOf(i) \in Seq(Instr)
  BY CodeAssumption, EmptyFacts DEF HintsOf

\* Emulating on keeps the engine on the run of the current block.
LEMMA StepOnRun == TraceInv /\ EmulateStep => CurrentOnRun'
<1> SUFFICES ASSUME TraceInv, EmulateStep PROVE CurrentOnRun'
  OBVIOUS
<1>1. /\ Emulating /\ Result.kind = "step"
      /\ capInstr' = capInstr \o Result.out /\ es' = Result.es /\ pc' = Result.next
      /\ UNCHANGED << code, savedState, currentCapBB >>
      /\ TableInv /\ TableInv' /\ Extended(Result.out)
  BY EmulateStepTable, StepExtends DEF EmulateStep, TraceInv, TableInv
<1>2. PICK cur : cur = currentCapBB OBVIOUS
<1>3. PICK r : r = RunOf(capBB[cur]) OBVIOUS
<1>4. PICK k \in 1 .. Len(r) :
        /\ r[k].pc = pc /\ r[k].es = es
        /\ Body(capBB[cur]) = HintsOf(cur) \o r[k].out
  BY <1>1, <1>2, <1>3 DEF TraceInv, CurrentOnRun
<1>5. /\ IsRun(code, capBB[cur].dec_addr, savedState[capBB[cur].esID], r)
      /\ r[k] \in Place /\ OutcomeAt(code, r[k]) = Result
  BY <1>1, <1>2, <1>3, <1>4, OnRun
<1>6. /\ cur \in 1 .. Len(capBB) /\ Result.out \in Seq(Instr) /\ Emulating
  BY <1>1, <1>2, EmulatingFacts DEF TableInv
<1>7. RunOf(capBB[cur])' = r
  BY <1>1, <1>3, <1>6 DEF RunOf, Extended
<1> DEFINE q == NextPlace(code, r[k])
<1>8. /\ q.pc = Result.next /\ q.es = Result.es /\ q.out = r[k].out \o Result.out
  BY <1>5 DEF NextPlace
<1>9. r[k].out \in Seq(Instr) /\ HintsOf(cur) \in Seq(Instr)
  BY <1>5, HintsType DEF Place
<1>10. /\ Body(capBB[cur])' = Body(capBB[cur]) \o Result.out
       /\ q.out \in Seq(Instr)
  BY <1>1, <1>2, <1>6, <1>8, <1>9, ExtendedBody, ConcatFacts
<1>11. Body(capBB[cur])' = HintsOf(cur) \o q.out
  <2>1. (HintsOf(cur) \o r[k].out) \o Result.out = HintsOf(cur) \o (r[k].out \o Result.out)
    <3>1. HintsOf(cur) \in Seq(Instr) /\ r[k].out \in Seq(Instr) /\ Result.out \in Seq(Instr)
      BY <1>6, <1>9
    <3>2. \A s, t, u \in Seq(Instr) : (s \o t) \o u = s \o (t \o u) BY ConcatAssoc
    <3> QED BY <3>1, <3>2, Zenon
  <2> QED BY <1>4, <1>8, <1>10, <2>1
<1>12. Len(q.out) <= capInstrCapacity
  <2>1. Len(capInstr') <= capInstrCapacity BY <1>1 DEF TableInv, IInv, PoolBound
  <2>2. /\ Len(Body(capBB[cur])') = Len(Body(capBB[cur])) + Len(Result.out)
        /\ Len(Body(capBB[cur])') = Len(HintsOf(cur)) + Len(q.out)
        /\ Len(capInstr') = Len(capInstr) + Len(Result.out)
        /\ Len(Body(capBB[cur])) <= Len(capInstr)
    <3>1. /\ Body(capBB[cur]) \in Seq(Instr) /\ Len(Body(capBB[cur])) <= Len(capInstr)
      BY <1>1, <1>2, ExtendedBody
    <3>2. capInstr \in Seq(Instr) BY <1>1 DEF TableInv, IInv, TypeOK
    <3>3. Len(capInstr \o Result.out) = Len(capInstr) + Len(Result.out)
      BY <1>6, <3>2, ConcatFacts
    <3>4. Len(Body(capBB[cur]) \o Result.out) = Len(Body(capBB[cur])) + Len(Result.out)
      BY <1>6, <3>1, ConcatFacts
    <3>5. Len(HintsOf(cur) \o q.out) = Len(HintsOf(cur)) + Len(q.out)
      BY <1>9, <1>10, ConcatFacts
    <3> QED BY <1>1, <1>10, <1>11, <3>1, <3>3, <3>4, <3>5
  <2>3. /\ Len(HintsOf(cur)) \in Nat /\ Len(q.out) \in Nat /\ Len(Result.out) \in Nat
        /\ Len(capInstr) \in Nat /\ Len(Body(capBB[cur])) \in Nat
    <3>1. Body(capBB[cur]) \in Seq(Instr) BY <1>1, <1>2, ExtendedBody
    <3>2. capInstr \in Seq(Instr) BY <1>1 DEF TableInv, IInv, TypeOK
    <3> QED BY <1>6, <1>9, <1>10, <3>1, <3>2
  <2> DEFINE body == Len(Body(capBB[cur]))
             hints == Len(HintsOf(cur))
             all == Len(q.out)
             out == Len(Result.out)
             pool == Len(capInstr)
  <2>4. /\ body \in Nat /\ hints \in Nat /\ all \in Nat /\ out \in Nat /\ pool \in Nat
        /\ body + out = hints + all /\ body <= pool /\ pool + out <= capInstrCapacity
    BY <2>1, <2>2, <2>3
  <2> HIDE DEF body, hints, all, out, pool
  <2>5. all <= capInstrCapacity BY <2>4, BoundsAssumption
  <2> QED BY <2>5 DEF all
<1>13. \E n \in 1 .. Len(r) : r[n] = q
  <2>1. Len(r) \in Nat BY <1>5 DEF IsRun
  <2>2. CASE k = Len(r)
    <3>1. ~(Len(q.out) > capInstrCapacity)
      <4>1. Len(q.out) \in Nat BY <1>10
      <4> HIDE DEF q
      <4> QED BY <1>12, <4>1, BoundsAssumption
    <3> QED BY <1>1, <1>5, <2>2, <3>1 DEF IsRun
  <2>3. CASE k # Len(r)
    <3>1. k \in 1 .. (Len(r) - 1) /\ k + 1 \in 1 .. Len(r) BY <2>1, <2>3
    <3>2. r[k + 1] = q BY <1>5, <3>1 DEF IsRun
    <3> QED BY <3>1, <3>2
  <2> QED BY <2>2, <2>3
<1> HIDE DEF q
<1>14. PICK n \in 1 .. Len(r) : r[n] = q BY <1>13
<1>15. /\ r[n].pc = pc' /\ r[n].es = es'
       /\ Body(capBB[cur])' = HintsOf(cur) \o r[n].out
  BY <1>1, <1>8, <1>11, <1>14
<1>16. cur = currentCapBB' BY <1>1, <1>2
<1> QED BY <1>7, <1>15, <1>16 DEF CurrentOnRun

\* A state that was saved, or taken for one saved before, is restored.
LEMMA SavedRestores ==
  ASSUME TypeOK, NEW s \in State
  PROVE  /\ Restores(SavedAfter(s)[SaveID(s)], s)
         /\ \A k \in 1 .. Len(savedState) : SavedAfter(s)[k] = savedState[k]
<1>1. savedState \in Seq(State)
  BY DEF TypeOK
<1>2. CASE EqualSaved(s) = {}
  BY <1>1, <1>2 DEF SavedAfter, SaveID, Restores
<1>3. CASE EqualSaved(s) # {}
  <2>1. EqualSaved(s) \subseteq 1 .. Len(savedState) /\ Len(savedState) \in Nat
    BY <1>1 DEF EqualSaved
  <2>2. \E i \in EqualSaved(s) : \A j \in EqualSaved(s) : i <= j
    BY <1>3, <2>1, LeastElement
  <2>3. SaveID(s) \in EqualSaved(s)
    BY <1>3, <2>2 DEF SaveID
  <2>4. EsIsEqual(s, savedState[SaveID(s)], parent = "es")
    BY <2>3 DEF EqualSaved
  <2> QED
    BY <1>3, <2>4 DEF SavedAfter, Restores
<1> QED
  BY <1>2, <1>3

\* The block that ends holds all of its run.
LEMMA EndOfRun ==
  ASSUME TraceInv, NEW ins, Extended(ins), capInstr' = capInstr \o ins, code' = code,
         \A k \in 1 .. Len(savedState) : savedState'[k] = savedState[k],
         Result.kind \in {"jcc", "ret"},
         ins = Result.out \o (IF Result.kind = "ret" THEN Result.fin ELSE << >>),
         NEW cur, cur = currentCapBB
  PROVE  LET r == RunOf(capBB[cur])'
             q == r[Len(r)]
         IN /\ OutcomeAt(code', q) = Result
            /\ Body(capBB[cur])' = HintsOf(cur) \o q.out \o Result.out
                                   \o (IF Result.kind = "ret" THEN Result.fin ELSE << >>)
<1>1. Emulating /\ TableInv BY DEF Extended, TraceInv
<1>2. PICK r : r = RunOf(capBB[cur]) OBVIOUS
<1>3. PICK k \in 1 .. Len(r) :
        /\ r[k].pc = pc /\ r[k].es = es
        /\ Body(capBB[cur]) = HintsOf(cur) \o r[k].out
  BY <1>1, <1>2 DEF TraceInv, CurrentOnRun
<1>4. /\ r[k] \in Place /\ OutcomeAt(code, r[k]) = Result /\ k = Len(r)
  BY <1>1, <1>2, <1>3, OnRun
<1>5. /\ cur \in 1 .. Len(capBB) /\ Result.out \in Seq(Instr) /\ Result.fin \in Seq(Instr)
      /\ RefsValid /\ Sound
  BY <1>1, EmulatingFacts DEF TableInv, IInv
<1>6. RunOf(capBB[cur])' = r
  BY <1>2, <1>5 DEF RunOf, Extended, RefsValid
<1> DEFINE fin == IF Result.kind = "ret" THEN Result.fin ELSE << >>
<1>7. r[k].out \in Seq(Instr) /\ HintsOf(cur) \in Seq(Instr) /\ fin \in Seq(Instr)
  BY <1>4, <1>5, HintsType, EmptyFacts DEF Place
<1>8. ins = Result.out \o fin OBVIOUS
<1> HIDE DEF fin
<1>9. Body(capBB[cur])' = (HintsOf(cur) \o r[k].out) \o (Result.out \o fin)
  BY <1>1, <1>3, <1>8, ExtendedBody
<1>10. HintsOf(cur) \o r[k].out \in Seq(Instr) BY <1>7, ConcatFacts
<1>11. Body(capBB[cur])' = ((HintsOf(cur) \o r[k].out) \o Result.out) \o fin
  <2>1. (HintsOf(cur) \o r[k].out) \o (Result.out \o fin)
          = ((HintsOf(cur) \o r[k].out) \o Result.out) \o fin
    <3>1. HintsOf(cur) \o r[k].out \in Seq(Instr) /\ fin \in Seq(Instr) /\ Result.out \in Seq(Instr)
      BY <1>5, <1>7, <1>10
    <3>2. \A s, t, u \in Seq(Instr) : (s \o t) \o u = s \o (t \o u) BY ConcatAssoc
    <3> QED BY <3>1, <3>2, Zenon
  <2> QED BY <1>9, <2>1
<1> QED BY <1>4, <1>6, <1>11 DEF fin

\* The entry block is ended before another one becomes current.
LEMMA EntryKept ==
  ASSUME TraceInv, NEW ins, Extended(ins) PROVE EntryFirst'
<1> SUFFICES ASSUME currentCapBB' # 1 PROVE capBB'[1].endType # None
  BY DEF EntryFirst
<1>1. /\ status = "running" /\ currentCapBB \in 1 .. Len(capBB) /\ Len(capBB) \in Nat
  BY ExtendedFacts DEF TraceInv
<1>2. CASE currentCapBB = 1
  BY <1>1, <1>2 DEF Extended
<1>3. CASE currentCapBB # 1
  <2>1. capBB[1].endType # None BY <1>1, <1>3 DEF TraceInv, EntryFirst
  <2>2. 1 \in 1 .. Len(capBB) BY <1>1
  <2> QED BY <1>3, <2>1, <2>2 DEF Extended
<1> QED BY <1>2, <1>3

\* Extending the current block keeps the residuals of the others.
LEMMA OthersKept ==
  ASSUME TraceInv, NEW ins, Extended(ins), capInstr' = capInstr \o ins, code' = code,
         \A k \in 1 .. Len(savedState) : savedState'[k] = savedState[k],
         NEW cur, cur = currentCapBB, ResidualOf(cur)' \/ capBB'[cur].endType = None
  PROVE  Residual'
<1>1. /\ Len(capBB) \in Nat /\ Len(capBB') \in Nat /\ TableInv /\ Residual
  BY ExtendedFacts DEF TraceInv
<1>2. ASSUME NEW i \in 1 .. Len(capBB') PROVE ResidualOf(i)'
  <2>1. CASE i > Len(capBB)
    <3>1. capBB'[i].endType = None BY <2>1 DEF Extended
    <3> QED BY <3>1 DEF ResidualOf
  <2>2. CASE i = cur BY <2>2 DEF ResidualOf
  <2>3. CASE ~(i > Len(capBB)) /\ i # cur
    <3>1. i \in 1 .. Len(capBB) BY <1>1, <2>3
    <3> QED BY <1>1, <2>3, <3>1, KeepsResidual
  <2> QED BY <2>1, <2>2, <2>3
<1> QED BY <1>2 DEF Residual, ResidualOf

\* Emulating on.
LEMMA StepTrace == TraceInv /\ EmulateStep => TraceInv'
<1> SUFFICES ASSUME TraceInv, EmulateStep PROVE TraceInv'
  OBVIOUS
<1>1. /\ capInstr' = capInstr \o Result.out
      /\ UNCHANGED << code, savedState, currentCapBB >>
      /\ TableInv' /\ Extended(Result.out)
  BY EmulateStepTable, StepExtends DEF EmulateStep, TraceInv, TableInv
<1>2. PICK cur : cur = currentCapBB OBVIOUS
<1>3. capBB'[cur].endType = None
  <2>1. Emulating' /\ IInv'
    BY <1>1 DEF EmulateStep, Emulating, TableInv
  <2> QED BY <1>1, <1>2, <2>1 DEF IInv, StackDiscipline
<1>4. Residual' BY <1>1, <1>2, <1>3, OthersKept
<1>5. CalledAtEntry'
  BY DEF EmulateStep, Emulating, CalledAtEntry
<1> QED BY <1>1, <1>4, <1>5, StepOnRun, EntryKept DEF TraceInv

\* A conditional jump ends the block; it goes on where the run goes on.
LEMMA JccTrace == TraceInv /\ EmulateJcc => TraceInv'
<1> SUFFICES ASSUME TraceInv, EmulateJcc PROVE TraceInv'
  OBVIOUS
<1>1. /\ AtJcc /\ Emulating /\ capInstr' = capInstr \o Result.out /\ code' = code
      /\ savedState' = SavedAfter(Result.es) /\ Result.kind = "jcc"
      /\ capBB' = LinkedTable /\ currentCapBB' = 0
      /\ TableInv /\ TableInv' /\ Extended(Result.out)
  BY EmulateJccTable, JccExtends DEF EmulateJcc, AtJcc, TraceInv, TableInv
<1>2. PICK cur : cur = currentCapBB OBVIOUS
<1>3. TypeOK /\ Result.es \in State /\ Result.it \in JccType /\ Result.out \in Seq(Instr)
  BY <1>1, EmulatingFacts DEF TableInv
<1>4. /\ Restores(savedState'[JccID], Result.es)
      /\ \A k \in 1 .. Len(savedState) : savedState'[k] = savedState[k]
  BY <1>1, <1>3, SavedRestores DEF JccID
<1>5. /\ capBB'[cur].endType = Result.it
      /\ capBB'[cur].nextBranch = NextBR /\ capBB'[cur].nextFallThrough = NextFT
      /\ capBB'[NextBR].dec_addr = Result.target /\ capBB'[NextBR].esID = JccID
      /\ capBB'[NextFT].dec_addr = Result.fall
  BY <1>1, <1>2, JccTable DEF TableInv
<1>6. LET r == RunOf(capBB[cur])'
          q == r[Len(r)]
      IN /\ OutcomeAt(code', q) = Result
         /\ Body(capBB[cur])' = HintsOf(cur) \o q.out \o Result.out
                   \o (IF Result.kind = "ret" THEN Result.fin ELSE << >>)
  <2>1. Result.out = Result.out \o (IF Result.kind = "ret" THEN Result.fin ELSE << >>)
    BY <1>1, <1>3, ConcatEmpty
  <2> QED BY <1>1, <1>2, <1>4, <2>1, EndOfRun
<1>7. Result.it # Ret BY <1>3, CodeAssumption
<1>8. ResidualOf(cur)'
  BY <1>1, <1>4, <1>5, <1>6, <1>7 DEF ResidualOf
<1>9. Residual' BY <1>1, <1>2, <1>4, <1>8, OthersKept
<1>10. CurrentOnRun' BY <1>1 DEF CurrentOnRun, Emulating
<1>11. CalledAtEntry'
  BY DEF EmulateJcc, AtJcc, Emulating, CalledAtEntry
<1> QED BY <1>1, <1>9, <1>10, <1>11, EntryKept DEF TraceInv

\* After an error nothing is said of the blocks.
LEMMA FailedTrace ==
  ASSUME TableInv', status' \in Errors PROVE TraceInv'
  BY DEF TraceInv, Residual, CurrentOnRun, EntryFirst, Sound, Emulating, Errors, CalledAtEntry

\* The return ends the block with what is captured for it.
LEMMA RetTrace == TraceInv /\ EmulateRet => TraceInv'
<1> SUFFICES ASSUME TraceInv, EmulateRet PROVE TraceInv'
  OBVIOUS
<1>1. /\ Emulating /\ code' = code /\ savedState' = savedState /\ Result.kind = "ret"
      /\ TableInv /\ TableInv' /\ IInv
  BY EmulateRetTable DEF EmulateRet, TraceInv, TableInv
<1> DEFINE ins == Result.out \o Result.fin
<1>2. CASE Room(ins)
  <2>1. /\ capInstr' = capInstr \o ins /\ currentCapBB' = 0 /\ status' = status
        /\ capBB' = [Captured(capBB, currentCapBB, ins) EXCEPT ![currentCapBB].endType = Ret]
    BY <1>2 DEF EmulateRet
  <2>2. status' # "Too many captured instructions"
    BY <1>1, <2>1 DEF Emulating
  <2>3. Extended(ins) BY <1>1, <2>2, RetExtends
  <2>4. PICK cur : cur = currentCapBB OBVIOUS
  <2> HIDE DEF ins
  <2>5. capBB'[cur].endType = Ret
    <3>1. /\ cur \in 1 .. Len(capBB) /\ ins \in Seq(Instr)
          /\ capBB \in Seq(CBB) /\ capInstr \in Seq(Instr)
      BY <1>1, <2>3, <2>4, EmulatingFacts DEF Extended, TypeOK
    <3>2. Captured(capBB, cur, ins) \in Seq(CBB) /\ Len(Captured(capBB, cur, ins)) = Len(capBB)
      BY <3>1, CapturedFacts
    <3>3. Captured(capBB, cur, ins)[cur] \in CBB BY <3>1, <3>2
    <3>4. [Captured(capBB, cur, ins)[cur] EXCEPT !.endType = Ret].endType = Ret
      BY <3>3 DEF CBB
    <3> QED BY <2>1, <2>4, <3>1, <3>2, <3>4
  <2>6. LET r == RunOf(capBB[cur])'
            q == r[Len(r)]
        IN /\ OutcomeAt(code', q) = Result
           /\ Body(capBB[cur])' = HintsOf(cur) \o q.out \o Result.out
                     \o (IF Result.kind = "ret" THEN Result.fin ELSE << >>)
    <3>1. ins = Result.out \o (IF Result.kind = "ret" THEN Result.fin ELSE << >>)
      BY <1>1 DEF ins
    <3> QED BY <1>1, <2>1, <2>3, <2>4, <3>1, EndOfRun
  <2>7. ResidualOf(cur)'
    <3>1. "ret" # "jcc" OBVIOUS
    <3> QED BY <1>1, <2>5, <2>6, <3>1 DEF ResidualOf
  <2>8. Residual' BY <1>1, <2>1, <2>3, <2>4, <2>7, OthersKept
  <2>9. CurrentOnRun' BY <2>1 DEF CurrentOnRun, Emulating
  <2>10. CalledAtEntry' BY <1>1, <2>1 DEF Emulating, CalledAtEntry
  <2> QED BY <1>1, <2>3, <2>8, <2>9, <2>10, EntryKept DEF TraceInv
<1>3. CASE ~Room(ins)
  <2>1. status' \in Errors BY <1>3 DEF EmulateRet, Errors
  <2> QED BY <1>1, <2>1, FailedTrace
<1> QED BY <1>2, <1>3

\* The entry block starts with the hints.
LEMMA StartTrace == TraceInv /\ Start => TraceInv'
<1> SUFFICES ASSUME TraceInv, Start PROVE TraceInv'
  OBVIOUS
<1>1. /\ TableInv' /\ TypeOK /\ capInstr = << >> /\ savedState' = << es >>
      /\ code' = code /\ es' = es /\ pc' = pc
  BY StartTable DEF TraceInv, TableInv, IInv, ResetBefore, Start
<1>2. CASE capBBCapacity = 0 \/ ~Room(Hints)
  <2>1. status' \in Errors BY <1>2 DEF Start, Errors
  <2> QED BY <1>1, <2>1, FailedTrace
<1>3. CASE capBBCapacity # 0 /\ Room(Hints)
  <2> DEFINE entry == << NewCBB(func, 1) >>
  <2>1. /\ capBB' = Captured(entry, 1, Hints) /\ capInstr' = capInstr \o Hints
        /\ currentCapBB' = 1 /\ status' = "running"
    BY <1>3 DEF Start, PoolAfter
  <2>2. /\ entry \in Seq(CBB) /\ Len(entry) = 1 /\ entry[1] = NewCBB(func, 1)
        /\ Hints \in Seq(Instr) /\ capInstr \in Seq(Instr) /\ Len(capInstr) = 0
    <3>1. NewCBB(func, 1) \in CBB
      BY CodeAssumption DEF NewCBB, CBB
    <3> QED BY <1>1, <3>1, CodeAssumption, SingletonFacts DEF TypeOK
  <2>3. /\ entry[1].endType = None /\ entry[1].count = 0 /\ entry[1].instr = 0
        /\ entry[1].dec_addr = func /\ entry[1].esID = 1
    BY <2>2 DEF NewCBB
  <2> HIDE DEF entry
  <2>4. 1 \in 1 .. Len(entry) BY <2>2
  <2>5. /\ Len(capBB') = 1 /\ capBB'[1].endType = None
        /\ capBB'[1].dec_addr = func /\ capBB'[1].esID = 1
    <3> DEFINE new == Captured(entry, 1, Hints)
    <3>1. /\ Len(new) = Len(entry)
          /\ \A j \in 1 .. Len(entry) :
               /\ new[j].endType = entry[j].endType
               /\ new[j].dec_addr = entry[j].dec_addr
               /\ new[j].esID = entry[j].esID
      BY <2>2, <2>4, CapturedFacts
    <3>2. capBB' = new BY <2>1
    <3> HIDE DEF new
    <3> QED BY <2>2, <2>3, <2>4, <3>1, <3>2
  <2>6. /\ capBB'[1].count = Len(Hints)
        /\ capBB'[1].instr = IF Hints # << >> THEN 1 ELSE 0
    <3>1. /\ capBB'[1].count = entry[1].count + Len(Hints)
          /\ capBB'[1].instr = IF Hints # << >> /\ entry[1].count = 0
                               THEN Len(capInstr) + 1 ELSE entry[1].instr
      BY <2>1, <2>2, <2>4, CapturedPool
    <3> QED BY <2>2, <2>3, <3>1
  <2>7. Body(capBB[1])' = Hints
    <3>1. capInstr' = Hints BY <1>1, <2>1, <2>2, ConcatEmpty
    <3>2. Body(capBB[1])' = SubSeq(Hints, capBB'[1].instr, capBB'[1].instr + capBB'[1].count - 1)
      BY <3>1 DEF Body
    <3>3. CASE Hints = << >>
      <4>1. SubSeq(Hints, 0, 0 + 0 - 1) = << >> BY <2>2, RangeFacts
      <4>2. Len(Hints) = 0 BY <3>3
      <4> QED BY <2>6, <3>2, <3>3, <4>1, <4>2
    <3>4. CASE Hints # << >>
      <4>1. 1 + Len(Hints) - 1 = Len(Hints) /\ SubSeq(Hints, 1, Len(Hints)) = Hints BY <2>2
      <4> QED BY <2>6, <3>2, <3>4, <4>1
    <3> QED BY <3>3, <3>4
  <2>8. pc' = func
    BY <1>1 DEF TraceInv, CalledAtEntry, Start
  <2>9. IsRun(code, func, es, Run(code, func, es))
    BY <1>1, CodeAssumption, RunAssumption DEF TypeOK
  <2>10. RunOf(capBB[1])' = Run(code, func, es)
    <3>1. << es >>[1] = es OBVIOUS
    <3> QED BY <1>1, <2>5, <3>1 DEF RunOf
  <2>11. CurrentOnRun'
    <3>1. PICK r : r = Run(code, func, es) OBVIOUS
    <3>2. 1 \in 1 .. Len(r) /\ r[1] = FirstPlace(func, es) BY <2>9, <3>1 DEF IsRun
    <3>3. r[1].pc = func /\ r[1].es = es /\ r[1].out = << >> BY <3>2 DEF FirstPlace
    <3>4. Hints \o << >> = Hints BY <2>2, ConcatEmpty
    <3>5. HintsOf(1) = Hints BY DEF HintsOf
    <3>6. Body(capBB[1])' = HintsOf(1) \o r[1].out BY <2>7, <3>3, <3>4, <3>5
    <3>7. /\ RunOf(capBB[1])' = r /\ r[1].pc = pc' /\ r[1].es = es'
      BY <1>1, <2>8, <2>10, <3>1, <3>3
    <3> QED BY <2>1, <3>2, <3>6, <3>7 DEF CurrentOnRun
  <2>12. Residual'
    <3>1. \A i \in 1 .. Len(capBB') : capBB'[i].endType = None BY <2>5
    <3> QED BY <3>1 DEF Residual
  <2>13. EntryFirst' BY <2>1 DEF EntryFirst
  <2>14. CalledAtEntry' BY <2>1 DEF CalledAtEntry
  <2> QED BY <1>1, <2>11, <2>12, <2>13, <2>14 DEF TraceInv
<1> QED BY <1>2, <1>3

\* The block opened is empty, and starts where its run starts.
LEMMA OpenNextTrace == TraceInv /\ OpenNext => TraceInv'
<1> SUFFICES ASSUME TraceInv, OpenNext PROVE TraceInv'
  OBVIOUS
<1>1. /\ IInv /\ TableInv' /\ IInv' /\ status = "running" /\ currentCapBB = 0 /\ Sound
      /\ UNCHANGED << code, capBB, capInstr, savedState >>
  BY OpenNextTable DEF TraceInv, TableInv, OpenNext, PathEnded, Sound
<1>2. Residual'
  <2>1. Residual /\ Sound BY <1>1 DEF TraceInv
  <2> QED BY <1>1, <2>1, ZenonT(40) DEF Residual, RunOf, Body
<1>3. capBB[1].endType # None BY <1>1 DEF TraceInv, EntryFirst
<1>4. EntryFirst' BY <1>1, <1>3 DEF EntryFirst
<1>5. CASE ~Emulating'
  BY <1>1, <1>2, <1>4, <1>5 DEF TraceInv, CurrentOnRun, CalledAtEntry, OpenNext
<1>6. CASE Emulating'
  <2>1. PICK c : c = currentCapBB' OBVIOUS
  <2>2. OpenOnStack # {}
    BY <1>1, <1>6 DEF OpenNext, Emulating
  <2>3. /\ es' = savedState[capBB[c].esID] /\ pc' = capBB[c].dec_addr /\ status' = status
    BY <2>1, <2>2 DEF OpenNext
  <2>4. c \in 1 .. Len(capBB) /\ capBB[c].endType = None
    BY <1>1, <1>6, <2>1 DEF IInv, StackDiscipline
  <2>5. capBB[c].count = 0
    <3>1. c # currentCapBB BY <1>1, <2>4
    <3> QED BY <1>1, <2>4, <3>1 DEF TraceInv, TableInv, EmptyUntilOpened
  <2>6. c # 1 BY <1>3, <2>4
  <2>7. /\ TypeOK /\ capBB[c] \in CBB /\ capBB[c].esID \in 1 .. Len(savedState)
    BY <1>1, <2>4 DEF IInv, TypeOK, RefsValid
  <2>8. /\ code \in Code /\ capBB[c].dec_addr \in Addr /\ capBB[c].instr \in Nat
        /\ savedState[capBB[c].esID] \in State /\ capInstr \in Seq(Instr)
    <3>1. code \in Code /\ savedState \in Seq(State) /\ capInstr \in Seq(Instr)
      BY <2>7 DEF TypeOK
    <3>2. capBB[c].dec_addr \in Addr /\ capBB[c].instr \in Nat BY <2>7 DEF CBB
    <3> QED BY <2>7, <3>1, <3>2
  <2>9. IsRun(code, capBB[c].dec_addr, savedState[capBB[c].esID], RunOf(capBB[c]))
    BY <2>8, RunAssumption DEF RunOf
  <2>10. Body(capBB[c]) = << >>
    BY <2>5, <2>8, RangeFacts, EmptyFacts DEF Body
  <2>11. PICK r : r = RunOf(capBB[c]) OBVIOUS
  <2>12. 1 \in 1 .. Len(r) /\ r[1] = FirstPlace(capBB[c].dec_addr, savedState[capBB[c].esID])
    BY <2>9, <2>11 DEF IsRun
  <2>13. r[1].pc = pc' /\ r[1].es = es' /\ r[1].out = << >> BY <2>3, <2>12 DEF FirstPlace
  <2>14. RunOf(capBB[c])' = r /\ Body(capBB[c])' = << >>
    BY <1>1, <2>10, <2>11 DEF RunOf, Body
  <2>15. HintsOf(c) \o r[1].out = << >>
    BY <2>6, <2>13 DEF HintsOf
  <2>16. CurrentOnRun' BY <2>1, <2>12, <2>13, <2>14, <2>15 DEF CurrentOnRun
  <2>17. CalledAtEntry' BY <1>1, <2>3 DEF CalledAtEntry
  <2> QED BY <1>1, <1>2, <1>4, <2>16, <2>17 DEF TraceInv
<1> QED BY <1>5, <1>6

\* TraceInv is an inductive invariant of the engine.
THEOREM TraceInvariant == Spec => []TraceInv
<1>1. Init => TraceInv
  <2> SUFFICES ASSUME Init PROVE TraceInv
    OBVIOUS
  <2>1. capBB = << >> /\ status = "called" /\ pc = func BY DEF Init
  <2>2. Len(capBB) = 0 BY <2>1
  <2> QED BY <2>1, <2>2, InitTable
      DEF TraceInv, EntryFirst, CurrentOnRun, Emulating, Residual, CalledAtEntry
<1>2. TraceInv /\ [Next]_vars => TraceInv'
  <2> SUFFICES ASSUME TraceInv, [Next]_vars PROVE TraceInv'
    OBVIOUS
  <2>1. CASE EmulateJccError
    <3>1. TableInv' BY <2>1, EmulateJccErrorTable DEF TraceInv
    <3> QED BY <2>1, <3>1, FailedTrace DEF EmulateJccError, Errors
  <2>2. CASE EmulateError
    <3>1. TableInv' BY <2>2, EmulateErrorTable DEF TraceInv
    <3> QED BY <2>2, <3>1, FailedTrace DEF EmulateError, Errors
  <2>3. CASE UNCHANGED vars
    <3>1. TableInv' BY <2>3, StutterTable DEF TraceInv
    <3>2. CalledAtEntry' /\ EntryFirst' BY <2>3 DEF TraceInv, vars, EntryFirst, CalledAtEntry
    <3>3. CurrentOnRun' BY <2>3 DEF TraceInv, vars, CurrentOnRun, Emulating, RunOf, Body
    <3>4. Residual'
      <4>1. Residual /\ UNCHANGED << code, capBB, capInstr, savedState, status >>
        BY <2>3 DEF TraceInv, vars
      <4> QED BY <4>1, ZenonT(40) DEF Residual, Sound, RunOf, Body
    <3> QED BY <3>1, <3>2, <3>3, <3>4 DEF TraceInv
  <2> QED BY <2>1, <2>2, <2>3, StartTrace, OpenNextTrace, StepTrace, JccTrace, RetTrace DEF Next
<1> QED BY <1>1, <1>2, PTL DEF Spec

\* Captured blocks are residuals of the original program: each holds what the
\* emulator captures from its address in its saved state, in order, and goes on
\* where the emulator stops for want of knowledge, in the state it is in then.
THEOREM BlocksAreResiduals == Spec => []Residual
<1>1. TraceInv => Residual
  BY DEF TraceInv
<1> QED
  BY <1>1, TraceInvariant, PTL
=============================================================================
