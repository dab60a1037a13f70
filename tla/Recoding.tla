------------------------------ MODULE Recoding ------------------------------
(***************************************************************************)
(* From machine code to instructions and back: a function is set, its      *)
(* blocks are decoded, the first is captured as it is (createCBBfromDBB,   *)
(* emulate.c) and generated into the code storage (generate, generate.c),  *)
(* and the generated code is decoded again, as tests/test-driver-gen.c     *)
(* does to print it.  Then another function may be set.                    *)
(***************************************************************************)
EXTENDS Decoder, Generator

CONSTANTS
  Programs,           \* machine code of functions: sequences of bytes
  Again,              \* those that are set one after the other
  FuncAddr,           \* where a function starts
  buf, fullsize,     \* the code storage: r->cs->buf, r->cs->fullsize
  capInstrCapacity    \* instructions that can be captured

ASSUME RecodingAssumption ==
  /\ Again \subseteq Programs /\ \A p \in Programs : p \in Seq(0 .. 255)
  /\ FuncAddr \in Nat \ {0} /\ buf \in Nat \ {0}
  /\ fullsize \in Nat /\ capInstrCapacity \in Nat

VARIABLES
  phase,     \* "idle", "decode", "generate", "redecode" or "done"
  func,      \* the program at FuncAddr
  cbb,       \* the captured block: instructions, addr1 and size
  used,      \* r->cs->used
  genError   \* of generate: "none", "UnsupportedInstr" or "UnsupportedOperands"

vars == << mem, decInstr, decBB, cxt, status, phase, func, cbb, used, genError >>

NoCBB == [ instr |-> << >>, addr1 |-> 0, size |-> -1, done |-> 0 ]

----------------------------------------------------------------------------
IfSet(x, S) == IF x THEN S ELSE {}

Load(m, a, bytes) ==
  [x \in DOMAIN m \cup a .. (a + Len(bytes) - 1) |->
     IF x \in a .. (a + Len(bytes) - 1) THEN bytes[x - a + 1] ELSE m[x]]

Init ==
  /\ DecoderInit(<< >>)
  /\ phase = "idle" /\ func = << >> /\ cbb = NoCBB /\ used = 0 /\ genError = "none"

\* dbrew_set_function: initRewriter forgets blocks, also the captured one, and
\* the code in the storage, which stays there.
SetFunction ==
  /\ phase \in {"idle", "done"}
  /\ ResetDecoder
  /\ \E p \in IF phase = "idle" THEN Programs ELSE IfSet(func \in Again, Again) :
       /\ func' = p
       /\ mem' = Load([a \in DOMAIN mem \ FuncAddr .. (buf - 1) |-> mem[a]], FuncAddr, p)
  /\ phase' = "decode" /\ cbb' = NoCBB /\ used' = 0 /\ genError' = "none"

IsJcc(i)     == i.type \in Range(JccTypes)
EndsBlock(i) == IsJcc(i) \/ i.type \in {"RET", "JMP", "JMPI", "CALL"}

\* Where execution goes on after a decoded block: at the target of a direct
\* jump or call, and behind a conditional jump.
Successors(b) ==
  IF b.count = 0 THEN {}
  ELSE LET i == Last(InstrsOf(b))
       IN IfSet(EndsBlock(i) /\ Dst(i).kind = "Imm", {Number(Low(Dst(i).val, 4))})
          \cup IfSet(IsJcc(i), {i.addr + i.len})

DecodeFunction ==
  /\ phase = "decode"
  /\ \E f \in {FuncAddr} \cup UNION { Successors(decBB[k]) : k \in DOMAIN decBB } :
       f \in DOMAIN mem /\ StartDecode(f)
  /\ UNCHANGED << phase, func, cbb, used, genError >>

Decode ==
  /\ DecodeStep
  /\ UNCHANGED << phase, func, cbb, used, genError >>

\* createCBBfromDBB: what does not fit is not captured, and nobody notices.
CreateCBB ==
  /\ phase = "decode" /\ status = "ready" /\ Cached(FuncAddr)
  /\ LET is == InstrsOf(Block(FuncAddr))
     IN cbb' = [NoCBB EXCEPT !.instr = SubSeq(is, 1, IF Len(is) < capInstrCapacity
                                                    THEN Len(is) ELSE capInstrCapacity)]
  /\ phase' = "generate"
  /\ UNCHANGED << mem, decInstr, decBB, cxt, status, func, used, genError >>

----------------------------------------------------------------------------
Generating == phase = "generate" /\ status = "ready" /\ cbb.done < Len(cbb.instr)
Room       == fullsize - used >= 15

\* generate, one instruction: 15 bytes are reserved, what is generated is less.
store(code) ==
  /\ cbb' = [cbb EXCEPT !.instr[cbb.done + 1].addr = buf + used,
                        !.instr[cbb.done + 1].len = Len(code),
                        !.done = @ + 1]
  /\ mem' = Load(mem, buf + used, code)
  /\ used' = used + Len(code)
  /\ UNCHANGED << decInstr, decBB, cxt, status, phase, func, genError >>

\* Mutant: after an error the storage stays in use.
failKeepsCode(res) ==
  /\ genError' = IF res = "instr" THEN "UnsupportedInstr" ELSE "UnsupportedOperands"
  /\ cbb' = [cbb EXCEPT !.size = -1]
  /\ phase' = "done"
  /\ UNCHANGED << mem, decInstr, decBB, cxt, status, func, used >>

\* An error: the storage is used again from where the block started.
fail(res) ==
  /\ genError' = IF res = "instr" THEN "UnsupportedInstr" ELSE "UnsupportedOperands"
  /\ cbb' = [cbb EXCEPT !.size = -1]
  /\ used' = 0
  /\ phase' = "done"
  /\ UNCHANGED << mem, decInstr, decBB, cxt, status, func >>

\* The storage is exhausted, or an assertion fails: the process ends.
abort ==
  /\ status' = "aborted"
  /\ UNCHANGED << mem, decInstr, decBB, cxt, phase, func, cbb, used, genError >>

GenerateInstr ==
  /\ Generating
  /\ \E r \in { genOne(cbb.instr[cbb.done + 1]) } :
       \/ Room /\ r.res = "ok" /\ Len(r.code) < 15 /\ store(r.code)
       \/ Room /\ r.res \in {"instr", "operands"} /\ fail(r.res)
       \/ ~(Room /\ r.res # "abort" /\ Len(r.code) < 15) /\ abort

GenerateEnds ==
  /\ phase = "generate" /\ status = "ready" /\ cbb.done = Len(cbb.instr)
  /\ cbb' = [cbb EXCEPT !.size = used,
                        !.addr1 = IF cbb.instr = << >> THEN buf ELSE cbb.instr[1].addr]
  /\ phase' = "redecode"
  /\ UNCHANGED << mem, decInstr, decBB, cxt, status, func, used, genError >>

\* dbrew_decode_print of the generated code.
DecodeGenerated ==
  /\ phase = "redecode" /\ StartDecode(cbb.addr1)
  /\ UNCHANGED << phase, func, cbb, used, genError >>

Finish ==
  /\ phase = "redecode" /\ status = "ready" /\ Cached(cbb.addr1)
  /\ phase' = "done"
  /\ UNCHANGED << mem, decInstr, decBB, cxt, status, func, cbb, used, genError >>

Next ==
  \/ SetFunction \/ DecodeFunction \/ Decode \/ CreateCBB
  \/ GenerateInstr \/ GenerateEnds
  \/ DecodeGenerated \/ Finish

Spec == Init /\ [][Next]_vars

----------------------------------------------------------------------------
(***************************************************************************)
(* Properties                                                              *)
(***************************************************************************)
TypeOK ==
  /\ status \in {"ready", "decoding", "aborted"}
  /\ phase \in {"idle", "decode", "generate", "redecode", "done"}
  /\ func \in Seq(0 .. 255)
  /\ \A a \in DOMAIN mem : mem[a] \in 0 .. 255
  /\ Len(decInstr) <= decInstrCapacity /\ Len(decBB) <= decBBCapacity
  /\ \A k \in DOMAIN decInstr : /\ Len(decInstr[k].ops) <= 3
                                /\ decInstr[k].addr \in Nat /\ decInstr[k].len \in Nat
  /\ used \in 0 .. fullsize
  /\ genError \in {"none", "UnsupportedInstr", "UnsupportedOperands"}

\* Blocks whose decoding has ended.
Decoded == { decBB[k] : k \in IF status = "ready" THEN DOMAIN decBB ELSE {} }
Truncated(b) == b.instr + b.count > decInstrCapacity   \* the buffer was full

\* Emulation walks a block by the lengths of its instructions and asserts that it
\* is left by the last one only: instructions follow each other from the start
\* to the size of the block, and nothing but the last one changes control flow.
\* dbrew_decode, emulateAndCapture.
WellFormedBlocks ==
  \A b \in Decoded :
    LET is == InstrsOf(b)
    IN b.count > 0 =>
       /\ is[1].addr = b.addr
       /\ \A k \in 2 .. b.count : is[k].addr = is[k - 1].addr + is[k - 1].len
       /\ \A k \in 1 .. (b.count - 1) : ~EndsBlock(is[k]) /\ is[k].type # "Invalid"
       /\ ~Truncated(b) => /\ b.size = is[b.count].addr + is[b.count].len - b.addr
                           /\ EndsBlock(is[b.count]) \/ is[b.count].type = "Invalid"

\* Blocks are kept by address, also the code in the storage that is overwritten
\* for another function: no decoded instruction is one of former code.
\* dbrew_decode, initRewriter.
DecodedIsCurrent ==
  \A b \in Decoded : Len(decInstr) < decInstrCapacity =>
    \A i \in ToSet(InstrsOf(b)) :
      decodeInstr([Context EXCEPT !.f = b.addr, !.off = i.addr - b.addr]).ii = i

\* How a register is named by instructions without and with REX prefix.
SameReg(r, q) ==
  \/ r = q
  \/ {r.rt, q.rt} = {"RT_GP8", "RT_GP8Leg"} /\ r.ri = q.ri /\ r.ri < 4

SameOperand(o, p) ==
  /\ [o EXCEPT !.reg = NoReg] = [p EXCEPT !.reg = NoReg]
  /\ SameReg(o.reg, p.reg)

\* A register is cleared by XOR with itself.
Clears(i, j) ==
  /\ i.type = "MOV" /\ Dst(i).kind = "Reg" /\ Src(i).kind = "Imm" /\ Src(i).val = Zero
  /\ j.type = "XOR" /\ Dst(j) = Dst(i) /\ Src(j) = Dst(i)

SameInstr(i, j) ==
  \/ Clears(i, j)
  \/ /\ i.type = j.type /\ i.vtype = j.vtype
     /\ Len(i.ops) = Len(j.ops)
     /\ \A k \in DOMAIN i.ops : SameOperand(i.ops[k], j.ops[k])
     /\ [i.pt EXCEPT !.ps = @ \ {"2E"}] = [j.pt EXCEPT !.ps = @ \ {"2E"}]

\* What the generator is known to get wrong: conditional moves (see CMovsStay)
\* and products with three operands, where the immediate is dropped.
IsCMov(i) == i.type \in Range(CMovTypes)
Lossy(i)  == IsCMov(i) \/ (i.type = "IMUL" /\ Len(i.ops) = 3)

Recoded == phase = "done" /\ genError = "none" /\ status = "ready"

\* Decoding what was generated gives back the captured instructions, each with
\* the length that was generated for it: opcode, prefixes, ModRM, SIB, shortened
\* displacements and immediates are what they were meant to be.  Decoding it
\* fails no assertion, unless a buffer is full.
\* generate, dbrew_decode.
RoundTrip ==
  (\A k \in DOMAIN cbb.instr : ~Lossy(cbb.instr[k])) =>
  /\ phase = "redecode" /\ status = "aborted" =>
       Len(decBB) >= decBBCapacity \/ Len(decInstr) >= decInstrCapacity
  /\ Recoded =>
    LET b == Block(cbb.addr1)   is == InstrsOf(b)
    IN \A k \in DOMAIN cbb.instr :
         \/ Truncated(b) /\ k > Len(is)
         \/ /\ k \in DOMAIN is
            /\ SameInstr(cbb.instr[k], is[k])
            /\ is[k].addr = cbb.instr[k].addr /\ is[k].len = cbb.instr[k].len

\* Conditional moves are generated as conditional moves, as the comments of
\* genCMov say.
CMovsStay ==
  Recoded =>
    \A k \in DOMAIN cbb.instr :
      IsCMov(cbb.instr[k]) =>
        \E j \in ToSet(InstrsOf(Block(cbb.addr1))) :
          j.addr = cbb.instr[k].addr /\ SameInstr(cbb.instr[k], j)

\* Where the code of the first k instructions of the block ends.
GeneratedEnd(k) == IF k = 0 THEN buf ELSE cbb.instr[k].addr + cbb.instr[k].len

\* The storage in use is what was generated for the block, without gap and
\* within its limits; after an error nothing of the block is left in it.
\* generate, reserveCodeStorage.
StorageAccounted ==
  /\ used <= fullsize
  /\ genError # "none" => used = 0 /\ cbb.size = -1
  /\ genError = "none" =>
       /\ \A k \in 1 .. cbb.done : cbb.instr[k].addr = GeneratedEnd(k - 1)
       /\ buf + used = GeneratedEnd(cbb.done)
  /\ phase \in {"redecode", "done"} /\ genError = "none" =>
       cbb.size = used /\ cbb.done = Len(cbb.instr) /\ cbb.addr1 = buf
=============================================================================
