------------------------------ MODULE Rewriter ------------------------------
(***************************************************************************)
(* The life of rewriters: the calls of the API (dbrew.c) in any order, on  *)
(* a rewriter of the client and the default rewriter, and the rewriters    *)
(* made for vectorized variants of kernels (vector.c).  A rewriting goes   *)
(* from capturing (engine.c) over vectorization and the optimization pass  *)
(* to code generation; on the way, the rewriting of a kernel may start.    *)
(*                                                                         *)
(* Original functions are given by what rewriting them needs: instructions *)
(* of decoded blocks, and for every captured block the blocks emulated for *)
(* it and the instructions captured into it.  How these come about is the  *)
(* subject of Capture, Specialise, Decoder and Layout; this module is      *)
(* about the tables they share, and what is left in them by earlier calls. *)
(***************************************************************************)
EXTENDS Configuration, FiniteSetsExt

CONSTANTS
  Code,                \* function -> blocks, trace, adds, supported
  Targets,             \* functions the client sets
  Shared,              \* functions given to dbrew_rewrite_func
  DecodingCapacities,  \* arguments of dbrew_set_decoding_capacity
  CaptureCapacities,   \* arguments of dbrew_set_capture_capacity
  Default,             \* capacities of initRewriter where none is set
  PoolSize,            \* expressions in the pool
  GENORDER_MAX,        \* blocks in generation order
  MaxVectorBytes       \* maxVectorBytes()

Functions == DOMAIN Code
Capacities == {"decInstr", "decBB", "capInstr", "capBB", "code"}

NoFunc   == "none"
NoKernel == [ func |-> NoFunc, params |-> "None" ]

ASSUME RewriterAssumption ==
  /\ NoFunc \notin Functions /\ Targets \subseteq Functions /\ Shared \subseteq Functions
  /\ DecodingCapacities \subseteq [{"decInstr", "decBB"} -> Nat]
  /\ CaptureCapacities \subseteq [{"capInstr", "capBB", "code"} -> Nat]
  /\ Default \in [Capacities -> Nat \ {0}]
  /\ PoolSize \in Nat /\ GENORDER_MAX \in Nat \ {0} /\ MaxVectorBytes \in {16, 32}

\* What is emulated for a captured block, << function, number >> of each block, how
\* many instructions are captured into it, how many blocks it is the first to ask
\* for, its place in the table if it ends with a conditional jump (otherwise 0),
\* whether capturing it fails, and the kernel run on vectors at its end.
TraceBlocks ==
  [ dec : Seq(Functions \X Nat), out : Nat, new : Nat, jcc : Nat, error : BOOLEAN,
    kernel : {NoKernel} \cup [func : Functions, params : {"RV", "RVV", "RP"}] ]

\* Blocks asked for after k of the trace; capturing asks for the first one.
AskedFor(trace) ==
  LET asked[k \in 0 .. Len(trace)] == IF k = 0 THEN 1 ELSE asked[k - 1] + trace[k].new
  IN asked

\* Blocks that are emulated are those of a function, and what is captured next was
\* asked for before.
ASSUME CodeAssumption ==
  \A f \in Functions :
    /\ Code[f].blocks \in Seq(Nat \ {0}) \ {<< >>} /\ Code[f].supported \in BOOLEAN
    /\ Code[f].trace \in [BOOLEAN -> Seq(TraceBlocks) \ {<< >>}]
    /\ \A s \in BOOLEAN : \A k \in DOMAIN Code[f].trace[s] :
         /\ k <= AskedFor(Code[f].trace[s])[k - 1]
         /\ Code[f].trace[s][k].jcc <= AskedFor(Code[f].trace[s])[k - 1]
         /\ \A b \in Range(Code[f].trace[s][k].dec) : b[2] \in DOMAIN Code[b[1]].blocks

\* All blocks asked for are captured, unless an error ends that before.
ASSUME CompleteAssumption ==
  \A f \in Functions : \A s \in BOOLEAN :
    LET trace == Code[f].trace[s]
    IN AskedFor(trace)[Len(trace)] = Len(trace) \/ \E t \in Range(trace) : t.error

\* No kernel is run on vectors within itself, directly or in other kernels.
ASSUME KernelAssumption ==
  \A S \in SUBSET Functions : S # {} =>
    \E f \in S : \A s \in BOOLEAN : \A t \in Range(Code[f].trace[s]) : t.kernel.func \notin S

VARIABLES
  rw,        \* rewriters; 1 is the client's, 2 the default one, then variants
  frames,    \* rewritings that go on, the innermost one first
  returned   \* by the last rewriting that had all it needed

vars == << rw, frames, returned >>

Client          == 1
DefaultRewriter == 2
VR_None         == << 0, "None" >>     \* otherwise vector size and parameters
NoCode == [ func |-> NoFunc, static |-> FALSE, blocks |-> 0, size |-> 0, stale |-> FALSE,
            callees |-> {} ]

----------------------------------------------------------------------------
(***************************************************************************)
(* Rewriters                                                               *)
(***************************************************************************)

\* A new rewriter: no tables, capacities of 0.  "passes" is addInliningHints and
\* doCopyPass, next to each other.  "order" has the places in capBB of the blocks in
\* genOrder, which point there; of the places, "jccs" hold a block that ends with a
\* conditional jump, and "placed" one that has its final address.  Not in the code:
\* "ordered", with which static parameters blocks were put into the order, and
\* "fresh", which holds from setting a function until tables are used or dropped.
allocRewriter ==
  [ func |-> NoFunc, capacity |-> [c \in Capacities |-> 0],
    dec |-> FALSE, decInstrCount |-> 0, decBB |-> << >>,
    cap |-> FALSE, capInstrCount |-> 0, capBBCount |-> 0, capBB |-> << >>,
    genOrderCount |-> 0, order |-> {}, ordered |-> {}, jccs |-> {}, placed |-> {},
    passes |-> TRUE, cs |-> FALSE, code |-> NoCode, addr |-> "null", calls |-> {},
    cc |-> NoConfig, es |-> FALSE, ePool |-> 0, vreq |-> VR_None, vectorsize |-> 16,
    next |-> 0, dead |-> FALSE, fresh |-> FALSE ]

\* The process has ended, by an assertion or the use of a null pointer.
Dead(x) == [x EXCEPT !.dead = TRUE]

\* Mutant: the order of generated blocks is kept.
initKeepsOrder(x) ==
  LET allocated(c) == IF x.capacity[c] = 0 THEN Default[c] ELSE x.capacity[c]
      storage      == x.cs \/ allocated("code") > 0
  IN [x EXCEPT !.capacity = [c \in Capacities |-> allocated(c)],
               !.dec = TRUE, !.decInstrCount = 0, !.decBB = << >>,
               !.cap = TRUE, !.capInstrCount = 0, !.capBBCount = 0, !.capBB = << >>,
               !.cs = storage, !.addr = IF storage THEN "null" ELSE @]

\* Mutant: the address of generated code is kept.
initKeepsAddr(x) ==
  LET allocated(c) == IF x.capacity[c] = 0 THEN Default[c] ELSE x.capacity[c]
  IN [x EXCEPT !.capacity = [c \in Capacities |-> allocated(c)],
               !.dec = TRUE, !.decInstrCount = 0, !.decBB = << >>,
               !.cap = TRUE, !.capInstrCount = 0, !.capBBCount = 0, !.capBB = << >>,
               !.genOrderCount = 0, !.order = {}, !.ordered = {}, !.jccs = {}, !.placed = {},
               !.cs = x.cs \/ allocated("code") > 0]

\* Tables that are missing are allocated, and all of them emptied, but not the
\* pool of expressions.  Without storage the address of code stays.  What blocks
\* were matters only while they are in the order.
initRewriter(x) ==
  LET allocated(c) == IF x.capacity[c] = 0 THEN Default[c] ELSE x.capacity[c]
      storage      == x.cs \/ allocated("code") > 0
  IN [x EXCEPT !.capacity = [c \in Capacities |-> allocated(c)],
               !.dec = TRUE, !.decInstrCount = 0, !.decBB = << >>,
               !.cap = TRUE, !.capInstrCount = 0, !.capBBCount = 0, !.capBB = << >>,
               !.genOrderCount = 0, !.order = {}, !.ordered = {}, !.jccs = {}, !.placed = {},
               !.cs = storage, !.addr = IF storage THEN "null" ELSE @]

setFunction(x, f) ==
  [initRewriter(x) EXCEPT !.func = f, !.cc = cc_new, !.es = FALSE, !.fresh = TRUE]

\* Capacities c are set, without the tables: what counts entries of them stays.
Allotted(x, c) == [k \in Capacities |-> IF k \in DOMAIN c THEN c[k] ELSE x.capacity[k]]

setDecodingCapacity(x, c) ==
  [x EXCEPT !.capacity = Allotted(x, c), !.dec = FALSE, !.fresh = FALSE]
setCaptureCapacity(x, c) ==
  [x EXCEPT !.capacity = Allotted(x, c), !.cap = FALSE, !.cs = FALSE, !.code = NoCode,
            !.fresh = FALSE]

----------------------------------------------------------------------------
(***************************************************************************)
(* Decoding                                                                *)
(***************************************************************************)
Decoded(x, b) == { k \in DOMAIN x.decBB : x.decBB[k].block = b }
Length(b)     == Code[b[1]].blocks[b[2]]
Least(m, n)   == IF m < n THEN m ELSE n

\* dbrew_decode of block b, << function, number >>.  Without tables everything is
\* reset, in the middle of a rewriting also.  An instruction that does not fit
\* ends the block; of a block without instructions, the first one is asserted
\* to be at its address (and is read behind the array).
decode(x0, b) ==
  LET x    == [IF x0.dec THEN x0 ELSE initRewriter(x0) EXCEPT !.cc = cc_get(@)]
      n    == Least(Length(b), x.capacity["decInstr"] - x.decInstrCount)
  IN CASE x.dead \/ Decoded(x, b) # {} -> x
       [] ~x.dead /\ Decoded(x, b) = {} /\ (n = 0 \/ Len(x.decBB) >= x.capacity["decBB"]) -> Dead(x)
       [] OTHER -> [x EXCEPT !.decBB = Append(@, [ block |-> b, count |-> n ]),
                             !.decInstrCount = @ + n]

\* Emulation of a block goes on behind it.  If it is incomplete, that is where
\* nothing more can be decoded.
emulateBlock(x, b) ==
  LET y == decode(x, b)
  IN IF ~y.dead /\ \E k \in Decoded(y, b) : y.decBB[k].count < Length(b) THEN Dead(y) ELSE y

\* dbrew_decode_print of the first block: blocks decoded before are forgotten,
\* but not their instructions.
decodePrint(x, f) == [decode([x EXCEPT !.decBB = << >>], << f, 1 >>) EXCEPT !.fresh = FALSE]

----------------------------------------------------------------------------
(***************************************************************************)
(* Rewriting, step by step on a rewriter x                                 *)
(***************************************************************************)
Trace(x) == Code[x.func].trace[x.cc.static]

\* A hint is captured at the start of the function, for which no code is generated.
Hints(x) == IF x.passes THEN 1 ELSE 0

\* getCaptureBB, for n new blocks: the next places become blocks without an end and
\* without an address.
getCaptureBBs(x, n) ==
  LET asked == x.capBBCount + 1 .. x.capBBCount + n
  IN [x EXCEPT !.capBBCount = @ + n, !.jccs = @ \ asked, !.placed = @ \ asked]

\* emulateAndCapture, up to the first block.  Every parameter takes an expression.
resetCapturing(x) ==
  LET n == x.cc.parCount
      y == [getCaptureBBs([x EXCEPT !.capBBCount = 0], 1) EXCEPT
              !.es = TRUE, !.capBB = << >>, !.capInstrCount = Hints(x),
              !.calls = {}, !.ePool = @ + n, !.fresh = FALSE]
  IN IF x.func = NoFunc \/ ~x.cap \/ y.ePool > PoolSize THEN Dead(x) ELSE y

\* Room for n more captured instructions, and what is taken if there is not.
Fits(x, n)  == x.capInstrCount + n <= x.capacity["capInstr"]
Taken(x, n) == Least(x.capInstrCount + n, x.capacity["capInstr"])

\* What is captured for a block of the trace: instructions follow those before.
captureBlock(x, t) ==
  [getCaptureBBs(x, t.new) EXCEPT
     !.capBB = Append(@, [ instr |-> IF @ = << >> THEN 0 ELSE x.capInstrCount,
                           count |-> IF @ = << >> THEN t.out + Hints(x) ELSE t.out ]),
     !.capInstrCount = @ + t.out,
     !.jccs = @ \cup ({t.jcc} \ {0})]

\* Mutant: blocks are always taken to fit.
FailsByInstr(x, t) == t.error \/ ~Fits(x, t.out)

CaptureFails(x, t) ==
  t.error \/ ~Fits(x, t.out) \/ x.capBBCount + t.new > x.capacity["capBB"]

\* Mutant: the block refers to its copy before all of it is there.
copyEarly(x, i) ==
  [x EXCEPT !.capInstrCount = Taken(x, x.capBB[i].count),
            !.capBB[i].instr = x.capInstrCount]

\* The instructions of block i are copied: the block refers to the copy once that
\* is complete.
optPassCopy(x, i) ==
  LET n == x.capBB[i].count
  IN [x EXCEPT !.capInstrCount = Taken(x, n),
               !.capBB[i].instr = IF Fits(x, n) /\ n > 0 THEN x.capInstrCount ELSE @]

CopyFails(x, i) == x.passes /\ ~Fits(x, x.capBB[i].count)
optPass(x, i)   == IF x.passes THEN optPassCopy(x, i) ELSE x

\* vecPass copies all instructions of the only block, too.
vecPass(x) == optPassCopy(x, 1)

\* Packed addition is known for vectors of 16 bytes, and of 32 for the AVX form;
\* a result in a vector register is asserted where a pointer was given.
Unpacked(x) ==
  \/ Code[x.func].adds = "ADDSD" /\ x.vreq[1] = 32
  \/ Code[x.func].adds # "other" /\ x.vreq[2] = "RP"

\* Block i gets behind those in the order.
intoOrder(x, i) ==
  [x EXCEPT !.genOrderCount = @ + 1, !.order = @ \cup {i}, !.ordered = @ \cup {x.cc.static}]

\* The code of block i is put behind that of the blocks before.
generate(x, i) ==
  [intoOrder(x, i) EXCEPT
     !.code = [ func |-> x.func, static |-> x.cc.static, blocks |-> i,
                size |-> x.capBB[i].count + (IF i = 1 THEN -Hints(x) ELSE @.size),
                stale |-> FALSE, callees |-> x.calls ]]

\* Blocks of earlier rewritings in the order, which get their jumps again in pass 3.
Stale(x) == { s \in x.order \cap x.jccs : s > x.capBBCount }

\* The blocks are placed, and the jumps of all blocks in the order are written; those
\* of stale ones at their former places in the storage, where this code is now.
\* Behind the last block the order ends with 0; if it is full, that hits the passes.
link(x) ==
  [x EXCEPT !.placed = @ \cup DOMAIN x.capBB, !.code.stale = Stale(x) # {},
            !.addr = "code", !.passes = @ /\ x.genOrderCount < GENORDER_MAX]


\* Without room for code, or in the order, the process ends.
Overfull(x, i) ==
  \/ ~x.cs \/ x.genOrderCount >= GENORDER_MAX
  \/ generate(x, i).code.size > x.capacity["code"]

----------------------------------------------------------------------------
(***************************************************************************)
(* Variants of kernels for vectors                                         *)
(***************************************************************************)

\* The rewriters behind r in the list.
Related ==
  LET after[r \in 0 .. Len(rw)] ==
        IF r = 0 \/ rw[r].next = 0 THEN {} ELSE {rw[r].next} \cup after[rw[r].next]
  IN after

vreqOf(x, kernel) == << x.vectorsize, kernel.params >>

\* Mutant: the size of vectors is not compared.
VariantsByFunction(r, kernel) ==
  { q \in Related[r] : rw[q].func = kernel.func }

Variants(r, kernel) ==
  { q \in Related[r] : rw[q].vreq = vreqOf(rw[r], kernel) /\ rw[q].func = kernel.func }

ParCount(params) == IF params = "RVV" THEN 2 ELSE 1

\* convertToVector: a new rewriter of related ones.
newVariant(x, kernel) ==
  [setFunction([allocRewriter EXCEPT !.next = x.next], kernel.func) EXCEPT
     !.vreq = vreqOf(x, kernel), !.cc.parCount = ParCount(kernel.params)]

----------------------------------------------------------------------------
(***************************************************************************)
(* Calls of the API                                                        *)
(***************************************************************************)
Alive == \A r \in DOMAIN rw : ~rw[r].dead
Idle  == Alive /\ frames = << >>

\* Bound: the client's rewriter and the default one, which share nothing, are not
\* both used.
Unused(r) == rw[r].func = NoFunc

Init ==
  /\ rw = << allocRewriter, allocRewriter >>
  /\ frames = << >>
  /\ returned = "code"

\* A call that changes the client's rewriter to x and returns.
Change(x) ==
  /\ Idle /\ Unused(DefaultRewriter)
  /\ rw' = [rw EXCEPT ![Client] = x]
  /\ UNCHANGED << frames, returned >>
Configure(cc) == Change([rw[Client] EXCEPT !.cc = cc])
Config == cc_get(rw[Client].cc)

dbrew_set_decoding_capacity ==
  \E c \in DecodingCapacities : Change(setDecodingCapacity(rw[Client], c))
dbrew_set_capture_capacity ==
  \E c \in CaptureCapacities : Change(setCaptureCapacity(rw[Client], c))
dbrew_set_function == \E f \in Targets : Change(setFunction(rw[Client], f))
dbrew_set_vectorsize ==
  \E s \in {16, 32} : Change([rw[Client] EXCEPT !.vectorsize = Least(s, MaxVectorBytes)])
dbrew_decode_print == \E f \in Targets : Change(decodePrint(rw[Client], f))

dbrew_config_reset     == Configure(cc_new)
dbrew_config_staticpar == Configure([Config EXCEPT !.static = TRUE])
dbrew_config_parcount  == \E n \in {1, 7} : Configure([Config EXCEPT !.parCount = n])

\* Bound: ranges are added before a function is set; nothing else depends on them.
MoreRanges == Unused(Client) /\ Len(Config.ranges) < MaxRanges
dbrew_config_function_setname ==
  \E f \in DOMAIN Start : MoreRanges /\ Configure(function_setname(Config, f))
dbrew_config_function_setsize ==
  \E f \in DOMAIN Start : MoreRanges /\ Configure(function_setsize(Config, f))
dbrew_config_set_memrange ==
  \E f \in DOMAIN Start : MoreRanges /\ Configure(set_memrange(Config, f))

----------------------------------------------------------------------------
(***************************************************************************)
(* Rewritings                                                              *)
(***************************************************************************)
Rejected(x) == x.cc.parCount = -1 \/ x.cc.parCount > 6

\* What rewriting the function of x needs, from nothing.
Blocks(x) == UNION { Range(t.dec) : t \in Range(Trace(x)) }
OutOf(x)  == FoldLeft(LAMBDA n, t : n + t.out, 0, Trace(x))
Needs(x)  ==
  [ decInstr |-> FoldSet(LAMBDA b, n : n + Length(b), 0, Blocks(x)),
    decBB    |-> Cardinality(Blocks(x)),
    capInstr |-> 2 * (OutOf(x) + Hints(x)),
    capBB    |-> Len(Trace(x)),
    code     |-> OutOf(x) ]

\* Rewriting x has all it needs: nothing it meets is unsupported, and its needs
\* fit into empty tables of the capacities set.
Sufficient(x) ==
  /\ x.fresh /\ x.cs
  /\ Code[x.func].supported
  /\ \A t \in Range(Trace(x)) : ~t.error /\ t.kernel = NoKernel
  /\ \A c \in Capacities : Needs(x)[c] <= x.capacity[c]
  /\ Len(Trace(x)) <= GENORDER_MAX
  /\ x.ePool + x.cc.parCount <= PoolSize

Frame(r, call, promised) ==
  [ r |-> r, call |-> call, phase |-> "capture", pos |-> 1, emulated |-> 0,
    promised |-> promised ]

\* The start of a call on the client's rewriter.
Opens(call) ==
  /\ Idle /\ Unused(DefaultRewriter)
  /\ rw[Client].cc # NoConfig /\ ~Rejected(rw[Client])
  /\ rw' = [rw EXCEPT ![Client] = resetCapturing(@)]
  /\ frames' = << Frame(Client, call, Sufficient(rw[Client])) >>
  /\ UNCHANGED returned

\* Either call without a configuration: the number of parameters is read through a
\* null pointer.
Unconfigured == rw[Client].cc = NoConfig /\ Change(Dead(rw[Client]))

\* A wrong number of parameters is an error, which dbrew_emulate ignores: it reads
\* the result from the state of an emulator, which there may not be.
dbrew_emulate ==
  \/ Opens("emulate")
  \/ Rejected(rw[Client]) /\ ~rw[Client].es /\ Change(Dead(rw[Client]))

dbrew_rewrite ==
  \/ Opens("rewrite")
  \/ Rejected(rw[Client]) /\ Change([rw[Client] EXCEPT !.addr = "func"])

\* Setting the function forgets the number of parameters, so this always fails.
dbrew_rewrite_func ==
  \E f \in Shared :
    /\ Idle /\ Unused(Client)
    /\ rw' = [rw EXCEPT ![DefaultRewriter] = setFunction(@, f)]
    /\ Rejected(rw'[DefaultRewriter])
    /\ UNCHANGED << frames, returned >>

----------------------------------------------------------------------------
(***************************************************************************)
(* Steps of the innermost rewriting w, on its rewriter x                   *)
(***************************************************************************)
Goes(w, x) ==
  rw' = [rw EXCEPT ![w.r] = x] /\ frames' = [frames EXCEPT ![1] = w] /\ UNCHANGED returned
Dies(w, x) == Goes(w, Dead(x))

Ends(w, x) ==
  /\ rw' = [rw EXCEPT ![w.r] = x]
  /\ frames' = Tail(frames)
  /\ returned' = IF w.call = "rewrite" /\ w.promised THEN x.addr ELSE returned

\* On an error the original function is returned; dbrew_emulate ignores it.
Stops(w, x) == Ends(w, IF w.call = "emulate" THEN x ELSE [x EXCEPT !.addr = "func"])

\* From a block in the trace to the next one, behind the last to what follows.
Captured(w, x) ==
  IF w.pos < Len(Trace(x)) THEN Goes([w EXCEPT !.phase = "capture", !.pos = @ + 1, !.emulated = 0], x)
  ELSE IF w.call = "emulate" THEN Ends(w, x)
  ELSE Goes([w EXCEPT !.phase = IF x.vreq = VR_None THEN "optimise" ELSE "vectorize",
                      !.pos = 1], x)

\* The next decoded block is emulated, for block t of the trace.
EmulateBlock(w, x, t) ==
  /\ w.phase = "capture" /\ w.emulated < Len(t.dec)
  /\ Goes([w EXCEPT !.emulated = @ + 1], emulateBlock(x, t.dec[w.emulated + 1]))

\* If decoding has reset the rewriter, captured blocks are missing where the
\* engine asserts one, unless an error comes first.  Before an error, some of the
\* new blocks may be asked for.
CaptureBlock(w, x, t) ==
  /\ w.phase = "capture" /\ w.emulated = Len(t.dec)
  /\ \/ x.capBBCount = 0 /\ ~t.error /\ Dies(w, x)
     \/ /\ x.capBBCount > 0 \/ t.error
        /\ CaptureFails(x, t)
        /\ \E n \in 0 .. t.new :
             /\ x.capBBCount + n <= x.capacity["capBB"]
             /\ Stops(w, [getCaptureBBs(x, n) EXCEPT !.capBBCount = 0, !.capBB = << >>])
     \/ /\ x.capBBCount > 0 /\ ~CaptureFails(x, t)
        /\ IF t.kernel = NoKernel THEN Captured(w, captureBlock(x, t))
           ELSE Goes([w EXCEPT !.phase = "redirect"], captureBlock(x, t))

\* handleVectorCall: the call goes to the variant if there is vectorized code,
\* to the scalar kernel otherwise.  A variant without address is asserted not
\* to be found.
redirect(x, kernel, variant) ==
  IF variant.addr = "null" THEN Dead(x)
  ELSE [x EXCEPT !.calls = @ \cup
         { [ func |-> kernel.func,
             vreq |-> IF variant.addr = "func" THEN VR_None ELSE vreqOf(x, kernel) ] }]

\* convertToVector, of the kernel of the captured block.
Redirect(w, x, kernel) ==
  /\ w.phase = "redirect"
  /\ \/ \E q \in Variants(w.r, kernel) : Captured(w, redirect(x, kernel, rw[q]))
     \/ /\ Variants(w.r, kernel) = {}
        /\ rw' = Append([rw EXCEPT ![w.r].next = Len(rw) + 1],
                        resetCapturing(newVariant(x, kernel)))
        /\ frames' = << Frame(Len(rw) + 1, "rewrite", FALSE) >> \o frames
        /\ UNCHANGED returned

\* runVectorization.
Vectorize(w, x) ==
  /\ w.phase = "vectorize"
  /\ \/ /\ x.capBBCount # 1 \/ (Fits(x, x.capBB[1].count) /\ Unpacked(x))
        /\ Dies(w, x)
     \/ /\ x.capBBCount = 1
        /\ ~Fits(x, x.capBB[1].count) \/ Code[x.func].adds = "other"
        /\ Stops(w, vecPass(x))
     \/ /\ x.capBBCount = 1 /\ Fits(x, x.capBB[1].count)
        /\ ~Unpacked(x) /\ Code[x.func].adds # "other"
        /\ Goes([w EXCEPT !.phase = "optimise"], vecPass(x))

\* runOptsOnCaptured, a block.
Optimise(w, x) ==
  /\ w.phase = "optimise"
  /\ \/ CopyFails(x, w.pos) /\ Stops(w, optPass(x, w.pos))
     \/ /\ ~CopyFails(x, w.pos)
        /\ Goes(IF w.pos < Len(x.capBB) THEN [w EXCEPT !.pos = @ + 1]
                ELSE [w EXCEPT !.phase = "generate", !.pos = 1], optPass(x, w.pos))

\* generateBinaryFromCaptured, a block.  Only the last one gives an address, if the
\* jumps can be written: that of a stale block without an address would be out of
\* memory, and that of any may be too far from its target, which is asserted.
GenerateBlock(w, x) ==
  /\ w.phase = "generate"
  /\ \/ Overfull(x, w.pos) /\ Dies(w, x)
     \/ /\ ~Overfull(x, w.pos) /\ ~Code[x.func].supported
        /\ Stops(w, [intoOrder(x, w.pos) EXCEPT !.code = NoCode])
     \/ /\ ~Overfull(x, w.pos) /\ Code[x.func].supported
        /\ \/ w.pos < Len(x.capBB) /\ Goes([w EXCEPT !.pos = @ + 1], generate(x, w.pos))
           \/ w.pos = Len(x.capBB) /\ Stale(x) # {} /\ Dies(w, x)
           \/ /\ w.pos = Len(x.capBB) /\ Stale(x) \subseteq x.placed
              /\ Ends(w, link(generate(x, w.pos)))

API ==
  \/ dbrew_set_decoding_capacity \/ dbrew_set_capture_capacity
  \/ dbrew_set_function \/ dbrew_set_vectorsize \/ dbrew_decode_print
  \/ dbrew_config_reset \/ dbrew_config_staticpar \/ dbrew_config_parcount
  \/ dbrew_config_function_setname \/ dbrew_config_function_setsize
  \/ dbrew_config_set_memrange
  \/ Unconfigured \/ dbrew_emulate \/ dbrew_rewrite \/ dbrew_rewrite_func

Rewriting ==
  /\ Alive /\ frames # << >>
  /\ \E w \in {Head(frames)} : \E x \in {rw[w.r]} :
       \/ \E t \in {Trace(x)[w.pos]} :
            EmulateBlock(w, x, t) \/ CaptureBlock(w, x, t) \/ Redirect(w, x, t.kernel)
       \/ Vectorize(w, x) \/ Optimise(w, x) \/ GenerateBlock(w, x)

Next == API \/ Rewriting
Spec == Init /\ [][Next]_vars

----------------------------------------------------------------------------
(***************************************************************************)
(* Properties                                                              *)
(***************************************************************************)

\* Types: while its tables are there, a rewriter uses no more of them than their
\* capacity, and no more expressions than its pool has.
\* newCapInstr, getCaptureBB, nextInstr, dbrew_decode, expr_newNode.
TypeOK ==
  /\ \A r \in DOMAIN rw :
       /\ rw[r].func \in Functions \cup {NoFunc}
       /\ rw[r].addr \in {"null", "func", "code"}
       /\ rw[r].next \in {0} \cup (3 .. Len(rw))
       /\ rw[r].ePool \in 0 .. PoolSize /\ rw[r].genOrderCount \in 0 .. GENORDER_MAX
       /\ rw[r].dec => /\ rw[r].decInstrCount <= rw[r].capacity["decInstr"]
                       /\ Len(rw[r].decBB) <= rw[r].capacity["decBB"]
       /\ rw[r].cap => /\ rw[r].capInstrCount <= rw[r].capacity["capInstr"]
                       /\ rw[r].capBBCount <= rw[r].capacity["capBB"]
                       /\ Len(rw[r].capBB) <= rw[r].capBBCount
  /\ \A i \in DOMAIN frames : frames[i].r \in DOMAIN rw

BeingRewritten(r) == \E i \in DOMAIN frames : frames[i].r = r

\* The code has all the blocks of function f, and no other.
Whole(code, f) ==
  LET trace == Code[f].trace[code.static]
  IN /\ code.func = f
     /\ code.blocks = Len(trace)
     /\ code.size = FoldLeft(LAMBDA n, t : n + t.out, 0, trace)

\* Between calls, while the storage for code is there, the address of generated code
\* that a rewriter gives is that of all the blocks of the function that is set.  No
\* jump of an earlier rewriting is written over them, if since setting the function
\* the rewriter got no blocks into the order with other parameters known: without
\* that, the blocks of an earlier rewriting may still be linked with the new code.
\* initRewriter, getCaptureBB, generateBinaryFromCaptured (passes 1 and 3),
\* dbrew_rewrite, dbrew_generated_code.
CodeIsOfFunction ==
  \A r \in DOMAIN rw :
    ~BeingRewritten(r) /\ ~rw[r].dead /\ rw[r].addr = "code" /\ rw[r].cs =>
      /\ Whole(rw[r].code, rw[r].func)
      /\ rw[r].ordered = {rw[r].code.static} => ~rw[r].code.stale

\* Vectorized variants: a kernel has one at most for a vector size and for
\* parameters, and where code calls the variant of a snippet for vectors, it
\* hands over vectorized code of the kernel for the same vectors.
\* convertToVector, handleVectorCall.
VariantsServe ==
  \A r \in DOMAIN rw :
    /\ \A p, q \in Related[r] : rw[p].func = rw[q].func /\ rw[p].vreq = rw[q].vreq => p = q
    /\ rw[r].addr = "code" /\ ~BeingRewritten(r) =>
         \A c \in { d \in rw[r].code.callees : d.vreq # VR_None } :
           \E q \in Related[r] : /\ rw[q].func = c.func /\ rw[q].vreq = c.vreq
                                 /\ rw[q].addr = "code" /\ Whole(rw[q].code, c.func)

\* Captured blocks: their instructions are in the used part of the pool, and no
\* instruction is in two blocks, also when there was no room to copy them all.
\* captureBlock, vecPass, optPassCopy, optPass.
BlocksWhole ==
  \A r \in DOMAIN rw : rw[r].cap =>
    \A i \in DOMAIN rw[r].capBB :
      \E b \in {rw[r].capBB[i]} :
        /\ b.instr >= 0 /\ b.instr + b.count <= rw[r].capInstrCount
        /\ \A j \in 1 .. i - 1 :
             \/ b.count = 0 \/ rw[r].capBB[j].count = 0
             \/ rw[r].capBB[j].instr + rw[r].capBB[j].count <= b.instr
             \/ b.instr + b.count <= rw[r].capBB[j].instr

\* Setting a function is a fresh start: whatever the calls before left behind, a
\* rewriting whose own needs fit neither ends the process nor gives up.
\* Expressions are the exception, they are never given back.
\* dbrew_set_function, initRewriter, resetCapturing, expr_newNode.
FreshStart ==
  /\ \A i \in DOMAIN frames : frames[i].promised => ~rw[frames[i].r].dead
  /\ returned = "code"

\* Every rewriter finds functions as its client configured them.
\* mrc_find, fc_get, dbrew_config_function_setsize, dbrew_config_set_memrange.
RangesFound == \A r \in DOMAIN rw : FoundAsAsked(rw[r].cc)
=============================================================================
