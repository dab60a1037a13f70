# TLA+ models of dbrew

dbrew is a C library that rewrites x86-64 functions at run time.  It emulates
the machine code of a function with some parameters declared known, follows
every path, *captures* the instructions that depend on unknown data into new
basic blocks, and generates machine code from these.  This directory holds TLA+
modules for its parts, TLC configurations that check them, and proofs checked
by TLAPS.  Paths below are relative to `src/` of this tree.

Run `tlc -config MCCapture.cfg MCCapture.tla` (and so on) for the model checks,
and `tlapm` on each of the eight modules `*Proofs.tla` for the proofs.

## The system

One call of `dbrew_rewrite` runs these parts one after the other, in one thread:

| Part | Code | State | Operations |
|---|---|---|---|
| Public API, lifecycle | `dbrew.c`, `engine.c` 36-160 | the `Rewriter` with all tables below, lazily allocated | set function, rewrite, emulate, free |
| Configuration | `config.c` | parameter states, memory ranges, per-function options | setters; look-up by address |
| Decoder | `decode.c` | `decBB`, `decInstr`: decoded blocks cached by address | `dbrew_decode` |
| Capturing emulator | `emulate.c` 44-340, 742-2840 | `EmuState`: registers, flags and stack, each with known / unknown / stack-relative | `processInstr`, one instruction: emulate, and capture what depends on unknown data |
| Trace engine | `engine.c` 180-335 | the current captured block, the loop over open ones | `emulateAndCapture` |
| Captured blocks, saved states | `emulate.c` 341-371, 565-742 | `capBB`, `capInstr`, `capStack`, `savedState` | get, push, pop, close a block; save and restore a state |
| Optimization passes | `engine.c` 364-416 | `capInstr` again | copy the instructions of a block |
| Vectorizer | `vector.c`, `snippets.c` | a list of related rewriters | rewrite the kernel given to a call of the vector API in a rewriter of its own; redirect the call |
| Code layout | `engine.c` 424-605, `buffers.c` | `genOrder`, addresses in the blocks, code storage | three passes: generate, place, link |
| Machine code generator | `generate.c` | code storage | one instruction to bytes |
| Expressions | `expr.c` | append-only pool | one per parameter and rewriting; never given back |
| LLVM back-end | `llvm/` | basic blocks and values | an alternative generator |

They interact by plain calls.  The engine asks the decoder for a block, hands
each instruction to the emulator, which calls back into capturing (`capture`,
`captureJcc`, `captureRet`); conditional jumps and returns end a captured block
by popping the stack the engine works on.  The generator reads the table of
captured blocks only after capturing has ended.  All shared state is in the
`Rewriter`; there is no concurrency, no persistence and no message.  The one
nested operation is the vectorizer's: while a call is captured, the rewriting of
a kernel runs from start to end, and may in turn start others.

What is hard here is not interleaving but long sequences of legal steps:

* paths are explored in the order of a stack on which blocks may occur several
  times; a block is identified by an address and an emulator state, and this is
  what makes exploring loops end;
* six tables of fixed size may overflow in the middle of an operation, and the
  errors of nested calls are passed up in several different ways;
* captured blocks keep only the first slot of a shared pool and a count;
* the layout decides on jump sizes from distances measured before the blocks
  are moved, and moves them in place;
* a rewriter is used again and again, and every call resets another part of it;
  tables are allocated on demand, and dropped by changing a capacity at any time;
* an instruction is decoded and generated by two independent pieces of code, each
  with its own rules for prefixes, operand sizes and short forms;
* what is known about registers and flags is tracked per value, and each kind of
  instruction has its own rule for when to simplify and when to capture.

Properties that make the parts correct: capturing follows every path exactly
once and produces the residual program of what was asked for; the tables stay
consistent, also on overflow; a failed rewrite leaves nothing that looks like a
result; the generated bytes are the captured program; and every loop ends.

## The plan

1. `Capture` with its abstract specification `PathExploration`, the proofs of its
   inductive invariants and of the refinement.  **Done.**
2. `Layout`: the generator's passes, and the proof that the code generated is the
   captured program.  **Done.**
3. The capturing emulator: `Emulator` (`processInstr` on values with states) and
   `Specialise`, which runs the captured code beside the function, on a
   processor described by `X86`; the proofs that what the emulator takes as known
   is so, and that captured code computes the rest.  **Done** for one operand width;
   widths and conversions, jumps to computed addresses and expressions are left.
4. Decoder and generator: `Instr`, `DecodeContext`, `DecodeHandlers`, `Decoder`,
   `Generator`, composed by `Recoding`.  **Done.**
5. Lifecycle and API: `Configuration` and `Rewriter`, with the default rewriter,
   capacities, the vectorizer's rewriters and the expression pool, and proofs
   about the configuration, the tables, the code generated, the variants made, and
   what setting a function promises.
   **Done.**

What is left: operand widths in `Emulator`; composing `Recoding` with `Layout`;
the state of single vector registers.

A theorem worth proving next: for `Recoding`, that no former code is found in the
cache of blocks (`DecodedIsCurrent`), which needs that what is decoded of the code
storage is generated code.

## Modules

### Capture

State and code correspond one to one: `capBB`, `capInstr`, `capStack`,
`savedState` and `currentCapBB` are the fields of `Rewriter` with these names
(indices start at 1, 0 stands for a null pointer); `es` is `r->es`; `pc` is
`bb_addr` or the address of the next instruction; `status` tells whether
`emulateAndCapture` has been called, runs, returned, or with which error.

| Action | Code |
|---|---|
| `Start` | `emulateAndCapture` before its loop: reset, save, first block, push, hint |
| `OpenNext` | engine.c 257-283: drop handled blocks, restore the state of the next, or end |
| `EmulateStep` | an instruction that leads to a known next address |
| `EmulateJcc` | `captureJcc` for an unknown condition, with all it calls |
| `EmulateJccError` | the same when saving, getting a block or pushing fails |
| `EmulateRet` | the return from the function, `captureRet`, closing and popping |
| `EmulateError` | the emulator or capturing reports an error |

The emulator is a constant operator `Emulate(code, address, state)` that yields
the new state, the instructions captured on the way, and how it goes on.  The
comparison of states is the constant `EsIsEqual`, which also gets whether both
have the same parent, as the code's comparison depends on it.  Decoding is left
out: an instruction is found at its address.  The optimisation that follows a
jump within a block without capturing it is part of `Emulate`.

A conditional jump that fails to save its state still requests both blocks with
an ID of -1.  The model requests them with an ID no block has, which is the
same as far as found or not found is concerned.

`PathExploration` is the abstract specification: a set of code points
discovered, one specialised at a time with at most two continuations, until none
is left, or giving up with nothing.  `Capture!ExploresPaths` is the refinement:
its code points are the keys (address, state ID) of the blocks.

`CaptureTrace` adds what captured blocks are meant to be.  A run (`IsRun`) is the
sequence of places (address, state, instructions captured so far) the emulator goes
through from a code point until control depends on unknown data, the function
returns, or an error occurs; `Residual` says that a finished block is what its run
captured.  Runs are a constant operator `Run`, with `RunAssumption`: every code point
has one.  That is so because a machine has finitely many states: a run ends, gets back
to an earlier place, or captures more than the pool holds, and in these two cases no
more of it is needed.  In the instance `MCRun` computes runs by recursion, and TLC
evaluates the assumption for every program, address and state.

### Layout

`pass` is the position in `generateBinaryFromCaptured`.  A graph of captured
blocks is a constant's member; how many bytes the generator yields for a block
is chosen when it is generated.  Memory is the sequence of stores made, and
`Shows` says that a whole piece of code is still where it was stored; moving a
block in pass 2 yields garbage unless it moves down and is intact.  Displacements
of short jumps are reduced to a signed byte, as the code's cast does.
The ways of stopping differ: `failed` is an error passed up, `aborted` a failed
assertion (asserts are on in the default build), `exited` is `exit(1)`.

What is assumed of the captured blocks is what `Capture` guarantees: successors
exist (`WellLinked`), and every block but the first is a successor of an earlier one
(`BlocksDiscovered`, the property `Discovered` there).  What is assumed of generated
code is that its last instruction has at most 15 bytes and ends it.

Left out: the bytes of instructions, `mmap`, and the 0 stored behind the last
entry of a full `genOrder` (it hits options of the rewriter that play no role
here).

### X86, Emulator, Specialise

`Emulator` has one operator per function of `emulate.c` and one per group of
cases of `processInstr`.  An emulator state is a record with the fields of
`EmuState`; a value carries its `CaptureState`.  `processInstr(e, i, force)`
yields the new state, the instructions captured, and whether an error was passed
up (`error`) or an assertion failed (`abort`).  Every instruction is modelled as
a whole: operand values, flags, state of the result, what is captured given the
state *before* the result is stored, then storing value and state.

| Code | Model |
|---|---|
| `combineState`, `csIsEqual`, `esIsEqual`, `cloneEmuState`, `copyEmuState` | operators of these names |
| `getOpAddr`, `getOpValue`, `getMemValue`, `getStackState` | the same names; `Assign` and `Store` are `setOpValue` with `setOpState`, down to `setStackState` |
| `setFlagsSub/Add/Bit` | the same, with the code's carry formula (`Chain`) |
| `captureMov`, `captureBinaryOp`, ... | the same; each yields a sequence of instructions |
| the switch of `processInstr` | `emulateBinary`, `emulateMov`, `emulatePush`, `emulateCall`, ..., `JccTaken`, `JccCaptured` |

The abstraction of data: a word has `W` bits (4 in the instances) and is the only
operand width; memory and the emulated stack hold one word per address, so that
pushing moves the stack pointer by 1 instead of 8.  Vector registers are a single
register `vec`; a load, an addition, a store and a move to a general register
stand for all vector instructions.  `X86` says what instructions do in the
processor; no code of the repository is behind it.

`Specialise` is the claim of the program: the rewritten function can be used
instead of the function.  It is not a module for one function in C but the
comparison of three executions of the same sequence of instructions: the
emulator on sample data (`es`), the function on other data (`orig`), and the
captured instructions on that data (`new`).  The sequence is any one from a
palette, so that all programs of a length are covered at once.  `Instruction`,
`Call` and `Return` are one round of the inner loop of `emulateAndCapture`;
`Branch` is `captureJcc` as far as the state is concerned: it saves the state, or
goes on with a saved one that is taken as equal.

The emulator's stack is at `StackStart` while rewriting and below `Base` when the
function runs; a stack-relative value means its distance from the top.  Because
pushes of known values are not captured, `new` has its stack pointer off by
`skew` for a while, and pushed values at other addresses (`at`); both are
variables only the comparison needs.  Below its stack pointer captured code may write
over a value that the function still has there; its place is then `Gone`.  `lost`
collects the flags the emulator is known to keep wrongly (below).

Palettes consist of instructions as the decoder yields them (`WellFormed`): one
operand in memory at most, a third one is an immediate, and so on.  Neither
constant data nor other variables lie in the function's stack frame.

What is assumed of the function, and stated as guards: it touches only its own
stack frame, `Heap` and `Data`, reaches the stack only through the stack pointer, and pops, leaves
and returns with a stack or frame pointer that is one (`Accesses`); it uses nothing undefined (`Defined`); it returns to its caller with
the stack pointer restored, from an inlined call to the address that was pushed
(`ReturnsProperly`); `dbrew_config_staticpar` and
`makeStatic` are used with values that are in fact passed, and data behind
pointers declared constant never change.

The emulator does not keep the claim in all cases.  Each exception is a named
guard, and each was found necessary: without it TLC finds a violation.

| Guard | Where the code falls short |
|---|---|
| `CMovLimit` | a conditional move on an unknown condition follows the sample condition (FIXME at emulate.c 2067), does not load a known destination, and may store into its source (`tests/TODO.md`: "cmov: not correct with constants as input and unknown condition") |
| `DivisionLimit` | IDIV divides without sign and ignores the upper word (FIXME at 2185); a division by a known 1 leaves the remainder (`tests/TODO.md`) |
| `SignLimit` | CQTO looks at bit 62, not 63 (2035) |
| `RelativeLimit` | a stack-relative value combined with a known one stays so for every operation ("FIXME: only ADD!", 542); IDIV and CQTO do not look whether theirs is |
| `VectorLimit` | stack contents known to the emulator are not stored for vector instructions; stack contents written by these are not marked unknown (1687) |
| `LoadLimit` | a known operand in memory that captured code needs is loaded with an address whose known registers are not resolved (1554, 1591, 1637 have no `applyStaticToInd`; for a conditional move, 1458 resolves the source, not the destination) |
| `StackLimit` | pushes of known values do not move the stack pointer of the captured code (`tests/TODO.md`): until they are popped, nothing else on the stack is found, a value popped or left for as known must have been pushed as known, and the stack pointer is not set back past values that are out of place |
| `LostBy` | INC, DEC, NEG, shifts, IMUL, IDIV leave emulated flags alone; an addition of known values uses the carry formula of a subtraction (838); operations simplified away set no flags (1541, 1564); TEST with a known register does not load it (1654) |

### Instr, DecodeContext, DecodeHandlers, Decoder, Generator, Recoding

Here bytes are bytes: memory is a function from addresses to 0..255, and a value
is a sequence of eight bytes, the lowest first, as TLC's integers are too short.

| Code | Model |
|---|---|
| `instr.c`, `instr.h` | `Instr`: registers, operands, instructions, sign and zero extension |
| `decode.c` 60-515 (context, prefixes, ModRM, immediates) | `DecodeContext` |
| the handlers, `decode.c` 813-1870 | `DecodeHandlers`, one operator each, from a context to a context |
| the tables, `initDecodeTables`, `processOpc`, `dbrew_decode` | `Decoder`; a table entry holds the names of its handlers, and `Handler` finds them |
| `generate.c` | `Generator`: `genOne` yields the bytes of an instruction, or the error |
| `createCBBfromDBB`, `generate`, `tests/test-driver-gen.c` | `Recoding` |

Decoding is one action per instruction (`DecodeStep`), as is generating
(`GenerateInstr`), so that buffers may fill up in between.  `Recoding` sets a
function, decodes its blocks in any order control flow may meet them, captures
the first one as it is, generates it, and decodes what was generated; then it
may set another function at the same address.  The pass-through bytes of an
instruction the decoder does not interpret are kept, as the code does.

Where the decoder asserts, reads behind its buffer, or the generator asserts, the
model stops (`aborted`).  Reading bytes behind the end of a program yields RET,
an arbitrary choice that ends a block.

### Configuration, Rewriter

`Configuration` is the list of named ranges of config.c, searched from the newest
one.  A configuration remembers what was asked for (`asked`), to compare with
what is found.

A rewriter of `Rewriter` is a record with the fields of `struct _Rewriter`, as far
as they survive a call: tables (there or not, and how much of them is used),
capacities, the order of generation (`order`: which places of the table of captured
blocks it points to), which of these places hold a block that ends with a
conditional jump (`jccs`) or has its final address (`placed`), code storage, the
address of generated code, configuration, whether there is an emulator state, the expression pool, and the
list of related rewriters.  `rw[1]` is the client's, `rw[2]` the default one, and
others are made by the vectorizer.

| Action | Code |
|---|---|
| `dbrew_*` | the call of the API of this name; rewriting and emulating open a frame |
| `EmulateBlock` | `dbrew_decode` of the next block, and emulating it |
| `CaptureBlock` | what is captured until a captured block ends, or the error |
| `Redirect` | `handleVectorCall` with `convertToVector`; a frame for a new variant |
| `Vectorize` | `runVectorization` |
| `Optimise` | `optPass` of one block |
| `GenerateBlock` | pass 1 of `generateBinaryFromCaptured` for one block; after the last one also passes 2 and 3 and the address (`link`) |

What a function is to this module are numbers: the instructions of its decoded
blocks, and for each captured block which decoded ones are emulated for it, how
many instructions it captures, how many new blocks it asks for, whether it ends with
a conditional jump (`jcc`, its place in the table) or in an error, and which kernel
it has run on vectors.  With a static parameter a function has another trace.  How captured blocks come about and which code is
generated for them is what `Capture`, `Specialise`, `Recoding` and `Layout` are
about; here a table may be full, missing, or hold what another call left.

The order is emptied only when a function is set, and pass 3 writes the jumps of all
blocks in it.  An entry points to a place in the table of captured blocks.  If the
rewriting going on has a block there, this one's jump is written once more; if not,
the block of an earlier rewriting is still there (`Stale`), and its jump goes to
where that block was in the storage, which is used for the new code now.  `link` then
marks the code as `stale`; it need not be wrong, but nothing in the code keeps it
right.  Asking for a block empties its place (`getCaptureBBs`): a stale block that
never got its address has its jump written to near address 0, which ends the process,
and a jump too far from its target may fail an assertion.  Which bytes are
overwritten is shown in `Layout` (run `layout_again`).

The process ends in many places, by an assertion or a null pointer (`Dead`); that
is part of the model, and `FreshStart` says when it must not happen.

Four pieces of state are not in the code: `stale` of the code; `ordered`, with which
static parameters blocks got into the order since it was emptied; `fresh`, which
holds from setting a function until its tables are used or dropped; and `promised` of
a frame, which is whether the rewriting had all it needed when it began
(`Sufficient`).

## What is checked

| Run | Instance | What it shows |
|---|---|---|
| `capture` | all programs of 4 instructions, states 1..3, room for 3 saved states, 3 blocks on the stack, 5 blocks, 5 instructions | all invariants below, the refinement, termination |
| `layout` | all graphs of up to 3 blocks, and two longer ones; block sizes 0, 1, 93, 119, 127; 400 bytes of storage | the generated code is the captured program |
| `layout_fallback` | the same | **violated**: a full storage or order ends the process |
| `layout_again` | two rewrites in a row, two graphs | **violated**: stale jumps get into the new code |
| `specialise` | 4 instructions out of 28 on three registers, 12 types of jumps | the emulator is right about what it knows, captured code about the rest, and jumps |
| `specialise_stack` | 5 instructions out of 21: frame pointer, locals, pointers, vectors, 3 slots of stack; and 6 out of 13: calls two deep (one too many), pushes of known values, `makeDynamic`, `makeStatic` | the same for stack and memory, across inlined calls, and what is returned |
| `specialise_unsigned` | comparisons, JBE and JA | **violated**: they are captured as signed jumps |
| `specialise_product` | comparisons and a multiplication with three operands | **violated**: the third operand is lost |
| `specialise_flags` | comparisons, ADD, DEC | **violated**: jumps on stale flags |
| `recoding` | about 5600 functions; 10 decoded and 6 captured instructions, 3 blocks, 40 bytes of storage | decoding and generating are inverse; buffers and the cache of blocks stay right |
| `recoding_cmov` | conditional moves | **violated**: they are generated as something else |
| `rewriter` | four functions and two more kernels, two ranges; tables of 1 to 6 entries, 2 expressions, 4 blocks in generation order, vectors of 16 and 32 bytes | calls in any order: the code returned has all blocks of the function, with stale jumps in it only if it was rewritten before with other parameters known; a new function starts afresh; tables, variants and ranges stay right |

`capture`: `StackDiscipline`, `NothingForgotten`, `EmptyUntilOpened`,
`UniqueKeys`, `WellLinked`, `PoolPartition`, `Discovered`, `SavedOnce` and
`AllPathsDone` relate the tables to each other after any sequence of steps;
`EndedStays` says that finished blocks are not touched; `Residual` compares every
finished block with the run of the emulator from its code point, which knows of no
table, stack or engine.  The bounds: with four instructions a program can hold
two tests of unknown conditions and a loop around them, and with three states
the same address is reached in different states.  Every capacity is small enough
to be exceeded by some program and large enough to be met exactly by another.
An instruction here changes the (single) value, depends on unknown data, tests
known or unknown data, returns, or is unsupported; programs that start by
jumping or returning are left out as they show nothing more.

`layout`: block sizes are such that distances fall on both sides of the limits
of 120 bytes, exactly on them, and blocks may be empty; the storage is too small
for some graphs, and the stack and the order for the longer ones.
`LinkedCode` is the result; `ShortJumpsReach` and `MovesDown` are the assertions
in the code, the latter made stronger; `EachOnce`, `InStorage`, `Finishes`.

`specialise*`: `KnownAgrees` says that what the emulator takes as known or
stack-relative is so in the function on any data; `UnknownAgrees` that everything
else is computed by the captured code; `BranchesAgree` compares every conditional
jump, followed or captured; `ReturnAgrees` is the result for the caller, including
callee-saved registers.  These hold at every step, so that a sequence of
instructions that hides an error is not needed to find it.  The parameter and the
sample take values around 0, 1, and the largest and smallest signed word; with 4
bits these include all combinations of carry, sign and overflow.  Longer sequences
repeat what shorter ones do, except for the stack: six instructions are enough to
push, call, change, pop and return.  Runs are bounded by `MaxSteps`, the states
saved by `MaxSaved`.  Deadlock checking is off, as runs end at these bounds.  No
fairness is assumed here: all properties are safety.

`force_unknown` is empty in the instances, but with one entry less than there are
call depths: inside a call it is read behind its end, and may say anything.

`recoding`: every opcode of the tables, with prefixes (operand size, REX, repeat,
segment) and a choice of ModRM bytes; addressing modes with base, index, scale and
displacements at the limits of a byte; immediates at the limits of shorter forms;
VEX prefixes of two and three bytes; branches, several blocks and programs longer
than the buffers.  `RoundTrip` compares what was captured with what is decoded
from the generated bytes, operand by operand, and its length; it excepts
conditional moves and three-operand products (`Lossy`).  `WellFormedBlocks` is what
the engine relies on when it walks a block; `DecodedIsCurrent` that no decoded
instruction is one of code overwritten since; `StorageAccounted` that the storage
in use is the code of the block, also after errors.  Programs that are set one
after the other are the few in `Again`: the only state this crosses is the cache
and the storage.

`rewriter`: `CodeIsOfFunction` says that an address given between calls is that of
all blocks of the function that is set, and that no jump of an earlier block was
written over them if since setting the function blocks got into the order with the
same parameters known only; `FreshStart`, that after setting a
function a rewriting whose own needs fit into empty tables neither ends the process
nor gives up, whatever came before; `VariantsServe`, that the list holds at most one
variant per kernel and kind of vectors, and that redirected calls get one that is
vectorized, for the right vectors; `BlocksWhole`, that blocks refer to used slots of
the pool and never share one, also when copying stopped half-way; `RangesFound`,
that functions are found as configured, although ranges touch and data overlap.
The bounds: functions are so small that every table is exactly full for one of
them and too small by one for another, with default and with set capacities; two
expressions allow for one rewriting after another, each with one parameter; four
places in the order are filled by one rewriting or by several, exactly and beyond.
"jcc" has two blocks which both end with a conditional jump, or one without if its
parameter is known: rewriting it twice leaves entries in the order that the second
rewriting replaces, or does not.  The exception in `CodeIsOfFunction` is necessary:
without it, rewriting "jcc" with an unknown parameter and then with a known one
violates it.  It covers just that: with the same parameters known, captured blocks
take the same places, and what they left in the order is replaced.  Values of
parameters are not told apart: all that are known stand for one value.  A stale block
without an address takes a third rewriting, and is beyond the instance.  Ranges are added
before a function is set only, as nothing else depends on them.  The client's and
the default rewriter share nothing and are not both used.  The number of parameters
is 1 or 7, the latter one too many.  Sizes of code are counted in instructions.  A
kernel that has itself run on vectors, and negative capacities, are left out of the
instance: the first recurses for ever in the code as in the model.  Deadlock checking
is off, as the process may end.

Fairness of `Capture` and `Layout` is weak fairness of the next-state relation: both engine and generator
are sequential functions that go on as long as they can.  `Terminates` has to
except loops over known data only (`InSilentLoop`): dbrew follows these for ever,
as the original program does.  Deadlock checking is off because both models end.

## What is proved

All proofs are for every value of the constants, under the assumptions named with
them; TLC evaluates these assumptions for the instances it checks.

### Capture

`CaptureProofs` proves for every program, emulator, comparison of states and all
capacities:

* `CaptureInvariant`: `IInv` is invariant.  It consists of the types, of
  references within the tables (`RefsValid`: stack entries and successors are
  blocks, state IDs are saved states), of the situation before the first block
  (`ResetBefore`, `EntryExists`), the bound on the pool, and of the properties
  below.  These cannot be proved one by one: that the block on the top of the
  stack is the current one (`StackDiscipline`) is needed to see that popping it
  forgets no open block (`NothingForgotten`), and this in turn that nothing is
  open when the stack is empty (`AllPathsDone`).
* `TypeCorrect`, `StackDisciplined`, `NoPathForgotten`, `Complete`: the
  properties that follow.

The proof has one lemma per action; the lemmas before them state what getting,
capturing into, closing, linking and pushing blocks does to the tables.

Its second part goes on from `IInv`.  `TableInvariant` states all properties of
the tables at once, as they need each other: that blocks share no slot of the pool
(`PoolPartition`) needs that the one being captured is at its end, which holds when
it is opened because it is empty (`EmptyUntilOpened`), and this needs the discipline
of the stack.  Only `EntryStateOnly` had to be added: before the first block is
opened, the state of the entry is the only one saved.  This is why `SavedOnce` has
to except the entry state, which may be saved twice.  From it follow
`KeysAreUnique`, `OpenedEmpty`, `LinksAreRight`, `PoolIsPartitioned`,
`AllDiscovered` and `StatesSavedOnce`.

What a step does to the tables is the same for following an instruction, a
conditional jump and a return: instructions are put into the current block, which
may be ended (`Extended`).  Three lemmas show this of the actions, and each part of
the invariant is then proved for `Extended`.

The last part proves `EndedBlocksStay`, and with it `Refinement`:
`Spec` of `Capture` implements `Spec` of `PathExploration`, its abstract state
being `ClosedKeys`, `OpenKeys` and `SuccKeys`.  That a step of the engine adds at
most two code points, and each point once, is `UniqueKeys`; that its successors are
then fixed, `EndedStays`; that none is open when it ends, `AllPathsDone`.
With it, `CompleteIsClosed` says of the engine what the abstract specification is
good for: when it ends, the code points captured are closed under continuation, so
that no generated jump leads to one that was not captured.

`BlocksAreResiduals` is the theorem about contents: `Residual`, every finished block is
what its run captured, and is continued where the run goes on, in a state as good as
the one the run reached.  The invariant `TraceInv` adds to that of the tables where the
engine is: at a place of the run of the current block, which holds what was captured
up to there (`CurrentOnRun`).  Emulating an instruction goes on to the next place of
the run (`StepOnRun`).  A run that ends early, because it captures too much, is never
left behind by the engine: what the current block holds is in the pool, which is
bounded.  That other blocks keep their contents is `PoolPartition`; that a block opened
later starts empty, `EmptyUntilOpened`; that successors start in the state of the run,
although a state saved before may be taken for it, `SavedRestores`.  `EntryFirst` is
needed for the hint, which is in the first block only: it is never opened again.

### Layout

The proofs are for every table of captured blocks, all sizes of code, every size and
place of the storage, and one rewriting (`Spec`); rewriting again goes wrong, as the
run `layout_again` shows.  Every safety property of the run `layout` is proved, by
three invariants, each strengthening the one before:

* `GInv` (`LayoutProofs`): the order of generation lists the handled blocks without
  repetition; every successor of a handled block is handled or on the stack
  (`NoneForgotten`).  When the stack is empty, all blocks are handled: if one was not,
  take the first; it is the successor of a block before it, which is handled
  (`LeastElement`, by the induction of natural numbers).  This gives `GeneratedOnce`.
* `AInv` (`LayoutProofs`, too): pass 1 leaves a hole for two jumps behind every
  block (`Spread`); pass 2 puts the blocks one behind the other (`Packed`), where each
  needs at most the hole.  So a block is moved down at least as far as the one before
  it (`BlocksMoveDown`), distances shrink, and a short jump decided on before its
  target was placed still reaches it (`ShortJumps`).  The invariant is about pairs of
  blocks, not only neighbours, as there is no induction over the list to get from one
  to the other.  A jump forwards and one backwards are different cases: forwards the
  distance shrinks with the move; backwards the block that jumps moves
  at least as far as the one jumped to, towards it.
* `MInv` (`LayoutProofs`, last part): blocks are shown in memory where they are
  (`BodiesShown`), in pass 2 also those still to be moved, because what is written ends
  below the old place of the next block; jumps are written behind blocks into room
  nothing else uses (`JumpsShown`).  `CodeInStorage` and `CodeIsLinked` follow: at
  the end the code storage holds the captured program.

### Rewriter

`RewriterProofs` begins with `RangesAreFound`: in every rewriter, for any number of
functions and ranges and whatever is called in which order, functions are found as
configured.  The only assumption is that functions do not overlap
(`ConfigurationAssumption`); the code has a TODO at config.c 231 to check the like.
`RangesFound` is not inductive, as it says nothing of where new ranges go.  The
strengthening `Configured` says that each configured function has exactly one range
that starts where it starts, with the length asked for, and that functions never
configured have none (`OneRange`, `LengthsAsked`).  From this, a range covering an
address of a function must be its own (`OwnRange`), however the list is ordered.
The rest of the proof goes over all actions: those that do not configure keep the
configuration of every rewriter, or start a new one.

Its second part is about the tables of every rewriter, for any functions, any
capacities and any order of calls:

* `TablesBounded`: `TypeOK`; no table, pool or order is used beyond its size.
* `CapturedInPlace`: `BlocksWhole`; captured blocks share no instruction.
* `GeneratedIsOfFunction`: `CodeIsOfFunction`; the address of generated code is that
  of all blocks of the function set.  It does not say that the order holds no blocks of
  earlier rewritings, which is false, but when their jumps stay out of the code.

All three follow from one invariant, `TInv`, as they need each other.  Where a block
is copied to is free because all blocks are in the used part of the pool; that code
is whole when it gets its address depends on how far the rewriting had come, and
`InProgress` says how: while capturing, the captured blocks are those of the trace
before the frame's position, each with its instructions, and none was forgotten
unless decoding reset the rewriter, which then dies at the next block; while
generating, the code has as many instructions as the blocks before the position
(`Generated`).  That nothing is stale is `OrderFits`: an entry of the order points to a
place that a trace of the function set has, with one of the parameters in `ordered`; if
these are only those of the code, the rewriting has asked for a block in that place.
The sum `Whole` compares with is a fold over the trace; `FoldedOut`
proves that it is the last of the partial sums the invariant counts with.  A rewriter
that is not being rewritten has what `CodeOk` says, and what a call of the API may
leave behind.  The lemmas follow the code: first what each operation does to the
tables of one rewriter, then one per action, then calls and nested rewritings.

Two assumptions describe the functions that are rewritten.  `CodeAssumption`: blocks
that are emulated are blocks of a function, a block has an instruction, and what is
captured next was asked for before (`getCaptureBB` gave it to the stack of blocks to
be captured).  `RewriterAssumption`: capacities are natural numbers, and the ones
used where none was set are positive, as are those of engine.c.

`RewriterVariantProofs` proves `VariantsAreServed`: `VariantsServe` for any functions,
vector sizes and calls.  The invariant `VInv` has four parts, for the function
`after` that gives the rewriters behind each one in its list:

* `Linked`: `after` is what following `next` gives, and no rewriter is behind itself.
  So the list is one without circles, and `after` is `Related` (`RelatedIs`, by the
  rewriter with fewest behind it where the two differ).
* `Distinct`: every variant is behind the client's rewriter and has storage for code;
  no two are for the same kernel, parameters and vector size.
* `AllServed`: for every call that code contains, or that is captured and will get into
  code, there is a finished variant behind its rewriter.  `VariantsServe` alone is not
  inductive, as calls come into the code only when it is generated.
* `Nested`: while rewritings are nested, each one waits for the next one, of a
  kernel it has, and the variants that are finished are those behind the innermost one.

A new variant is put right behind the one that needs it, before those already there:
nothing that was behind a rewriter is lost (`InsertLinks`), and the needed one is not
found only if there is none, finished or going on (`VariantServes`).  The last point is
where `KernelAssumption` is needed: no kernel is run on vectors within itself, directly
or through others.  Otherwise the variant that is being made is not behind itself,
another one is made for it, and the rewriting does not end.

`RewriterFreshProofs` proves `StartsFresh`: `FreshStart` for any functions and
capacities.  A rewriting that starts right after its function was set, and whose
`Needs` fit into the capacities, does not end the process and returns generated code.
The invariant `FInv` says how much of the tables it has used when it is at a block
of its trace (`Promised`):

* While capturing, the decoded blocks are different ones of those in the trace, all of
  their instructions have been decoded, and the table holds the sum of their lengths
  (`DecodedFits`).  The sum of the needs is a fold over a set in the order of
  `CHOOSE`.  `SetSums` shows that the order does not matter, and that no subset has a
  greater sum; so the next block always fits (`DecodeFits`).  As decoding never runs
  out of room, it never resets the tables that are in use.
* The pool holds what was captured up to the block, with a hint; in the pass over the
  blocks all of it once, and what was copied a second time.  This is where `Needs` has
  the factor of 2.
* While generating, the order has the blocks before the position, none of which is
  stale, and the code their size (`Generated`, from `TInv`).

What calls may leave behind is in `Clean`: after setting a function, tables are there
and empty, until they are used or dropped.  The promise is made to the client's
rewriter only: it never runs a kernel on vectors, as that may fail by itself.
`CompleteAssumption` is needed: all blocks asked for are captured, unless there is an
error; so a trace asks for no more blocks than it has (the engine goes on until the
stack of blocks is empty).

### Recoding

The proofs are for every program, every address, all capacities, and any bytes a
program is made of; that these are bytes is the only thing `RecodingAssumption` says
of programs.

The first part of `RecodingProofs` is about the operators of `Decoder` and `Generator`:

* `GeneratedTypes`: for every instruction, `genOne` yields bytes, or one of its errors.
  An opcode built from a base, the operand width and a register number stays below
  256, a displacement or immediate is cut to its width before it is appended, and a
  VEX prefix is written only for legacy prefixes it can stand for.
* `DecodedInstr`: `decodeInstr` yields exactly one instruction for any bytes, unless it
  asserts or the buffer of instructions is full.  The instruction begins where decoding
  is and has at least one byte; decoding goes on right behind it; it stops just if the
  instruction ends a block.  The last part is where the code could easily go wrong: an
  instruction is added in one handler, the request to stop is made in the same one or
  another, or not at all, and which handlers run is told by data, the opcode tables.
  So the proof has two sides.  Handlers: those that parse keep a context `Ready`,
  those that add leave it `Done` (`ParseHandlers`, `AddHandlers`, `WholeHandlers`).
  Tables: every entry has handlers in a row that may follow each other, and a handler
  that computes its instruction from the opcode is installed for its opcodes only
  (`EntryOK`, `TableOK`); this is proved entry by entry (`AluEntries` to `VexTables`).
  `Processed` puts both together.

The second part proves the inductive invariant `IInv` (`InvariantHolds`):

* `MemoryOK`: memory has bytes, whatever was loaded or generated.
* `DecodedOK`, `BlocksOK`: instructions and blocks are within their buffers.  A block
  that was decoded is `Closed`: its instructions follow each other, only the last one
  ends it, its size reaches to the end of this one.  The block that is being decoded
  is the last one and `Open`: a chain that ends where decoding goes on, of instructions
  of which none ends it.  `WellFormedBlocks` is not inductive by itself, as it says
  nothing of a block before decoding ends.
* `StorageOK`: the code generated for the first `done` instructions lies one behind
  the other from the start of the storage (`StorageAccounted`), and before generating
  nothing is in it.

`TypeOKHolds`, `WellFormedBlocksHolds` and `StorageAccountedHolds` follow.  The two
sets of instructions of the proof, those that end a block and all others, are those
of `EndsBlock` and "Invalid", which is how emulation finds the end of a block
(`BlockEnds`).

The only restriction is the bound of the model on prefixes, `MaxPrefixes`, any
number: a step decodes an instruction with no more of them.  The proofs showed
definitions to be too loose in two ways TLC cannot see: alternatives of a CASE in
`arithmetic`, `test` and `move` overlapped, where TLC takes the first, as the code
does, but TLA+ takes any; they are disjoint now.  And conditions, tables and prefixes
are built without folds and recursion, so that facts about them can be proved.

### Specialise

`SpecialiseProofs` is about what the emulator takes as known: for any set of functions
within the limits above, any sample and any data, any size and place of the stack,
any call depth and number of saved states.  Words have 2, 4 or 8 bits: divisors are
powers of two, and the prover has to see which.

* `KnownIsRight`: `KnownAgrees`; whatever is static or stack-relative in the emulator
  is so in the function, on any data.
* `KnownJumpsAreRight`: a conditional jump the emulator follows is one the function
  takes the same way, for all types but JLE and JG.  It is the half of
  `BranchesAgree` about jumps that are not captured.

`KnownAgrees` is not inductive.  `KnownInv` says of the current emulator state

* `Proper`: it is a state, in which flags are never stack-relative, and nothing is
  known of the stack below what was accessed (`Kept`).  Without the second part,
  growing the accessed part of the stack could bring up something known from before.
* `Agrees`: registers, the accessed stack and, what `KnownAgrees` does not say,
  constant data are in the function as the emulator has them.  A load through a
  pointer declared constant yields a known value.
* `FlagsAgree`: known flags are right, but those lost.

and of saved states that they are `Proper`.

The proof has one lemma per kind of instruction (`MovFollows`, `BinaryFollows`, ...,
`RetFollows`): if emulator state and function agree, they agree when both have executed
it.  Each rests on lemmas about reading an operand, storing a value, setting flags,
pushing and popping; these on lemmas about words: that the emulator's carry formula
is that of a subtraction (`Borrows`, `Overflows`), that distances are kept by adding
the same, that the tables of operations are what they stand for.  A jump on
unknown data needs no instruction: the state it goes on with is its own copy, or one
`esIsEqual` to it (`EqualAgrees`): being equal means that no more is known, and
the same values.

The proof had to be told what TLC had not met.  IDIV of a stack-relative value was not
excluded, as no palette has one; instructions the decoder cannot yield (`WellFormed`)
were possible; and constant data could lie in the stack frame.

`CapturedCodeProofs` is about the other half, the code that is captured: what the
emulator does not know, this code computes.  The theorems hold for the same functions,
sizes and data:

* `UnknownIsRight`: `UnknownAgrees`; unknown registers, flags, stack contents, vector
  registers and memory are the same in the captured code as in the function.
* `ReturnIsRight`: `ReturnAgrees`; the caller gets the same result, with its stack
  pointer and frame pointer.
* `BranchesAreRight`: `BranchesAgree`, for jumps followed and jumps captured.
* `TypesAreRight`: `TypeOK`.

They need two assumptions, and the runs show that the code does not do without them:
no product has three operands (`TwoOperands`; `specialise_product`), and for
`BranchesAreRight` there are no JBE and JA (`RightJumps`; `specialise_unsigned`) nor,
as in `KnownJumpsAreRight`, JLE and JG.

`UnknownAgrees` is not inductive.  `ComputedInv` adds to `KnownInv`, while the function
runs,

* `Computed`: unknown values are where captured code keeps them, at `at`; the stack
  pointer is off by `skew`.
* `InOrder`: where that is.  Either nothing is off and all values are in place, or there
  is a frame of values pushed, from the first known one to the top of the stack
  (`Frame`): each unknown one is off by the number of known ones pushed before it, and
  `skew` is the number of all known ones.  So the next value pushed gets into a slot
  that no other value in use is kept in (`FrameRoom`), which is what makes it safe to
  drop pushes from the captured code.  `UnknownAgrees` says of a value only that it is
  somewhere.
* `FlagsCaptured`: if one flag is unknown, then all that are not dead have been
  computed by captured code, known ones included.  The emulator decides on carry and
  overflow of a logical operation and leaves zero and sign unknown; a captured jump
  on sign and overflow reads both in the processor.

and when it has returned, `Returned`.  What an instruction has to do is `Computes`.  There
is one lemma for each kind of instruction again (`MovComputes`, ..., `LeaveComputes`), and
most have the same steps.  An operand with its known registers resolved has the address
of the original one (`AddrComputed`); loading a known value that an instruction needs
changes no unknown one (`Loaded`); the last instruction captured then writes what the
function writes, to the same place, or is left out because the value written is known
(`AssignComputes`); a store puts the value in place, and writes over nothing else that is
kept (`NextAt`).  Pushes, pops, calls and returns are proved on frames: a push makes a
frame, or extends it, and a pop shortens or ends it.  Captured blocks after a jump start
in a copy of the state, or in a saved one that is taken as equal (`Alike`):
what is unknown in that one was unknown, and so has been computed.

The code captured for one instruction is at most four instructions (IDIV with known
operands); `ExecAllFour` executes them without induction.

Proving this changed the model in four places TLC had not reached.  `LoadLimit` was
missing, as no palette has such an operand; TEST loses its flags for known stack slots
as for known registers; a place may be written over (`Gone`) by other instructions than
a push; and `StackLimit` did not exclude known values put into the stack by a store and
then popped, nor moving the stack pointer below what is off.

### What is only model-checked

* `Terminates` of `Capture` and `Finishes` of `Layout`: liveness is out of reach of
  the prover.
* `DecodedIsCurrent` and `RoundTrip` of `Recoding`.  The second one compares bytes
  with what the decoder makes of them: decoding what was generated has to be followed
  for each form of an instruction, byte by byte.  The first one depends on where the
  jumps of a program lead to, also into the storage of generated code.
* `Specialise` with three-operand products, JBE, JA, JLE or JG, which the theorems
  leave out: the runs that have them expect a violation.

## Findings

* A full code storage or more than 20 blocks end the process (`layout_fallback`),
  while `README.md` 28-30 promises the original function as fall-back.
* A second `dbrew_rewrite` without setting the function again may generate wrong
  code (`layout_again`): the order of blocks is not reset, and pass 3 starts with
  the entries of the first rewrite.  `Rewriter` has this too; its `CodeIsOfFunction`
  promises nothing for the rewritings that are exposed to it.
* JBE and JA on unknown flags are captured as JLE and JG (`specialise_unsigned`,
  emulate.c 2292, 2304).
* IMUL with three operands is captured with two (`specialise_product`,
  emulate.c 1577).
* Jumps after INC, DEC, NEG are decided on flags of earlier instructions
  (`specialise_flags`).
* CMOVcc is generated without the leading 0F of its opcode (`recoding_cmov`,
  generate.c 821).

Seen while modelling, and part of the models, but not runs of their own:

* Decoder: without a REX prefix MOVZX and MOVSX from AH, CH, DH, BH are decoded as
  from SPL, BPL, SIL, DIL; 66 98 (CBTW) is decoded as CWTL; entries declared to
  ignore the vector length (`VEX_LIG`) are installed for 128 bits only.
* Decoder: when the buffer of instructions is full at the start of a block, the
  assertion at decode.c 2540 reads behind it.
* Generator: MOV of 0 to a register becomes XOR, which changes flags; the immediate
  of a three-operand IMUL is dropped.
* `createCBBfromDBB` does not notice that captured instructions did not fit.
* `dbrew_rewrite_func` always gives up with "number of parameters not set", because
  setting the function resets the configuration just before; dbrew.h 193 and
  examples/strcmp.c use it as if it worked.  For the same reason anything configured
  before `dbrew_set_function` is lost.
* `dbrew_set_decoding_capacity` after `dbrew_set_function` makes decoding reset the
  rewriter in the middle of capturing, and an assertion ends the process;
  `dbrew_set_capture_capacity` there does so at once.
* `dbrew_decode_print` drops decoded blocks but not their instructions, so the
  buffer fills up; decoding the same again is not free.
* `dbrew_set_capture_capacity` frees the code storage and keeps the address of the
  code in it (`CodeIsOfFunction` excepts this: `cs`).
* On an error the address is that of the original function, while the size stays
  that of earlier code.
* If the generation order is exactly full, its terminating 0 is stored on
  `addInliningHints` and `doCopyPass`: later rewritings go without (`link`).
* The pool of expressions is never emptied: after some 170 rewritings with six
  parameters an assertion ends the process, although `dbrew_set_function` is to
  "reset all decoding/state" (dbrew.c 107).
* Variants of kernels on pointers always fail the last assertion of
  `runVectorization`, as does ADDSD for vectors of 32 bytes.
* JLE and JG on known flags look at zero and sign, not at overflow as JL and JGE do
  (emulate.c 2358, 2370): with a known parameter of -8, words of 4 bits, `CMP DI, 1`
  and JLE go on where the function does not.  Found when proving
  `KnownJumpsAreRight`, which leaves them out, as do the instances.
* `esIsEqual` takes unknown data on the stack and stack that was never accessed as
  the same if the saved state keeps less of the stack: data below the stack pointer
  may get lost where paths merge.

## Not modelled

In the emulator: operand widths and conversions (MOVSX, CLTQ, CWTL), scales,
segments and addressing by the instruction pointer, JMP and indirect jumps,
expressions (`parDep`) and inlining hints.  Stores to memory while rewriting are
made to a copy (`es.mem`), where the code writes to the memory of the process.

In the API: freeing a rewriter, printing options, and what is declared in dbrew.h
without a definition.  In the vectorizer: the code of the snippets, and which
register holds which vector.

Printing and the text of errors have no influence on what is rewritten.  The LLVM
back-end is calls of the LLVM library, whose code is not part of the repository;
its basic blocks are those captured, linked in the same way.
