------------------------------- MODULE Layout -------------------------------
(***************************************************************************)
(* The code layout of the generator back-end: generateBinaryFromCaptured   *)
(* (src/src/engine.c) on top of the code storage (src/src/buffers.c).      *)
(*                                                                         *)
(* Pass 1 generates each captured block, depth first from the entry, with  *)
(* a hole behind it big enough for any jump.  Pass 2 moves the blocks      *)
(* together, in place, keeping just the room for the jumps needed; whether *)
(* the short form of a conditional jump is used is decided on the          *)
(* distances of pass 1.  Pass 3 writes the jumps.                          *)
(*                                                                         *)
(* Machine code is abstracted to what the layout depends on: the number of *)
(* bytes of a block, and for jumps the displacement written.  The memory   *)
(* is the sequence of stores made to it.                                   *)
(*                                                                         *)
(* A definition commented "Fault" is not part of the model: it is what an  *)
(* error in the code would make of the definition behind it.               *)
(***************************************************************************)
EXTENDS Integers, Sequences

CONSTANTS
  Graphs,            \* tables of captured blocks: how they end, and where to
  Bodies,            \* what generating the instructions of a block may yield
  base,              \* r->cs->buf, the start of the code storage
  fullsize,          \* r->cs->fullsize, its size in bytes
  CAPTURESTACK_LEN,  \* bound of the capture stack
  GENORDER_MAX,      \* bound of the generation order
  MaxRewrites        \* bound: rewrites with one rewriter

\* Fault: the hole is big enough for a conditional jump only.
NoHole == 6

\* Bytes: of the hole left behind a block, of the two forms of a conditional
\* jump, of a jump; and the most that one instruction may take.
Hole       == 26
Jcc8Bytes  == 2
Jcc32Bytes == 6
JumpBytes  == 5
InstrBytes == 15

\* A captured block ends with a conditional jump or with a return.
Exit == [ endType : {"jcc", "ret"}, nextBranch : Nat, nextFallThrough : Nat ]

\* `last' is the offset of the last of `count' instructions.
Body == [ count : Nat, size : Nat, last : Nat ]

ASSUME LayoutConstants ==
  /\ Graphs \subseteq Seq(Exit)
  /\ \A g \in Graphs :
       /\ Len(g) > 0
       /\ \A b \in 1 .. Len(g) : g[b].endType = "jcc" =>
            {g[b].nextBranch, g[b].nextFallThrough} \subseteq 1 .. Len(g)
  /\ Bodies \subseteq Body
  /\ \A body \in Bodies :
       /\ body.last <= body.size /\ body.size <= body.last + InstrBytes
       /\ body.count = 0 => body.size = 0
  /\ base \in Nat /\ base % 64 = 0
  /\ fullsize \in Nat
  /\ CAPTURESTACK_LEN \in Nat \ {0} /\ GENORDER_MAX \in Nat \ {0}
  /\ MaxRewrites \in Nat

\* Every block but the first is a successor of a block captured before, which
\* is what the property Discovered of Capture says of the blocks handed over.
ASSUME BlocksDiscovered ==
  \A g \in Graphs : \A b \in 2 .. Len(g) :
    \E a \in 1 .. (b - 1) :
      g[a].endType = "jcc" /\ b \in {g[a].nextBranch, g[a].nextFallThrough}

VARIABLES
  capBB,              \* the captured blocks
  capStack,           \* blocks still to generate, last one on top
  genOrder,           \* blocks in the order generated
  genOrder0,          \* how many of these are left from earlier rewrites
  used,               \* r->cs->used, bytes in use of the code storage
  buf0,               \* where this code starts
  buf1,               \* end of what has been placed in pass 2
  i,                  \* position in genOrder in passes 2 and 3
  pass,               \* "captured", "generate", "place", "link"; at the end
                      \* "done", "failed", "aborted" or "exited"
  stores,             \* all stores to the code storage, in order
  generatedCodeAddr,
  generatedCodeSize,
  rewrites            \* number of rewrites so far

vars == << capBB, capStack, genOrder, genOrder0, used, buf0, buf1, i, pass,
           stores, generatedCodeAddr, generatedCodeSize, rewrites >>

----------------------------------------------------------------------------
CBB == [ endType         : {"jcc", "ret"},
         nextBranch      : Nat,
         nextFallThrough : Nat,
         size            : Nat \cup {-1},
         addr1           : Nat,
         addr2           : Nat,
         genJcc8         : BOOLEAN,
         genJump         : BOOLEAN ]

\* A block as capturing leaves it.
NotGenerated(x) ==
  [ endType |-> x.endType, nextBranch |-> x.nextBranch,
    nextFallThrough |-> x.nextFallThrough, size |-> -1, addr1 |-> 0,
    addr2 |-> 0, genJcc8 |-> FALSE, genJump |-> FALSE ]

\* The block ends with a conditional jump.
IsJcc(b) == capBB[b].endType = "jcc"

(***************************************************************************)
(* The memory.  A store is recorded with its address, its length and what  *)
(* is there from then on: the body of a block or a jump to an address.     *)
(***************************************************************************)
BodyOf(b)    == << "body", b >>
JccTo(a)     == << "jcc", a >>
JumpTo(a)    == << "jmp", a >>

Store(a, n, what) == [ at |-> a, len |-> n, what |-> what ]

\* No byte of the n bytes at address a is written by store s.
Apart(s, a, n) == s.at + s.len <= a \/ a + n <= s.at

\* The n bytes at address a are, as a whole, what was stored there.
Shows(mem, a, n, what) ==
  \E k \in 1 .. Len(mem) :
    /\ mem[k] = Store(a, n, what)
    /\ \A l \in (k + 1) .. Len(mem) : Apart(mem[l], a, n)

\* Displacements are cast to a signed byte.
Int8(d) == ((d + 128) % 256) - 128

----------------------------------------------------------------------------
Init ==
  /\ \E g \in Graphs : capBB = [b \in 1 .. Len(g) |-> NotGenerated(g[b])]
  /\ capStack = << >>
  /\ genOrder = << >> /\ genOrder0 = 0
  /\ used = 0 /\ buf0 = base /\ buf1 = base
  /\ i = 1
  /\ pass = "captured"
  /\ stores = << >>
  /\ generatedCodeAddr = 0 /\ generatedCodeSize = 0
  /\ rewrites = 1

\* Align to a cache line and start with the block captured first.
Begin ==
  /\ pass = "captured"
  /\ used' = used + ((64 - ((base + used) % 64)) % 64)
  /\ buf0' = base + used'
  /\ genOrder0' = Len(genOrder)
  /\ capStack' = << 1 >>
  /\ pass' = "generate"
  /\ UNCHANGED << capBB, genOrder, buf1, i, stores, generatedCodeAddr,
                  generatedCodeSize, rewrites >>

----------------------------------------------------------------------------
(***************************************************************************)
(* Pass 1: generate blocks                                                 *)
(***************************************************************************)
Top == capStack[Len(capStack)]

\* Fault: the top of the stack is looked at, but not taken off.
NotPopped == capStack

Popped == SubSeq(capStack, 1, Len(capStack) - 1)

\* Fault: a block without instructions counts as not generated.
HandledNonEmpty(b) == capBB[b].size > 0

Handled(b) == capBB[b].size >= 0

\* A block that was pushed more than once is generated only once.
Skip ==
  /\ pass = "generate" /\ Len(capStack) > 0
  /\ Handled(Top)
  /\ capStack' = Popped
  /\ UNCHANGED << capBB, genOrder, genOrder0, used, buf0, buf1, i, pass, stores,
                  generatedCodeAddr, generatedCodeSize, rewrites >>

\* The next block is taken from the stack and put into the order.
Generating ==
  /\ pass = "generate" /\ Len(capStack) > 0
  /\ ~Handled(Top)

\* Fault: the order is not checked for its bound.
AppendedUnchecked == genOrder' = Append(genOrder, Top)

Appended ==
  /\ Len(genOrder) < GENORDER_MAX
  /\ genOrder' = Append(genOrder, Top)

\* The assertion on the length of the order stops the program.
OrderFull ==
  /\ Generating
  /\ Len(genOrder) >= GENORDER_MAX
  /\ capStack' = Popped
  /\ pass' = "aborted"
  /\ UNCHANGED << capBB, genOrder, genOrder0, used, buf0, buf1, i, stores,
                  generatedCodeAddr, generatedCodeSize, rewrites >>

\* An instruction is captured that the generator does not support.
GenerateError ==
  /\ Generating /\ Appended
  /\ capStack' = Popped
  /\ generatedCodeAddr' = 0 /\ generatedCodeSize' = 0
  /\ pass' = "failed"
  /\ UNCHANGED << capBB, genOrder0, used, buf0, buf1, i, stores, rewrites >>

\* What may be generated for block b; captureRet captures a return, so a
\* block that ends with one is not empty.
BodiesOf(b) == { body \in Bodies : IsJcc(b) \/ body.size > 0 }

\* reserveCodeStorage asks for the longest instruction each time.
Reserved(body) ==
  body.count > 0 => fullsize - (used + body.last) >= InstrBytes

\* The storage is too small: reserveCodeStorage ends the process.
StorageFull ==
  /\ Generating /\ Appended
  /\ \E body \in BodiesOf(Top) : ~Reserved(body)
  /\ capStack' = Popped
  /\ pass' = "exited"
  /\ UNCHANGED << capBB, genOrder0, used, buf0, buf1, i, stores,
                  generatedCodeAddr, generatedCodeSize, rewrites >>

\* The stack with both successors of block b pushed, for a conditional jump.
Pushed(b) ==
  Append(Append(Popped, capBB[b].nextBranch), capBB[b].nextFallThrough)

StoredBody(body) ==
  IF body.size = 0 THEN stores
  ELSE Append(stores, Store(base + used, body.size, BodyOf(Top)))

\* Generate the block taken from the stack and leave a hole behind it.
Generate ==
  /\ Generating /\ Appended
  /\ \E body \in BodiesOf(Top) :
       /\ Reserved(body)
       /\ capBB' = [capBB EXCEPT ![Top].size = body.size,
                                 ![Top].addr1 = base + used]
       /\ stores' = StoredBody(body)
       /\ \/ /\ IsJcc(Top) => Len(capStack) + 1 <= CAPTURESTACK_LEN
             /\ fullsize - (used + body.size) >= Hole
             /\ capStack' = IF IsJcc(Top) THEN Pushed(Top) ELSE Popped
             /\ used' = used + body.size + Hole
             /\ UNCHANGED pass
          \/ \* no room to push both successors: an error is returned
             /\ IsJcc(Top) /\ Len(capStack) + 1 > CAPTURESTACK_LEN
             /\ capStack' = SubSeq(Pushed(Top), 1, CAPTURESTACK_LEN)
             /\ used' = used + body.size
             /\ pass' = "failed"
          \/ \* no room for the hole: an assertion stops the program
             /\ IsJcc(Top) => Len(capStack) + 1 <= CAPTURESTACK_LEN
             /\ fullsize - (used + body.size) < Hole
             /\ capStack' = IF IsJcc(Top) THEN Pushed(Top) ELSE Popped
             /\ used' = used + body.size
             /\ pass' = "aborted"
  /\ UNCHANGED << genOrder0, buf0, buf1, i, generatedCodeAddr,
                  generatedCodeSize, rewrites >>

\* All blocks are generated.  (The store of a 0 behind the last entry of
\* genOrder is left out: if the order is full it hits unrelated fields.)
EndGenerate ==
  /\ pass = "generate" /\ Len(capStack) = 0
  /\ buf1' = buf0
  /\ i' = genOrder0 + 1
  /\ pass' = "place"
  /\ UNCHANGED << capBB, capStack, genOrder, genOrder0, used, buf0, stores,
                  generatedCodeAddr, generatedCodeSize, rewrites >>

----------------------------------------------------------------------------
(***************************************************************************)
(* Pass 2: move blocks together                                            *)
(***************************************************************************)

\* The distance of a branch in pass 1.
Diff1(b) == capBB[capBB[b].nextBranch].addr1 - (capBB[b].addr1 + capBB[b].size)

\* Fault: the limits of a signed byte, without room for the jump itself.
NearExact(b) == -129 < Diff1(b) /\ Diff1(b) < 128

\* A short jump will do.
Near(b) == -120 < Diff1(b) /\ Diff1(b) < 120

\* The block control falls through to is placed next.
Follows(b) == i < Len(genOrder) /\ genOrder[i + 1] = capBB[b].nextFallThrough

\* Fault: the room for the jump to the block to fall through to is missing.
TrailerShort(b) ==
  IF ~IsJcc(b) THEN 0
  ELSE IF capBB[b].genJcc8 \/ Near(b) THEN Jcc8Bytes ELSE Jcc32Bytes

\* Bytes needed behind block b.
Trailer(b) ==
  IF ~IsJcc(b) THEN 0
  ELSE (IF capBB[b].genJcc8 \/ Near(b) THEN Jcc8Bytes ELSE Jcc32Bytes)
       + (IF Follows(b) THEN 0 ELSE JumpBytes)

\* Copying from the front moves a block as a whole, if it moves down and its
\* bytes are still there.
Copied(b) ==
  LET n == capBB[b].size
  IN IF n = 0 THEN stores
     ELSE Append(stores,
            Store(buf1, n, IF /\ buf1 <= capBB[b].addr1
                              /\ Shows(stores, capBB[b].addr1, n, BodyOf(b))
                           THEN BodyOf(b) ELSE << "garbage" >>))

Place ==
  /\ pass = "place" /\ i <= Len(genOrder)
  /\ LET b == genOrder[i]
     IN /\ capBB' = [capBB EXCEPT
                       ![b].addr2 = buf1,
                       ![b].genJcc8 = @ \/ (IsJcc(b) /\ Near(b)),
                       ![b].genJump = @ \/ (IsJcc(b) /\ ~Follows(b))]
        /\ stores' = Copied(b)
        /\ buf1' = buf1 + capBB[b].size + Trailer(b)
  /\ i' = i + 1
  /\ UNCHANGED << capStack, genOrder, genOrder0, used, buf0, pass,
                  generatedCodeAddr, generatedCodeSize, rewrites >>

EndPlace ==
  /\ pass = "place" /\ i > Len(genOrder)
  /\ used' = buf1 - base
  /\ i' = 1
  /\ pass' = "link"
  /\ UNCHANGED << capBB, capStack, genOrder, genOrder0, buf0, buf1, stores,
                  generatedCodeAddr, generatedCodeSize, rewrites >>

----------------------------------------------------------------------------
(***************************************************************************)
(* Pass 3: fill trailing bytes with jumps                                  *)
(***************************************************************************)
End2(b) == capBB[b].addr2 + capBB[b].size

JccBytes(b) == IF capBB[b].genJcc8 THEN Jcc8Bytes ELSE Jcc32Bytes

\* The distance from behind the conditional jump to its target.
Diff2(b) == capBB[capBB[b].nextBranch].addr2 - (End2(b) + JccBytes(b))

\* Fault: the distance is taken from the start of the jump.
JccStoreFromStart(b) ==
  LET d == capBB[capBB[b].nextBranch].addr2 - End2(b)
  IN Store(End2(b), JccBytes(b), JccTo(End2(b) + JccBytes(b) + d))

JccStore(b) ==
  LET d == IF capBB[b].genJcc8 THEN Int8(Diff2(b)) ELSE Diff2(b)
  IN Store(End2(b), JccBytes(b), JccTo(End2(b) + JccBytes(b) + d))

JumpStore(b) ==
  LET a == End2(b) + JccBytes(b)
      d == capBB[capBB[b].nextFallThrough].addr2 - (a + JumpBytes)
  IN Store(a, JumpBytes, JumpTo(a + JumpBytes + d))

\* All entries of the order are linked, not only those placed just before.
Link ==
  /\ pass = "link" /\ i <= Len(genOrder)
  /\ LET b == genOrder[i]
     IN stores' = IF ~IsJcc(b) THEN stores
                  ELSE IF capBB[b].genJump
                       THEN stores \o << JccStore(b), JumpStore(b) >>
                       ELSE Append(stores, JccStore(b))
  /\ i' = i + 1
  /\ UNCHANGED << capBB, capStack, genOrder, genOrder0, used, buf0, buf1, pass,
                  generatedCodeAddr, generatedCodeSize, rewrites >>

Finish ==
  /\ pass = "link" /\ i > Len(genOrder)
  /\ generatedCodeAddr' = capBB[genOrder[1]].addr2
  /\ generatedCodeSize' = used - (generatedCodeAddr' - base)
  /\ pass' = "done"
  /\ UNCHANGED << capBB, capStack, genOrder, genOrder0, used, buf0, buf1, i,
                  stores, rewrites >>

Next ==
  \/ Begin \/ Skip \/ OrderFull \/ GenerateError \/ StorageFull \/ Generate
  \/ EndGenerate \/ Place \/ EndPlace \/ Link \/ Finish

Spec == Init /\ [][Next]_vars

\* The generator is one sequential function.
FairSpec == Spec /\ WF_vars(Next)

(***************************************************************************)
(* dbrew_rewrite called again for the same rewriter, without setting the   *)
(* function again: emulateAndCapture resets the captured blocks, the stack *)
(* and the code storage.  Blocks beyond those captured now stay in the     *)
(* table as they are; the order is not reset.  (Also possible after an      *)
(* error, which is left out here.)                                         *)
(***************************************************************************)
RewriteAgain ==
  /\ pass = "done" /\ rewrites < MaxRewrites
  /\ \E g \in Graphs :
       capBB' = [b \in 1 .. (IF Len(g) < Len(capBB) THEN Len(capBB) ELSE Len(g)) |->
                   IF b <= Len(g) THEN NotGenerated(g[b]) ELSE capBB[b]]
  /\ capStack' = << >>
  /\ used' = 0
  /\ rewrites' = rewrites + 1
  /\ pass' = "captured"
  /\ UNCHANGED << genOrder, genOrder0, buf0, buf1, i, stores,
                  generatedCodeAddr, generatedCodeSize >>

SpecAgain == Init /\ [][Next \/ RewriteAgain]_vars

----------------------------------------------------------------------------
(***************************************************************************)
(* Properties                                                              *)
(***************************************************************************)

\* Every variable holds a value of the kind the C structures can hold.
TypeOK ==
  /\ capBB \in Seq(CBB)
  /\ capStack \in Seq(Nat)
  /\ genOrder \in Seq(Nat) /\ Len(genOrder) <= GENORDER_MAX
  /\ genOrder0 \in Nat
  /\ used \in Nat /\ buf0 \in Nat /\ buf1 \in Nat /\ i \in Nat
  /\ pass \in {"captured", "generate", "place", "link", "done", "failed",
               "aborted", "exited"}
  /\ generatedCodeAddr \in Nat /\ generatedCodeSize \in Nat
  /\ rewrites \in Nat

\* Blocks generated by this rewrite.
Current == { genOrder[k] : k \in (genOrder0 + 1) .. Len(genOrder) }

\* The machine code at the end is the captured program: at the address of each
\* block are its instructions, behind them the conditional jump to where the
\* block it branches to is, and then the block it falls through to or a jump
\* there.  No copy and no jump has destroyed anything.
LinkedCode ==
  pass = "done" =>
    \A b \in Current :
      LET x   == capBB[b]
          jcc == End2(b) + JccBytes(b)
      IN /\ x.size > 0 => Shows(stores, x.addr2, x.size, BodyOf(b))
         /\ IsJcc(b) =>
              /\ {x.nextBranch, x.nextFallThrough} \subseteq Current
              /\ Shows(stores, End2(b), JccBytes(b), JccTo(capBB[x.nextBranch].addr2))
              /\ \/ capBB[x.nextFallThrough].addr2 = jcc
                 \/ Shows(stores, jcc, JumpBytes,
                          JumpTo(capBB[x.nextFallThrough].addr2))

\* The assertion in pass 3: short jumps decided on in pass 1 reach their
\* target in the final layout.
ShortJumpsReach ==
  pass \in {"link", "done"} =>
    \A b \in Current :
      IsJcc(b) /\ capBB[b].genJcc8 => -128 < Diff2(b) /\ Diff2(b) < 127

\* The assertion in pass 2, made stronger: a block placed later is moved down
\* at least as far as the ones before, and none is moved up.
MovesDown ==
  pass \in {"place", "link", "done"} =>
    \A k, l \in (genOrder0 + 1) .. Len(genOrder) :
      k <= l /\ (pass = "place" => l < i) =>
        LET x == capBB[genOrder[k]]
            y == capBB[genOrder[l]]
        IN 0 <= x.addr1 - x.addr2 /\ x.addr1 - x.addr2 <= y.addr1 - y.addr2

\* Pass 1 reaches every captured block, and generates each only once.
EachOnce ==
  /\ \A k, l \in (genOrder0 + 1) .. Len(genOrder) :
       genOrder[k] = genOrder[l] => k = l
  /\ pass \in {"place", "link", "done"} => Current = 1 .. Len(capBB)

\* No store is outside of the code storage, and when finished, all code that
\* counts is in the part returned as generated code.
InStorage ==
  /\ \A k \in 1 .. Len(stores) :
       base <= stores[k].at /\ stores[k].at + stores[k].len <= base + fullsize
  /\ pass = "done" =>
       \A b \in Current :
         /\ generatedCodeAddr <= capBB[b].addr2
         /\ End2(b) + (IF IsJcc(b) THEN JccBytes(b) ELSE 0)
                    + (IF capBB[b].genJump THEN JumpBytes ELSE 0)
              <= generatedCodeAddr + generatedCodeSize

\* Generating comes to an end, although the graph may have cycles.
Finishes == <>(pass \in {"done", "failed", "aborted", "exited"})

\* "on error, return original function": the process lives on to do so.
FallBack == pass \notin {"aborted", "exited"}
=============================================================================
