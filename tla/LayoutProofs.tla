---------------------------- MODULE LayoutProofs ----------------------------
(***************************************************************************)
(* Proofs about Layout, for every table of captured blocks, all sizes of   *)
(* code and all bounds: what pass 1 generates, the addresses of the blocks *)
(* in passes 1 and 2, and the distances of short jumps.  They are about    *)
(* rewriting once (Spec); rewriting again goes wrong (SpecAgain).          *)
(***************************************************************************)
EXTENDS Layout, WellFoundedInduction, TLAPS

\* Nothing has gone wrong so far.
Live == pass \in {"captured", "generate", "place", "link", "done"}

\* The successors of a block that ends with a conditional jump are in the
\* table, and every block but the first has a predecessor in front of it.
LinksValid ==
  /\ Len(capBB) > 0
  /\ \A b \in 1 .. Len(capBB) : IsJcc(b) =>
       capBB[b].nextBranch \in 1 .. Len(capBB)
       /\ capBB[b].nextFallThrough \in 1 .. Len(capBB)
  /\ \A b \in 2 .. Len(capBB) : \E a \in 1 .. (b - 1) :
       IsJcc(a) /\ b \in {capBB[a].nextBranch, capBB[a].nextFallThrough}

\* A rewriter that was not used before: no blocks of an earlier rewrite.
FirstRewrite ==
  /\ genOrder0 = 0
  /\ pass = "captured" => genOrder = << >> /\ stores = << >> /\ used = 0

\* Entries of the stack and of the order are blocks, the latter all different.
RefsValid ==
  /\ \A k \in 1 .. Len(capStack) : capStack[k] \in 1 .. Len(capBB)
  /\ \A k \in 1 .. Len(genOrder) : genOrder[k] \in 1 .. Len(capBB)
  /\ \A k, l \in 1 .. Len(genOrder) : genOrder[k] = genOrder[l] => k = l

\* Block b is in the order.
InOrder(b) == \E k \in 1 .. Len(genOrder) : genOrder[k] = b

OrderIsHandled ==
  Live => \A b \in 1 .. Len(capBB) : Handled(b) <=> InOrder(b)

\* Block b was generated, or it waits on the stack.
Known(b) == Handled(b) \/ \E k \in 1 .. Len(capStack) : capStack[k] = b

\* No block is forgotten: pass 1 knows the first one and what it jumps to.
NoneForgotten ==
  pass = "generate" =>
    /\ Known(1)
    /\ \A b \in 1 .. Len(capBB) : Handled(b) /\ IsJcc(b) =>
         Known(capBB[b].nextBranch) /\ Known(capBB[b].nextFallThrough)

AllHandled ==
  pass \in {"place", "link", "done"} =>
    /\ capStack = << >>
    /\ \A b \in 1 .. Len(capBB) : Handled(b)

\* What the passes know of a block.
BlockTypes ==
  /\ capBB \in Seq(CBB)
  /\ capStack \in Seq(Nat)
  /\ genOrder \in Seq(Nat) /\ Len(genOrder) <= GENORDER_MAX
  /\ used \in Nat /\ i \in Nat /\ i > 0
  /\ buf0 = base /\ buf1 \in Nat /\ base <= buf1

GInv ==
  /\ BlockTypes /\ LinksValid /\ FirstRewrite /\ RefsValid /\ OrderIsHandled
  /\ NoneForgotten /\ AllHandled

----------------------------------------------------------------------------
\* A nonempty set of natural numbers has a least element.
LEMMA LeastElement ==
  ASSUME NEW S, S \subseteq Nat, S # {}
  PROVE  \E k \in S : \A j \in S : k <= j
<1> DEFINE R == OpToRel(<, Nat)
<1>1. IsWellFoundedOn(R, Nat)
  BY NatLessThanWellFounded
<1>2. \A y, x \in Nat : y < x => << y, x >> \in R
  BY DEF OpToRel
<1> HIDE DEF R
<1>3. PICK x \in S : \A y \in S : ~(<< y, x >> \in R)
  BY <1>1, WFMin
<1>4. \A y \in S : ~(y < x)
  BY <1>2, <1>3
<1> QED
  BY <1>3, <1>4

\* The bytes of the jumps, the hole and the longest instruction.
LEMMA Widths ==
  /\ Hole = 26 /\ Jcc8Bytes = 2 /\ Jcc32Bytes = 6 /\ JumpBytes = 5 /\ InstrBytes = 15
  BY DEF Hole, Jcc8Bytes, Jcc32Bytes, JumpBytes, InstrBytes

\* Appending an element, and a sequence without its last one.
LEMMA AppendFacts ==
  ASSUME NEW S, NEW s \in Seq(S), NEW x \in S
  PROVE  /\ Append(s, x) \in Seq(S) /\ Len(Append(s, x)) = Len(s) + 1
         /\ Append(s, x)[Len(s) + 1] = x
         /\ \A k \in 1 .. Len(s) : Append(s, x)[k] = s[k]
  OBVIOUS

\* The first n elements of a sequence.
LEMMA PrefixFacts ==
  ASSUME NEW S, NEW s \in Seq(S), NEW n \in 0 .. Len(s)
  PROVE  LET cut == SubSeq(s, 1, n)
         IN /\ cut \in Seq(S) /\ Len(cut) = n
            /\ \A k \in 1 .. n : cut[k] = s[k]
  OBVIOUS

\* A table in which only the fields of block b that the passes set are changed.
SameExits(b) ==
  /\ Len(capBB') = Len(capBB)
  /\ \A a \in 1 .. Len(capBB) : a # b => capBB'[a] = capBB[a]
  /\ capBB'[b].endType = capBB[b].endType
  /\ capBB'[b].nextBranch = capBB[b].nextBranch
  /\ capBB'[b].nextFallThrough = capBB[b].nextFallThrough

\* Links are right as long as no exit is changed.
LEMMA SameExitsLinks ==
  ASSUME LinksValid, NEW b \in 1 .. Len(capBB), SameExits(b)
  PROVE  LinksValid'
<1>1. /\ Len(capBB') = Len(capBB)
      /\ \A a \in 1 .. Len(capBB) :
           /\ capBB'[a].endType = capBB[a].endType
           /\ capBB'[a].nextBranch = capBB[a].nextBranch
           /\ capBB'[a].nextFallThrough = capBB[a].nextFallThrough
  BY DEF SameExits
<1>2. \A a \in 1 .. Len(capBB) : IsJcc(a)' <=> IsJcc(a)
  BY <1>1 DEF IsJcc
<1>3. \A a \in 1 .. Len(capBB) : IsJcc(a)' =>
        capBB'[a].nextBranch \in 1 .. Len(capBB)
        /\ capBB'[a].nextFallThrough \in 1 .. Len(capBB)
  BY <1>1, <1>2 DEF LinksValid
<1>4. ASSUME NEW c \in 2 .. Len(capBB)
      PROVE  \E a \in 1 .. (c - 1) :
               IsJcc(a)' /\ c \in {capBB'[a].nextBranch, capBB'[a].nextFallThrough}
  <2>1. PICK a \in 1 .. (c - 1) :
               IsJcc(a) /\ c \in {capBB[a].nextBranch, capBB[a].nextFallThrough}
    BY DEF LinksValid
  <2>2. a \in 1 .. Len(capBB)
    OBVIOUS
  <2> QED
    BY <1>1, <1>2, <2>1, <2>2
<1> QED
  BY <1>1, <1>3, <1>4 DEF LinksValid

----------------------------------------------------------------------------
\* A table as capturing hands it over.
LEMMA InitGraph == Init => GInv
<1> SUFFICES ASSUME Init PROVE GInv
  OBVIOUS
<1>1. PICK g \in Graphs : capBB = [b \in 1 .. Len(g) |-> NotGenerated(g[b])]
  BY DEF Init
<1>2. g \in Seq(Exit) /\ Len(g) \in Nat /\ Len(g) > 0
  BY LayoutConstants
<1>3. Len(capBB) = Len(g) /\ capBB \in Seq(CBB)
  <2>1. ASSUME NEW b \in 1 .. Len(g) PROVE NotGenerated(g[b]) \in CBB
    <3>1. g[b] \in Exit
      BY <1>2
    <3> QED
      BY <3>1 DEF NotGenerated, CBB, Exit
  <2> QED
    BY <1>1, <1>2, <2>1
<1>4. \A b \in 1 .. Len(g) :
        /\ capBB[b].endType = g[b].endType /\ capBB[b].nextBranch = g[b].nextBranch
        /\ capBB[b].nextFallThrough = g[b].nextFallThrough /\ capBB[b].size = -1
  BY <1>1 DEF NotGenerated
<1>5. LinksValid
  <2>1. \A b \in 1 .. Len(g) : g[b].endType = "jcc" =>
          g[b].nextBranch \in 1 .. Len(g) /\ g[b].nextFallThrough \in 1 .. Len(g)
    BY LayoutConstants
  <2>2. ASSUME NEW b \in 2 .. Len(g)
        PROVE  \E a \in 1 .. (b - 1) :
                 IsJcc(a) /\ b \in {capBB[a].nextBranch, capBB[a].nextFallThrough}
    <3>1. PICK a \in 1 .. (b - 1) :
                 g[a].endType = "jcc" /\ b \in {g[a].nextBranch, g[a].nextFallThrough}
      BY BlocksDiscovered
    <3>2. a \in 1 .. Len(g)
      BY <1>2, <3>1
    <3> QED
      BY <1>4, <3>1, <3>2 DEF IsJcc
  <2> QED
    BY <1>2, <1>3, <1>4, <2>1, <2>2 DEF LinksValid, IsJcc
<1>6. capStack = << >> /\ genOrder = << >> /\ genOrder0 = 0 /\ used = 0 /\ i = 1
      /\ pass = "captured" /\ stores = << >> /\ buf0 = base /\ buf1 = base
  BY DEF Init
<1>7. BlockTypes
  BY <1>3, <1>6, LayoutConstants DEF BlockTypes
<1>8. Len(capStack) = 0 /\ Len(genOrder) = 0
  BY <1>6
<1>9. OrderIsHandled
  BY <1>3, <1>4, <1>8 DEF OrderIsHandled, Handled, InOrder
<1>10. FirstRewrite /\ RefsValid /\ NoneForgotten /\ AllHandled
  BY <1>6, <1>8 DEF FirstRewrite, RefsValid, NoneForgotten, AllHandled
<1> QED
  BY <1>5, <1>7, <1>9, <1>10 DEF GInv

\* The stack without its top, while generating.
LEMMA TopFacts ==
  ASSUME GInv, Len(capStack) > 0
  PROVE  LET n == Len(capStack)
         IN /\ n \in Nat /\ Top \in 1 .. Len(capBB) /\ capStack[n] = Top
            /\ Popped \in Seq(Nat) /\ Len(Popped) = n - 1
            /\ \A k \in 1 .. (n - 1) : Popped[k] = capStack[k]
            /\ \A k \in 1 .. Len(Popped) : Popped[k] \in 1 .. Len(capBB)
<1>1. capStack \in Seq(Nat) /\ Len(capStack) \in Nat /\ RefsValid
  BY DEF GInv, BlockTypes
<1>2. Len(capStack) - 1 \in 0 .. Len(capStack)
  BY <1>1
<1>3. /\ Popped \in Seq(Nat) /\ Len(Popped) = Len(capStack) - 1
      /\ \A k \in 1 .. (Len(capStack) - 1) : Popped[k] = capStack[k]
  BY <1>1, <1>2, PrefixFacts DEF Popped
<1>4. \A k \in 1 .. Len(capStack) : capStack[k] \in 1 .. Len(capBB)
  BY <1>1 DEF RefsValid
<1>5. Top \in 1 .. Len(capBB) /\ capStack[Len(capStack)] = Top
  BY <1>1, <1>4 DEF Top
<1> QED
  BY <1>1, <1>3, <1>4, <1>5, SMTT(30)

\* The stack with the successors of its former top.
LEMMA PushedFacts ==
  ASSUME GInv, Len(capStack) > 0, IsJcc(Top)
  PROVE  LET n == Len(capStack)
             b == capBB[Top]
         IN /\ Pushed(Top) \in Seq(Nat) /\ Len(Pushed(Top)) = n + 1
            /\ \A k \in 1 .. (n - 1) : Pushed(Top)[k] = capStack[k]
            /\ Pushed(Top)[n] = b.nextBranch /\ Pushed(Top)[n + 1] = b.nextFallThrough
            /\ \A k \in 1 .. (n + 1) : Pushed(Top)[k] \in 1 .. Len(capBB)
<1> DEFINE n == Len(capStack)
           nb == capBB[Top].nextBranch
           nf == capBB[Top].nextFallThrough
<1>1. /\ n \in Nat /\ Popped \in Seq(Nat) /\ Len(Popped) = n - 1
      /\ \A k \in 1 .. (n - 1) : Popped[k] = capStack[k]
      /\ \A k \in 1 .. Len(Popped) : Popped[k] \in 1 .. Len(capBB)
      /\ Top \in 1 .. Len(capBB)
  BY TopFacts
<1>2. nb \in 1 .. Len(capBB) /\ nf \in 1 .. Len(capBB)
  BY <1>1 DEF GInv, LinksValid
<1>3. nb \in Nat /\ nf \in Nat
  BY <1>2
<1>4. Pushed(Top) = Append(Append(Popped, nb), nf)
  BY DEF Pushed
<1> HIDE DEF nb, nf, n
<1>5. /\ Append(Popped, nb) \in Seq(Nat) /\ Len(Append(Popped, nb)) = n
      /\ Append(Popped, nb)[n] = nb
      /\ \A k \in 1 .. (n - 1) : Append(Popped, nb)[k] = Popped[k]
  BY <1>1, <1>3, AppendFacts
<1>6. /\ Pushed(Top) \in Seq(Nat) /\ Len(Pushed(Top)) = n + 1
      /\ Pushed(Top)[n + 1] = nf
      /\ \A k \in 1 .. n : Pushed(Top)[k] = Append(Popped, nb)[k]
  BY <1>3, <1>4, <1>5, AppendFacts
<1>7. n > 0
  BY <1>1 DEF n
<1>8. /\ \A k \in 1 .. (n - 1) : Pushed(Top)[k] = capStack[k]
      /\ Pushed(Top)[n] = nb
  BY <1>1, <1>5, <1>6, <1>7
<1>9. \A k \in 1 .. (n + 1) : k = n + 1 \/ k = n \/ k \in 1 .. (n - 1)
  BY <1>1
<1>10. \A k \in 1 .. (n + 1) : Pushed(Top)[k] \in 1 .. Len(capBB)
  BY <1>1, <1>2, <1>6, <1>8, <1>9
<1> QED
  BY <1>6, <1>8, <1>10 DEF n, nb, nf

\* The order with the block that is taken from the stack.
LEMMA AppendedFacts ==
  ASSUME GInv, Generating, Appended
  PROVE  /\ genOrder' \in Seq(Nat) /\ Len(genOrder') = Len(genOrder) + 1
         /\ Len(genOrder) \in Nat
         /\ Len(genOrder') <= GENORDER_MAX
         /\ \A k \in 1 .. Len(genOrder) : genOrder'[k] = genOrder[k]
         /\ genOrder'[Len(genOrder) + 1] = Top
         /\ \A k \in 1 .. Len(genOrder') : genOrder'[k] \in 1 .. Len(capBB)
         /\ \A k, l \in 1 .. Len(genOrder') : genOrder'[k] = genOrder'[l] => k = l
         /\ \A k \in 1 .. Len(genOrder) : genOrder[k] # Top
<1> DEFINE m == Len(genOrder)
<1>1. genOrder \in Seq(Nat) /\ m \in Nat /\ m < GENORDER_MAX /\ RefsValid
  BY DEF Appended, GInv, BlockTypes
<1>2. Top \in 1 .. Len(capBB) /\ Top \in Nat
  BY TopFacts DEF Generating
<1>3. /\ genOrder' \in Seq(Nat) /\ Len(genOrder') = m + 1
      /\ genOrder'[m + 1] = Top
      /\ \A k \in 1 .. m : genOrder'[k] = genOrder[k]
  BY <1>1, <1>2, AppendFacts DEF Appended
<1>4. \A k \in 1 .. m : genOrder[k] # Top
  <2>1. ~InOrder(Top)
    BY <1>2 DEF GInv, OrderIsHandled, Generating, Live
  <2> QED
    BY <2>1 DEF InOrder
<1>5. \A k \in 1 .. m : genOrder[k] \in 1 .. Len(capBB)
  BY <1>1 DEF RefsValid
<1>6. \A k, l \in 1 .. m : genOrder[k] = genOrder[l] => k = l
  BY <1>1 DEF RefsValid
<1> HIDE DEF m
<1>7. \A k \in 1 .. (m + 1) : k = m + 1 \/ k \in 1 .. m
  BY <1>1 DEF m
<1>8. \A k \in 1 .. (m + 1) : genOrder'[k] \in 1 .. Len(capBB)
  BY <1>2, <1>3, <1>5, <1>7
<1>9. \A k, l \in 1 .. (m + 1) : genOrder'[k] = genOrder'[l] => k = l
  BY <1>3, <1>4, <1>6, <1>7
<1>10. m + 1 <= GENORDER_MAX
  BY <1>1, LayoutConstants
<1> QED
  BY <1>1, <1>3, <1>4, <1>8, <1>9, <1>10 DEF m

----------------------------------------------------------------------------
\* What generating records of the block taken from the stack.
GeneratedAs(body) ==
  capBB' = [capBB EXCEPT ![Top].size = body.size, ![Top].addr1 = base + used]

\* A block with a size and an address is still a block, with the same exit.
LEMMA SizedBlock ==
  ASSUME NEW c \in CBB, NEW n \in Nat, NEW a \in Nat
  PROVE  LET x == [c EXCEPT !.size = n, !.addr1 = a]
         IN /\ x \in CBB /\ x.size = n /\ x.addr1 = a
            /\ x.endType = c.endType /\ x.nextBranch = c.nextBranch
            /\ x.nextFallThrough = c.nextFallThrough
            /\ x.addr2 = c.addr2 /\ x.genJcc8 = c.genJcc8 /\ x.genJump = c.genJump
  BY DEF CBB

\* Only the size and the address of the block generated are changed.
LEMMA GeneratedFacts ==
  ASSUME GInv, Generating, NEW body \in Bodies, GeneratedAs(body)
  PROVE  /\ capBB' \in Seq(CBB) /\ SameExits(Top)
         /\ Top \in 1 .. Len(capBB)
         /\ body.size \in Nat
         /\ capBB'[Top] = [capBB[Top] EXCEPT !.size = body.size,
                                             !.addr1 = base + used]
         /\ capBB'[Top].size = body.size /\ capBB'[Top].addr1 = base + used
         /\ capBB'[Top].size >= 0
         /\ \A b \in 1 .. Len(capBB) : b # Top => (Handled(b)' <=> Handled(b))
<1>1. Top \in 1 .. Len(capBB)
  BY TopFacts DEF Generating
<1>2. capBB \in Seq(CBB) /\ used \in Nat /\ base \in Nat
  BY LayoutConstants DEF GInv, BlockTypes
<1>3. body.size \in Nat
  BY LayoutConstants DEF Body
<1>4. capBB[Top] \in CBB
  BY <1>1, <1>2
<1> DEFINE x == [capBB[Top] EXCEPT !.size = body.size, !.addr1 = base + used]
<1>5. x \in CBB /\ x.size = body.size /\ x.addr1 = base + used
      /\ x.endType = capBB[Top].endType /\ x.nextBranch = capBB[Top].nextBranch
      /\ x.nextFallThrough = capBB[Top].nextFallThrough
  <2> DEFINE c == capBB[Top]
             n == body.size
             a == base + used
  <2>1. c \in CBB /\ n \in Nat /\ a \in Nat
    BY <1>2, <1>3, <1>4
  <2> HIDE DEF c, n, a
  <2>2. LET y == [c EXCEPT !.size = n, !.addr1 = a]
        IN /\ y \in CBB /\ y.size = n /\ y.addr1 = a
           /\ y.endType = c.endType /\ y.nextBranch = c.nextBranch
           /\ y.nextFallThrough = c.nextFallThrough
    BY <2>1, SizedBlock, ZenonT(60)
  <2> QED
    BY <2>2 DEF c, n, a
<1>6. capBB' = [capBB EXCEPT ![Top] = x]
  BY DEF GeneratedAs
<1> HIDE DEF x
<1>7. capBB' \in Seq(CBB) /\ Len(capBB') = Len(capBB) /\ capBB'[Top] = x
      /\ \A b \in 1 .. Len(capBB) : b # Top => capBB'[b] = capBB[b]
  <2> HIDE DEF CBB, Top
  <2> QED
    BY <1>1, <1>2, <1>5, <1>6
<1>8. SameExits(Top)
  BY <1>5, <1>7 DEF SameExits
<1>9. \A b \in 1 .. Len(capBB) : b # Top => (Handled(b)' <=> Handled(b))
  BY <1>7 DEF Handled
<1>10. capBB'[Top].size >= 0
  BY <1>3, <1>5, <1>7
<1> QED
  BY <1>1, <1>3, <1>5, <1>7, <1>8, <1>9, <1>10 DEF x, Handled
\* The order holds exactly the generated blocks, with the one generated now.
LEMMA OrderAfterGenerate ==
  ASSUME GInv, Generating, Appended, NEW body \in Bodies, GeneratedAs(body),
         genOrder0' = genOrder0, pass' # "captured"
  PROVE  OrderIsHandled' /\ FirstRewrite'
<1>1. FirstRewrite'
  BY DEF GInv, FirstRewrite
<1> DEFINE t == Top
<1>2. /\ t \in 1 .. Len(capBB) /\ capBB'[t].size >= 0 /\ Len(capBB') = Len(capBB)
      /\ \A b \in 1 .. Len(capBB) : b # t => (Handled(b)' <=> Handled(b))
  BY GeneratedFacts DEF SameExits
<1>3. /\ Len(genOrder') = Len(genOrder) + 1 /\ Len(genOrder) \in Nat
      /\ \A k \in 1 .. Len(genOrder) : genOrder'[k] = genOrder[k]
      /\ genOrder'[Len(genOrder) + 1] = t
  BY AppendedFacts
<1>4. \A b \in 1 .. Len(capBB) : Handled(b) <=> InOrder(b)
  BY DEF GInv, OrderIsHandled, Live, Generating
<1> HIDE DEF t
<1>5. \A b \in 1 .. Len(capBB) : InOrder(b)' <=> (InOrder(b) \/ b = t)
  <2>1. \A k \in 1 .. (Len(genOrder) + 1) :
          k = Len(genOrder) + 1 \/ k \in 1 .. Len(genOrder)
    BY <1>3
  <2>2. \A k \in 1 .. Len(genOrder) : k \in 1 .. (Len(genOrder) + 1)
    BY <1>3
  <2>3. Len(genOrder) + 1 \in 1 .. (Len(genOrder) + 1)
    BY <1>3
  <2> QED
    BY <1>3, <2>1, <2>2, <2>3 DEF InOrder
<1>6. \A b \in 1 .. Len(capBB) : b = t => Handled(b)'
  BY <1>2 DEF Handled
<1>7. \A b \in 1 .. Len(capBB) : Handled(b)' <=> InOrder(b)'
  BY <1>2, <1>4, <1>5, <1>6
<1> QED
  BY <1>1, <1>2, <1>7 DEF OrderIsHandled

\* A block is generated, and nothing goes wrong.
LEMMA GenerateKnown ==
  ASSUME GInv, Generating, Appended, NEW body \in Bodies, GeneratedAs(body),
         capStack' = IF IsJcc(Top) THEN Pushed(Top) ELSE Popped
  PROVE  /\ NoneForgotten'
         /\ capStack' \in Seq(Nat)
         /\ \A k \in 1 .. Len(capStack') : capStack'[k] \in 1 .. Len(capBB)
<1> DEFINE t == Top
           n == Len(capStack)
<1>1. /\ t \in 1 .. Len(capBB) /\ n \in Nat /\ n > 0
      /\ capStack[n] = t
      /\ Popped \in Seq(Nat) /\ Len(Popped) = n - 1
      /\ \A k \in 1 .. (n - 1) : Popped[k] = capStack[k]
      /\ \A k \in 1 .. Len(Popped) : Popped[k] \in 1 .. Len(capBB)
  BY TopFacts DEF Generating
<1>2. /\ capBB'[t].size >= 0 /\ Len(capBB') = Len(capBB)
      /\ \A b \in 1 .. Len(capBB) : b # t => (Handled(b)' <=> Handled(b))
      /\ SameExits(t)
  BY GeneratedFacts DEF SameExits
<1>3. IsJcc(t) =>
        /\ Pushed(t) \in Seq(Nat) /\ Len(Pushed(t)) = n + 1
        /\ \A k \in 1 .. (n - 1) : Pushed(t)[k] = capStack[k]
        /\ Pushed(t)[n] = capBB[t].nextBranch /\ Pushed(t)[n + 1] = capBB[t].nextFallThrough
        /\ \A k \in 1 .. (n + 1) : Pushed(t)[k] \in 1 .. Len(capBB)
  BY <1>1, PushedFacts
<1>4. capStack' = IF IsJcc(t) THEN Pushed(t) ELSE Popped
  OBVIOUS
<1> HIDE DEF t, n
<1>5. /\ capStack' \in Seq(Nat)
      /\ \A k \in 1 .. Len(capStack') : capStack'[k] \in 1 .. Len(capBB)
      /\ \A k \in 1 .. (n - 1) : k \in 1 .. Len(capStack') /\ capStack'[k] = capStack[k]
  <2>1. CASE IsJcc(t)
    <3>1. capStack' = Pushed(t)
      BY <1>4, <2>1
    <3>2. \A k \in 1 .. (n - 1) : k \in 1 .. (n + 1)
      BY <1>1
    <3> QED
      BY <1>3, <2>1, <3>1, <3>2
  <2>2. CASE ~IsJcc(t)
    <3>1. capStack' = Popped
      BY <1>4, <2>2
    <3> QED
      BY <1>1, <3>1
  <2> QED
    BY <2>1, <2>2
<1>6. \A k \in 1 .. n : k = n \/ k \in 1 .. (n - 1)
  BY <1>1
<1>7. \A b \in 1 .. Len(capBB) : Known(b) => Known(b)'
  <2> SUFFICES ASSUME NEW b \in 1 .. Len(capBB), Known(b) PROVE Known(b)'
    OBVIOUS
  <2>1. CASE b = t
    BY <1>2, <2>1 DEF Known, Handled
  <2>2. CASE b # t /\ Handled(b)
    BY <1>2, <2>2 DEF Known
  <2>3. CASE b # t /\ \E k \in 1 .. n : capStack[k] = b
    BY <1>1, <1>5, <1>6, <2>3 DEF Known
  <2> QED
    BY <2>1, <2>2, <2>3 DEF Known, n
<1>8. NoneForgotten
  BY DEF GInv
<1>9. pass = "generate" /\ LinksValid
  BY DEF Generating, GInv
<1>10. \A b \in 1 .. Len(capBB) : IsJcc(b)' <=> IsJcc(b)
  BY <1>2 DEF IsJcc, SameExits
<1>11. \A b \in 1 .. Len(capBB) :
         capBB'[b].nextBranch = capBB[b].nextBranch
         /\ capBB'[b].nextFallThrough = capBB[b].nextFallThrough
  BY <1>2 DEF SameExits
<1>12. Known(1)'
  BY <1>7, <1>8, <1>9 DEF NoneForgotten, LinksValid
<1>13. ASSUME NEW b \in 1 .. Len(capBB), Handled(b)', IsJcc(b)
       PROVE  \A c \in 1 .. Len(capBB) :
                c = capBB[b].nextBranch \/ c = capBB[b].nextFallThrough => Known(c)'
  <2> DEFINE u == capBB[b].nextBranch
             v == capBB[b].nextFallThrough
  <2> SUFFICES ASSUME NEW c \in 1 .. Len(capBB), c = u \/ c = v PROVE Known(c)'
    OBVIOUS
  <2>2. CASE b # t
    <3>1. Known(u) /\ Known(v)
      BY <1>2, <1>8, <1>9, <1>13, <2>2 DEF NoneForgotten
    <3>2. Known(c)
      BY <3>1
    <3> QED
      BY <1>7, <3>2
  <2>3. CASE b = t
    <3>1. /\ Len(capStack') = n + 1 /\ capStack'[n] = u /\ capStack'[n + 1] = v
      BY <1>3, <1>4, <1>13, <2>3
    <3>2. n \in 1 .. (n + 1) /\ n + 1 \in 1 .. (n + 1)
      BY <1>1
    <3>3. \E k \in 1 .. Len(capStack') : capStack'[k] = c
      BY <3>1, <3>2
    <3> QED
      BY <3>3 DEF Known
  <2> QED
    BY <2>2, <2>3
<1>14. NoneForgotten'
  <2> SUFFICES ASSUME NEW b \in 1 .. Len(capBB), Handled(b)', IsJcc(b)
               PROVE  (Known(capBB[b].nextBranch) /\ Known(capBB[b].nextFallThrough))'
    BY <1>2, <1>10, <1>12 DEF NoneForgotten
  <2> DEFINE u == capBB[b].nextBranch
             v == capBB[b].nextFallThrough
  <2>1. u \in 1 .. Len(capBB) /\ v \in 1 .. Len(capBB)
    BY <1>9 DEF LinksValid
  <2>2. capBB'[b].nextBranch = u /\ capBB'[b].nextFallThrough = v
    BY <1>11
  <2>3. \A c \in 1 .. Len(capBB) : c = u \/ c = v => Known(c)'
    BY <1>13
  <2> HIDE DEF u, v
  <2>4. \A c : (c = u \/ c = v) =>
          capBB'[c].size >= 0 \/ \E k \in 1 .. Len(capStack') : capStack'[k] = c
    BY <2>1, <2>3 DEF Known, Handled
  <2> QED
    BY <2>2, <2>4 DEF Known, Handled
<1> QED
  BY <1>5, <1>14
\* A block placed keeps its size, its first address and its exit.
LEMMA PlacedFacts ==
  ASSUME GInv, Place
  PROVE  LET t == genOrder[i]
         IN /\ t \in 1 .. Len(capBB) /\ i \in 1 .. Len(genOrder)
            /\ capBB' \in Seq(CBB) /\ SameExits(t)
            /\ capBB'[t].size = capBB[t].size /\ capBB'[t].addr1 = capBB[t].addr1
            /\ capBB'[t].addr2 = buf1
            /\ capBB'[t].genJcc8 = (capBB[t].genJcc8 \/ (IsJcc(t) /\ Near(t)))
            /\ capBB'[t].genJump = (capBB[t].genJump \/ (IsJcc(t) /\ ~Follows(t)))
            /\ capBB[t].size \in Nat /\ capBB[t] \in CBB
            /\ buf1' = buf1 + capBB[t].size + Trailer(t)
            /\ Trailer(t) \in Nat
<1> DEFINE t == genOrder[i]
           j == capBB[t].genJcc8 \/ (IsJcc(t) /\ Near(t))
           m == capBB[t].genJump \/ (IsJcc(t) /\ ~Follows(t))
           x == [capBB[t] EXCEPT !.addr2 = buf1, !.genJcc8 = j, !.genJump = m]
<1>1. i \in 1 .. Len(genOrder) /\ t \in 1 .. Len(capBB)
  <2>1. i \in Nat /\ i > 0 /\ genOrder \in Seq(Nat) /\ i <= Len(genOrder) /\ RefsValid
    BY DEF Place, GInv, BlockTypes
  <2>2. i \in 1 .. Len(genOrder)
    BY <2>1
  <2> QED
    BY <2>1, <2>2 DEF RefsValid
<1>2. capBB \in Seq(CBB) /\ buf1 \in Nat
  BY DEF GInv, BlockTypes
<1>3. capBB[t] \in CBB
  BY <1>1, <1>2
<1>4. capBB[t].size \in Nat
  <2>1. capBB[t].size \in Nat \cup {-1}
    BY <1>3 DEF CBB
  <2>2. capBB[t].size >= 0
    BY <1>1 DEF GInv, AllHandled, Place, Handled
  <2> QED
    BY <2>1, <2>2
<1>5. capBB' = [capBB EXCEPT ![t] = x]
  BY DEF Place
<1>6. /\ x \in CBB /\ x.size = capBB[t].size /\ x.addr1 = capBB[t].addr1
      /\ x.endType = capBB[t].endType /\ x.nextBranch = capBB[t].nextBranch
      /\ x.nextFallThrough = capBB[t].nextFallThrough
      /\ x.addr2 = buf1 /\ x.genJcc8 = j /\ x.genJump = m
  <2> DEFINE c == capBB[t]
  <2>1. c \in CBB /\ j \in BOOLEAN /\ m \in BOOLEAN
    BY <1>3 DEF CBB
  <2> HIDE DEF c, j, m
  <2>2. LET y == [c EXCEPT !.addr2 = buf1, !.genJcc8 = j, !.genJump = m]
        IN /\ y \in CBB /\ y.size = c.size /\ y.addr1 = c.addr1
           /\ y.endType = c.endType /\ y.nextBranch = c.nextBranch
           /\ y.nextFallThrough = c.nextFallThrough
           /\ y.addr2 = buf1 /\ y.genJcc8 = j /\ y.genJump = m
    BY <1>2, <2>1 DEF CBB
  <2> QED
    BY <2>2 DEF c
<1> HIDE DEF x
<1>7. /\ capBB' \in Seq(CBB) /\ Len(capBB') = Len(capBB) /\ capBB'[t] = x
      /\ \A b \in 1 .. Len(capBB) : b # t => capBB'[b] = capBB[b]
  BY <1>1, <1>2, <1>5, <1>6
<1>8. SameExits(t)
  BY <1>6, <1>7 DEF SameExits
<1>9. buf1' = buf1 + capBB[t].size + Trailer(t)
  BY DEF Place
<1>10. Trailer(t) \in Nat
  BY Widths DEF Trailer
<1> QED
  BY <1>1, <1>3, <1>4, <1>6, <1>7, <1>8, <1>9, <1>10
\* Beginning: the first block waits on the stack.
LEMMA BeginGraph == ASSUME GInv, Begin PROVE GInv'
<1>1. /\ genOrder = << >> /\ used = 0 /\ genOrder0 = 0
      /\ Len(genOrder) = 0
  BY DEF GInv, FirstRewrite, Begin
<1>2. used' = 0
  <2>1. base + used = base
    BY <1>1, LayoutConstants
  <2>2. (64 - (base % 64)) % 64 = 0
    BY LayoutConstants
  <2> QED
    BY <1>1, <2>1, <2>2 DEF Begin
<1>3. genOrder0' = 0 /\ capBB' = capBB /\ genOrder' = genOrder /\ i' = i /\ buf1' = buf1
      /\ capStack' = << 1 >> /\ pass' = "generate"
  BY <1>1 DEF Begin
<1>4. buf0' = base
  BY <1>2, LayoutConstants DEF Begin
<1>5. Len(capStack') = 1 /\ capStack'[1] = 1 /\ capStack' \in Seq(Nat)
  BY <1>3
<1>6. BlockTypes'
  BY <1>2, <1>3, <1>4, <1>5 DEF GInv, BlockTypes
<1>7. LinksValid'
  BY <1>3 DEF GInv, LinksValid, IsJcc
<1>8. FirstRewrite'
  BY <1>3 DEF FirstRewrite
<1>9. 1 \in 1 .. Len(capBB)
  BY DEF GInv, LinksValid, BlockTypes
<1>10. RefsValid'
  BY <1>1, <1>3, <1>5, <1>9 DEF RefsValid
<1>11. \A b \in 1 .. Len(capBB) : ~Handled(b)
  BY <1>1 DEF GInv, OrderIsHandled, Live, Begin, InOrder
<1>12. OrderIsHandled'
  BY <1>1, <1>3, <1>11 DEF OrderIsHandled, Handled, InOrder
<1>13. NoneForgotten'
  BY <1>3, <1>5, <1>11 DEF NoneForgotten, Known, Handled
<1>14. AllHandled'
  BY <1>3 DEF AllHandled
<1> QED
  BY <1>6, <1>7, <1>8, <1>10, <1>12, <1>13, <1>14 DEF GInv

\* A block taken from the stack that is generated already is forgotten there.
LEMMA SkipGraph == ASSUME GInv, Skip PROVE GInv'
<1> DEFINE n == Len(capStack)
<1>1. /\ Top \in 1 .. Len(capBB) /\ n \in Nat /\ n > 0 /\ capStack[n] = Top
      /\ Popped \in Seq(Nat) /\ Len(Popped) = n - 1
      /\ \A k \in 1 .. (n - 1) : Popped[k] = capStack[k]
      /\ \A k \in 1 .. Len(Popped) : Popped[k] \in 1 .. Len(capBB)
  BY TopFacts DEF Skip
<1>2. capBB' = capBB /\ genOrder' = genOrder /\ genOrder0' = genOrder0 /\ used' = used
      /\ i' = i /\ pass' = pass /\ pass = "generate" /\ capStack' = Popped
      /\ buf0' = buf0 /\ buf1' = buf1 /\ stores' = stores
  BY DEF Skip
<1>3. BlockTypes'
  BY <1>1, <1>2 DEF GInv, BlockTypes
<1>4. LinksValid'
  BY <1>2 DEF GInv, LinksValid, IsJcc
<1>5. FirstRewrite'
  BY <1>2 DEF GInv, FirstRewrite
<1>6. RefsValid'
  BY <1>1, <1>2 DEF GInv, RefsValid
<1>7. OrderIsHandled'
  BY <1>2 DEF GInv, OrderIsHandled, Handled, InOrder, Live
<1>8. AllHandled'
  BY <1>2 DEF AllHandled
<1>9. \A b : Known(b) => Known(b)'
  <2> SUFFICES ASSUME NEW b, Known(b), ~Handled(b)
               PROVE  \E k \in 1 .. Len(capStack') : capStack'[k] = b
    BY <1>2 DEF Known, Handled
  <2>1. PICK k \in 1 .. n : capStack[k] = b
    BY DEF Known
  <2>2. k # n
    BY <1>1, <2>1 DEF Skip
  <2>3. k \in 1 .. (n - 1)
    BY <1>1, <2>1, <2>2
  <2> QED
    BY <1>1, <1>2, <2>1, <2>3
<1>10. NoneForgotten'
  BY <1>2, <1>9, SMTT(30) DEF GInv, NoneForgotten, Handled, IsJcc, Known
<1> QED
  BY <1>3, <1>4, <1>5, <1>6, <1>7, <1>8, <1>10 DEF GInv

\* Generating a block, with all outcomes.
LEMMA GenerateGraph == ASSUME GInv, Generate PROVE GInv'
<1>1. Generating /\ Appended /\ pass = "generate" /\ Len(capStack) > 0
  BY DEF Generate, Generating
<1>2. PICK body \in Bodies :
        /\ Reserved(body) /\ GeneratedAs(body)
        /\ \/ /\ capStack' = IF IsJcc(Top) THEN Pushed(Top) ELSE Popped
              /\ used' = used + body.size + Hole
              /\ UNCHANGED pass
           \/ /\ IsJcc(Top) /\ Len(capStack) + 1 > CAPTURESTACK_LEN
              /\ capStack' = SubSeq(Pushed(Top), 1, CAPTURESTACK_LEN)
              /\ used' = used + body.size
              /\ pass' = "failed"
           \/ /\ capStack' = IF IsJcc(Top) THEN Pushed(Top) ELSE Popped
              /\ used' = used + body.size
              /\ pass' = "aborted"
  BY DEF Generate, GeneratedAs, BodiesOf
<1>3. genOrder0' = genOrder0 /\ i' = i /\ buf0' = buf0 /\ buf1' = buf1
  BY DEF Generate
<1>4. pass' # "captured" /\ pass' \in {"generate", "failed", "aborted"}
  BY <1>1, <1>2
<1>5. OrderIsHandled' /\ FirstRewrite'
  BY <1>1, <1>2, <1>3, <1>4, OrderAfterGenerate
<1>6. /\ capBB' \in Seq(CBB) /\ SameExits(Top) /\ Top \in 1 .. Len(capBB)
      /\ body.size \in Nat /\ Len(capBB') = Len(capBB)
  BY <1>1, <1>2, GeneratedFacts DEF SameExits
<1>7. LinksValid'
  BY <1>6, SameExitsLinks DEF GInv
<1>8. /\ genOrder' \in Seq(Nat) /\ Len(genOrder') <= GENORDER_MAX
      /\ \A k \in 1 .. Len(genOrder') : genOrder'[k] \in 1 .. Len(capBB)
      /\ \A k, l \in 1 .. Len(genOrder') : genOrder'[k] = genOrder'[l] => k = l
  BY <1>1, AppendedFacts
<1>9. used' \in Nat
  <2>1. used \in Nat
    BY DEF GInv, BlockTypes
  <2> QED
    BY <1>2, <1>6, <2>1, Widths
<1>10. AllHandled'
  BY <1>4 DEF AllHandled
<1>11. ASSUME capStack' = IF IsJcc(Top) THEN Pushed(Top) ELSE Popped
       PROVE  GInv'
  <2>1. /\ NoneForgotten' /\ capStack' \in Seq(Nat)
        /\ \A k \in 1 .. Len(capStack') : capStack'[k] \in 1 .. Len(capBB)
    BY <1>1, <1>2, <1>11, GenerateKnown
  <2>2. BlockTypes'
    BY <1>3, <1>6, <1>8, <1>9, <2>1 DEF GInv, BlockTypes
  <2>3. RefsValid'
    BY <1>6, <1>8, <2>1 DEF RefsValid
  <2> QED
    BY <1>5, <1>7, <1>10, <2>1, <2>2, <2>3 DEF GInv
<1>12. ASSUME IsJcc(Top), Len(capStack) + 1 > CAPTURESTACK_LEN,
              capStack' = SubSeq(Pushed(Top), 1, CAPTURESTACK_LEN),
              pass' = "failed"
       PROVE  GInv'
  <2>1. /\ Pushed(Top) \in Seq(Nat) /\ Len(Pushed(Top)) = Len(capStack) + 1
        /\ \A k \in 1 .. (Len(capStack) + 1) : Pushed(Top)[k] \in 1 .. Len(capBB)
    BY <1>1, <1>12, PushedFacts
  <2>2. CAPTURESTACK_LEN \in 0 .. Len(Pushed(Top))
    BY <1>12, <2>1, LayoutConstants
  <2>3. capStack' \in Seq(Nat) /\ Len(capStack') = CAPTURESTACK_LEN
        /\ \A k \in 1 .. CAPTURESTACK_LEN : capStack'[k] = Pushed(Top)[k]
    BY <1>12, <2>1, <2>2, PrefixFacts
  <2>4. \A k \in 1 .. CAPTURESTACK_LEN : k \in 1 .. (Len(capStack) + 1)
    BY <2>1, <2>2
  <2>5. BlockTypes'
    BY <1>3, <1>6, <1>8, <1>9, <2>3 DEF GInv, BlockTypes
  <2>6. RefsValid'
    BY <1>6, <1>8, <2>1, <2>3, <2>4 DEF RefsValid
  <2>7. NoneForgotten'
    BY <1>12 DEF NoneForgotten
  <2> QED
    BY <1>5, <1>7, <1>10, <2>5, <2>6, <2>7 DEF GInv
<1> QED
  BY <1>2, <1>11, <1>12

\* Generating stops: the order is full, an error, no code storage.
LEMMA StopGraph ==
  ASSUME GInv, OrderFull \/ GenerateError \/ StorageFull
  PROVE  GInv'
<1>1. /\ Generating /\ Len(capStack) > 0
      /\ capStack' = Popped /\ capBB' = capBB /\ genOrder0' = genOrder0 /\ i' = i
      /\ used' = used /\ buf0' = buf0 /\ buf1' = buf1
      /\ pass' \in {"aborted", "failed", "exited"}
      /\ genOrder' = genOrder \/ Appended
  BY DEF OrderFull, GenerateError, StorageFull, Generating
<1>2. /\ Popped \in Seq(Nat)
      /\ \A k \in 1 .. Len(Popped) : Popped[k] \in 1 .. Len(capBB)
  BY <1>1, TopFacts
<1>3. /\ genOrder' \in Seq(Nat) /\ Len(genOrder') <= GENORDER_MAX
      /\ \A k \in 1 .. Len(genOrder') : genOrder'[k] \in 1 .. Len(capBB)
      /\ \A k, l \in 1 .. Len(genOrder') : genOrder'[k] = genOrder'[l] => k = l
  <2>1. CASE Appended
    BY <1>1, <2>1, AppendedFacts
  <2>2. CASE genOrder' = genOrder
    BY <2>2 DEF GInv, RefsValid, BlockTypes
  <2> QED
    BY <1>1, <2>1, <2>2
<1>4. BlockTypes'
  BY <1>1, <1>2, <1>3 DEF GInv, BlockTypes
<1>5. LinksValid'
  BY <1>1 DEF GInv, LinksValid, IsJcc
<1>6. RefsValid'
  BY <1>1, <1>2, <1>3 DEF RefsValid
<1>7. FirstRewrite' /\ NoneForgotten' /\ AllHandled' /\ OrderIsHandled'
  BY <1>1 DEF GInv, FirstRewrite, NoneForgotten, AllHandled, OrderIsHandled, Live
<1> QED
  BY <1>4, <1>5, <1>6, <1>7 DEF GInv

\* When the stack is empty, all captured blocks are generated: the first that is
\* not would be a successor of one in front of it, which is.
LEMMA EndGenerateGraph == ASSUME GInv, EndGenerate PROVE GInv'
<1>1. /\ capBB' = capBB /\ capStack' = capStack /\ genOrder' = genOrder
      /\ genOrder0' = genOrder0 /\ used' = used /\ buf0' = buf0
      /\ buf1' = buf0 /\ i' = genOrder0 + 1 /\ pass' = "place" /\ pass = "generate"
      /\ Len(capStack) = 0
  BY DEF EndGenerate
<1>2. genOrder0 = 0 /\ NoneForgotten /\ LinksValid /\ capStack \in Seq(Nat)
      /\ capBB \in Seq(CBB) /\ buf0 = base
  BY DEF GInv, FirstRewrite, BlockTypes
<1>3. \A b : Known(b) => Handled(b)
  BY <1>1 DEF Known
<1>4. \A b \in 1 .. Len(capBB) : Handled(b)
  <2> DEFINE missing == { b \in 1 .. Len(capBB) : ~Handled(b) }
  <2>1. SUFFICES ASSUME missing # {} PROVE FALSE
    OBVIOUS
  <2>2. missing \subseteq Nat
    BY <1>2
  <2>3. PICK b \in missing : \A c \in missing : b <= c
    BY <2>1, <2>2, LeastElement
  <2>4. b # 1
    BY <1>1, <1>2, <1>3, <2>3 DEF NoneForgotten
  <2>5. b \in 2 .. Len(capBB) /\ ~Handled(b)
    BY <2>3, <2>4
  <2>6. PICK a \in 1 .. (b - 1) :
          IsJcc(a) /\ b \in {capBB[a].nextBranch, capBB[a].nextFallThrough}
    BY <1>2, <2>5 DEF LinksValid
  <2>7. a \in 1 .. Len(capBB) /\ ~(b <= a)
    BY <1>2, <2>5, <2>6
  <2>8. Handled(a)
    BY <2>3, <2>7
  <2>9. Known(capBB[a].nextBranch) /\ Known(capBB[a].nextFallThrough)
    BY <1>1, <1>2, <2>6, <2>7, <2>8 DEF NoneForgotten
  <2>10. Handled(b)
    BY <1>3, <2>6, <2>9
  <2> QED
    BY <2>5, <2>10
<1>5. capStack = << >>
  BY <1>1, <1>2
<1>6. AllHandled'
  BY <1>1, <1>4, <1>5 DEF AllHandled, Handled
<1>7. BlockTypes'
  BY <1>1, <1>2, LayoutConstants DEF GInv, BlockTypes
<1>8. LinksValid'
  BY <1>1 DEF GInv, LinksValid, IsJcc
<1>9. RefsValid'
  BY <1>1 DEF GInv, RefsValid
<1>10. FirstRewrite' /\ NoneForgotten'
  BY <1>1, <1>2 DEF FirstRewrite, NoneForgotten
<1>11. OrderIsHandled'
  BY <1>1 DEF GInv, OrderIsHandled, Handled, InOrder, Live
<1> QED
  BY <1>6, <1>7, <1>8, <1>9, <1>10, <1>11 DEF GInv

\* Placing a block.
LEMMA PlaceGraph == ASSUME GInv, Place PROVE GInv'
<1> DEFINE t == genOrder[i]
<1>1. /\ t \in 1 .. Len(capBB) /\ capBB' \in Seq(CBB) /\ SameExits(t)
      /\ capBB'[t].size = capBB[t].size /\ capBB[t].size \in Nat
      /\ buf1' = buf1 + capBB[t].size + Trailer(t) /\ Trailer(t) \in Nat
  BY PlacedFacts
<1>2. /\ capStack' = capStack /\ genOrder' = genOrder /\ genOrder0' = genOrder0
      /\ used' = used /\ buf0' = buf0 /\ i' = i + 1 /\ pass = "place" /\ pass' = "place"
  BY DEF Place
<1> HIDE DEF t
<1>3. LinksValid'
  BY <1>1, SameExitsLinks DEF GInv
<1>4. BlockTypes'
  <2>1. BlockTypes /\ base \in Nat
    BY LayoutConstants DEF GInv
  <2> DEFINE n == capBB[t].size
             r == Trailer(t)
  <2>2. buf1 \in Nat /\ base <= buf1 /\ n \in Nat /\ r \in Nat /\ buf1' = buf1 + n + r
    BY <1>1, <2>1 DEF BlockTypes
  <2> HIDE DEF n, r
  <2>3. buf1' \in Nat /\ base <= buf1'
    BY <2>1, <2>2
  <2> QED
    BY <1>1, <1>2, <2>1, <2>3 DEF BlockTypes
<1>5. Len(capBB') = Len(capBB) /\ \A b \in 1 .. Len(capBB) : capBB'[b].size = capBB[b].size
  BY <1>1 DEF SameExits
<1>6. \A b \in 1 .. Len(capBB) : Handled(b)' <=> Handled(b)
  BY <1>5 DEF Handled
<1>7. OrderIsHandled'
  BY <1>2, <1>5, <1>6 DEF GInv, OrderIsHandled, Live, InOrder
<1>8. AllHandled'
  BY <1>2, <1>5, <1>6 DEF GInv, AllHandled
<1>9. RefsValid'
  BY <1>2, <1>5 DEF GInv, RefsValid
<1>10. FirstRewrite' /\ NoneForgotten'
  BY <1>2 DEF GInv, FirstRewrite, NoneForgotten
<1> QED
  BY <1>3, <1>4, <1>7, <1>8, <1>9, <1>10 DEF GInv

\* The rest of the passes does not change the blocks.
LEMMA LaterGraph ==
  ASSUME GInv, EndPlace \/ Link \/ Finish \/ UNCHANGED vars
  PROVE  GInv'
<1>1. /\ capBB' = capBB /\ capStack' = capStack /\ genOrder' = genOrder
      /\ genOrder0' = genOrder0 /\ buf0' = buf0 /\ buf1' = buf1
      /\ used' = used \/ used' = buf1 - base
      /\ i' = i \/ i' = i + 1 \/ i' = 1
      /\ \/ pass' = pass /\ used' = used /\ stores' = stores
         \/ pass' \in {"link", "done"} /\ pass \in {"place", "link", "done"}
  BY DEF EndPlace, Link, Finish, vars
<1>2. BlockTypes'
  BY <1>1, LayoutConstants DEF GInv, BlockTypes
<1>3. LinksValid'
  BY <1>1 DEF GInv, LinksValid, IsJcc
<1>4. RefsValid'
  BY <1>1 DEF GInv, RefsValid
<1>5. FirstRewrite' /\ NoneForgotten' /\ AllHandled'
  BY <1>1 DEF GInv, FirstRewrite, NoneForgotten, AllHandled, Known, Handled, IsJcc
<1>6. OrderIsHandled'
  BY <1>1 DEF GInv, OrderIsHandled, Handled, InOrder, Live
<1> QED
  BY <1>2, <1>3, <1>4, <1>5, <1>6 DEF GInv

\* What is generated, and that it was all captured, is kept up by every step.
THEOREM GraphInvariant == Spec => []GInv
<1>1. Init => GInv
  BY InitGraph
<1>2. GInv /\ [Next]_vars => GInv'
  BY BeginGraph, SkipGraph, GenerateGraph, StopGraph, EndGenerateGraph, PlaceGraph,
     LaterGraph DEF Next
<1> QED
  BY <1>1, <1>2, PTL DEF Spec

\* Every captured block is generated, and only once, although the graph of
\* blocks may have cycles and blocks may wait on the stack more than once.
THEOREM GeneratedOnce == Spec => []EachOnce
<1>1. GInv => EachOnce
  <2> SUFFICES ASSUME GInv PROVE EachOnce
    OBVIOUS
  <2>1. genOrder0 + 1 = 1 /\ RefsValid /\ OrderIsHandled /\ AllHandled
    BY DEF GInv, FirstRewrite
  <2>2. Current = { genOrder[k] : k \in 1 .. Len(genOrder) }
    BY <2>1 DEF Current
  <2>3. pass \in {"place", "link", "done"} => Current = 1 .. Len(capBB)
    BY <2>1, <2>2 DEF AllHandled, OrderIsHandled, Live, InOrder, RefsValid
  <2> QED
    BY <2>1, <2>3 DEF EachOnce, RefsValid
<1> QED
  BY <1>1, GraphInvariant, PTL

----------------------------------------------------------------------------
(***************************************************************************)
(* Addresses.  A block is named by its position k in the order of          *)
(* generation.                                                             *)
(***************************************************************************)

\* The block at position k of the order, and the positions.
X(k)  == capBB[genOrder[k]]
Order == 1 .. Len(genOrder)

\* Where block k ends in passes 1 and 2, without the jumps behind it.
Stop1(k) == X(k).addr1 + X(k).size
Stop2(k) == X(k).addr2 + X(k).size

\* How far block k was moved down.
Shift(k) == X(k).addr1 - X(k).addr2

\* The bytes behind block k for the jumps decided on.
Room(k) ==
  IF X(k).endType # "jcc" THEN 0
  ELSE (IF X(k).genJcc8 THEN Jcc8Bytes ELSE Jcc32Bytes)
       + (IF X(k).genJump THEN JumpBytes ELSE 0)

\* How many blocks pass 2 has placed.
Placed ==
  IF pass = "place" THEN i - 1
  ELSE IF pass \in {"link", "done"} THEN Len(genOrder) ELSE 0

\* Pass 1 leaves a hole behind each block, and all is in the code storage.
Spread ==
  Live =>
    /\ \A k \in Order : base <= X(k).addr1 /\ Stop1(k) + Hole <= base + fullsize
    /\ \A k, l \in Order : k < l => Stop1(k) + Hole <= X(l).addr1
    /\ pass = "generate" => \A k \in Order : Stop1(k) + Hole <= base + used

\* Nothing is decided on jumps of blocks that are not placed yet.
Undecided ==
  /\ pass \in {"captured", "generate"} =>
       \A b \in 1 .. Len(capBB) : ~capBB[b].genJcc8 /\ ~capBB[b].genJump
  /\ pass = "place" => \A k \in i .. Len(genOrder) : ~X(k).genJcc8 /\ ~X(k).genJump

\* What is decided on the jumps of block k.
Decided(k) ==
  IF X(k).endType = "jcc"
  THEN /\ X(k).genJcc8 => Near(genOrder[k])
       /\ ~X(k).genJump =>
            k + 1 \in Order /\ genOrder[k + 1] = X(k).nextFallThrough
  ELSE ~X(k).genJump

\* Pass 2 places blocks one behind the other, and moves each down at least as
\* far as those before.
Packed ==
  /\ \A k \in 1 .. Placed :
       /\ base <= X(k).addr2 /\ X(k).addr2 <= X(k).addr1
       /\ k = 1 => X(k).addr2 = base
       /\ Stop2(k) + Room(k) <= buf1
       /\ k = Placed => Stop2(k) + Room(k) = buf1
       /\ Decided(k)
  /\ \A k, l \in 1 .. Placed : k < l =>
       /\ Stop2(k) + Room(k) <= X(l).addr2
       /\ l = k + 1 => Stop2(k) + Room(k) = X(l).addr2
       /\ Shift(k) <= Shift(l)

\* How the results of the passes are handed on.
Handed ==
  /\ pass = "place" => i - 1 <= Len(genOrder)
  /\ pass = "place" /\ i = 1 => buf1 = base
  /\ pass \in {"link", "done"} => used = buf1 - base
  /\ pass = "done" => generatedCodeAddr = base /\ generatedCodeSize = used
  /\ generatedCodeAddr \in Nat /\ generatedCodeSize \in Nat

AInv == GInv /\ Spread /\ Undecided /\ Packed /\ Handed

----------------------------------------------------------------------------
\* The blocks in the order, while nothing has gone wrong.
LEMMA OrderFacts ==
  ASSUME GInv, Live
  PROVE  /\ genOrder \in Seq(Nat) /\ Len(genOrder) \in Nat /\ base \in Nat
         /\ \A k \in Order :
              /\ k \in Nat /\ k > 0
              /\ genOrder[k] \in 1 .. Len(capBB)
              /\ X(k) \in CBB /\ X(k).size \in Nat
              /\ X(k).addr1 \in Nat /\ X(k).addr2 \in Nat
              /\ Stop1(k) \in Nat /\ Stop2(k) \in Nat
              /\ Room(k) \in Nat /\ Room(k) <= 11
         /\ \A k, l \in Order : genOrder[k] = genOrder[l] => k = l
<1>1. genOrder \in Seq(Nat) /\ Len(genOrder) \in Nat /\ base \in Nat /\ capBB \in Seq(CBB)
      /\ RefsValid
  BY LayoutConstants DEF GInv, BlockTypes
<1>2. ASSUME NEW k \in Order
      PROVE  /\ k \in Nat /\ k > 0
             /\ genOrder[k] \in 1 .. Len(capBB)
             /\ X(k) \in CBB /\ X(k).size \in Nat
             /\ X(k).addr1 \in Nat /\ X(k).addr2 \in Nat
             /\ Stop1(k) \in Nat /\ Stop2(k) \in Nat
             /\ Room(k) \in Nat /\ Room(k) <= 11
  <2>1. k \in Nat /\ k > 0 /\ genOrder[k] \in 1 .. Len(capBB)
    BY <1>1 DEF Order, RefsValid
  <2>2. X(k) \in CBB
    BY <1>1, <2>1 DEF X
  <2>3. X(k).size \in Nat \cup {-1} /\ X(k).addr1 \in Nat /\ X(k).addr2 \in Nat
    BY <2>2 DEF CBB
  <2>4. InOrder(genOrder[k])
    BY DEF InOrder, Order
  <2>5. Handled(genOrder[k])
    BY <2>1, <2>4 DEF GInv, OrderIsHandled
  <2>6. X(k).size \in Nat
    BY <2>3, <2>5 DEF Handled, X
  <2>7. Room(k) \in Nat /\ Room(k) <= 11
    BY Widths DEF Room
  <2> QED
    BY <2>1, <2>2, <2>3, <2>6, <2>7 DEF Stop1, Stop2
<1>3. \A k, l \in Order : genOrder[k] = genOrder[l] => k = l
  BY <1>1 DEF RefsValid, Order
<1> QED
  BY <1>1, <1>2, <1>3

\* A rewriter that was not used before has no addresses yet.
LEMMA InitAddresses == Init => AInv
<1> SUFFICES ASSUME Init PROVE AInv
  OBVIOUS
<1>1. GInv
  BY InitGraph
<1>2. Len(genOrder) = 0 /\ pass = "captured" /\ generatedCodeAddr = 0 /\ generatedCodeSize = 0
  BY DEF Init
<1>3. Placed = 0
  BY <1>2 DEF Placed
<1>4. PICK g \in Graphs : capBB = [b \in 1 .. Len(g) |-> NotGenerated(g[b])]
  BY DEF Init
<1>5. Len(capBB) = Len(g)
  BY <1>4, LayoutConstants
<1>6. \A b \in 1 .. Len(capBB) : ~capBB[b].genJcc8 /\ ~capBB[b].genJump
  BY <1>4, <1>5 DEF NotGenerated
<1>7. Spread /\ Undecided /\ Packed /\ Handed
  BY <1>2, <1>3, <1>6 DEF Spread, Undecided, Packed, Handed, Order
<1> QED
  BY <1>1, <1>7 DEF AInv

\* Steps that leave blocks, the order and the pass alone.
LEMMA SameAddresses ==
  ASSUME AInv, GInv',
         capBB' = capBB, genOrder' = genOrder, pass' = pass, i' = i, buf1' = buf1,
         used' = used, generatedCodeAddr' = generatedCodeAddr,
         generatedCodeSize' = generatedCodeSize
  PROVE  AInv'
BY DEF AInv, Spread, Undecided, Packed, Handed, Placed, Decided, Live, Order, X, Stop1,
       Stop2, Room, Shift, Near, Diff1

\* Steps that end the generation for good.
LEMMA StoppedAddresses ==
  ASSUME AInv, GInv', pass' \in {"failed", "aborted", "exited"},
         generatedCodeAddr' \in Nat, generatedCodeSize' \in Nat
  PROVE  AInv'
<1>1. Placed' = 0
  BY DEF Placed
<1> QED
  BY <1>1 DEF AInv, Spread, Undecided, Packed, Handed, Live

\* Beginning with an empty order.
LEMMA BeginAddresses == ASSUME AInv, Begin PROVE AInv'
<1>1. GInv'
  BY BeginGraph DEF AInv
<1>2. /\ Len(genOrder) = 0 /\ genOrder' = genOrder /\ capBB' = capBB
      /\ pass = "captured" /\ pass' = "generate"
      /\ generatedCodeAddr' = generatedCodeAddr /\ generatedCodeSize' = generatedCodeSize
  BY DEF AInv, GInv, FirstRewrite, Begin
<1>3. Placed' = 0
  BY <1>2 DEF Placed
<1>4. Spread' /\ Undecided' /\ Packed' /\ Handed'
  BY <1>2, <1>3 DEF AInv, Spread, Undecided, Packed, Handed, Order
<1> QED
  BY <1>1, <1>4 DEF AInv

\* A block is generated behind the holes of all others.
LEMMA GenerateAddresses == ASSUME AInv, Generate PROVE AInv'
<1>1. GInv' /\ GInv
  BY GenerateGraph DEF AInv
<1>2. Generating /\ Appended /\ pass = "generate" /\ Live
  BY DEF Generate, Generating, Live
<1>3. PICK body \in Bodies :
        /\ Reserved(body) /\ GeneratedAs(body)
        /\ \/ /\ fullsize - (used + body.size) >= Hole
              /\ used' = used + body.size + Hole
              /\ UNCHANGED pass
           \/ pass' \in {"failed", "aborted"}
  BY DEF Generate, GeneratedAs, BodiesOf
<1>4. generatedCodeAddr' = generatedCodeAddr /\ generatedCodeSize' = generatedCodeSize
  BY DEF Generate
<1>5. CASE pass' \in {"failed", "aborted"}
  BY <1>1, <1>4, <1>5, StoppedAddresses DEF AInv, Handed
<1>6. ASSUME fullsize - (used + body.size) >= Hole,
             used' = used + body.size + Hole, pass' = pass
      PROVE  AInv'
  <2>1. PICK m \in Nat : m = Len(genOrder)
    BY <1>1, <1>2, OrderFacts
  <2>2. PICK t \in 1 .. Len(capBB) : t = Top
    BY <1>1, <1>2, TopFacts DEF Generating
  <2>3. /\ t \in 1 .. Len(capBB) /\ Len(capBB') = Len(capBB)
        /\ body.size \in Nat
        /\ capBB'[t] = [capBB[t] EXCEPT !.size = body.size, !.addr1 = base + used]
        /\ capBB'[t].size = body.size /\ capBB'[t].addr1 = base + used
        /\ \A b \in 1 .. Len(capBB) : b # t => capBB'[b] = capBB[b]
    BY <1>1, <1>2, <1>3, <2>2, GeneratedFacts DEF SameExits
  <2>4. /\ m \in Nat /\ Len(genOrder') = m + 1
        /\ \A k \in 1 .. m : genOrder'[k] = genOrder[k] /\ genOrder[k] # t
        /\ genOrder'[m + 1] = t
    BY <1>1, <1>2, <2>1, <2>2, AppendedFacts
  <2>5. capBB[t] \in CBB
    BY <1>1, <2>3 DEF GInv, BlockTypes
  <2>6. capBB'[t].genJcc8 = capBB[t].genJcc8 /\ capBB'[t].genJump = capBB[t].genJump
    BY <2>3, <2>5 DEF CBB
  <2>7. /\ base \in Nat /\ fullsize \in Nat /\ used \in Nat
        /\ \A k \in 1 .. m : k \in Nat /\ genOrder[k] \in 1 .. Len(capBB) /\ Stop1(k) \in Nat
    BY <1>1, <1>2, <2>1, OrderFacts, LayoutConstants DEF Order, GInv, BlockTypes
  <2>8. /\ \A k \in 1 .. m : X(k)' = X(k)
        /\ X(m + 1)' = capBB'[t]
    BY <2>3, <2>4, <2>7 DEF X
  <2>9. /\ \A k \in 1 .. m : Stop1(k)' = Stop1(k) /\ (X(k).addr1)' = X(k).addr1
        /\ Stop1(m + 1)' = base + used + body.size
        /\ (X(m + 1).addr1)' = base + used
    BY <2>3, <2>8 DEF Stop1
  <2>10. /\ \A k \in 1 .. m : base <= X(k).addr1 /\ Stop1(k) + Hole <= base + fullsize
         /\ \A k, l \in 1 .. m : k < l => Stop1(k) + Hole <= X(l).addr1
         /\ \A k \in 1 .. m : Stop1(k) + Hole <= base + used
    BY <1>2, <2>1 DEF AInv, Spread, Order
  <2>11. \A k \in Order' : k = m + 1 \/ k \in 1 .. m
    BY <2>4 DEF Order
  <2>12. \A k \in Order' : (base <= X(k).addr1)' /\ (Stop1(k) + Hole <= base + fullsize)'
                           /\ (Stop1(k) + Hole <= base + used)'
    <3> SUFFICES ASSUME NEW k \in Order'
                 PROVE  (base <= X(k).addr1)' /\ (Stop1(k) + Hole <= base + fullsize)'
                        /\ (Stop1(k) + Hole <= base + used)'
      OBVIOUS
    <3>1. /\ used' = used + body.size + 26
          /\ base + used + body.size + 26 <= base + fullsize
      BY <1>6, <2>3, <2>7 DEF Hole
    <3>2. CASE k = m + 1
      <4>1. Stop1(k)' = base + used + body.size /\ X(k)'.addr1 = base + used
        BY <2>9, <3>2
      <4> QED
        BY <2>3, <2>7, <3>1, <4>1 DEF Hole
    <3>3. CASE k \in 1 .. m
      <4>1. Stop1(k)' = Stop1(k) /\ X(k)'.addr1 = X(k).addr1 /\ Stop1(k) \in Nat
        BY <2>7, <2>9, <3>3
      <4>2. base <= X(k).addr1 /\ Stop1(k) + 26 <= base + fullsize
            /\ Stop1(k) + 26 <= base + used
        BY <2>10, <3>3 DEF Hole
      <4> QED
        BY <2>3, <2>7, <3>1, <4>1, <4>2 DEF Hole
    <3> QED
      BY <2>11, <3>2, <3>3
  <2>13. \A k, l \in Order' : k < l => (Stop1(k) + Hole <= X(l).addr1)'
    <3> SUFFICES ASSUME NEW k \in Order', NEW l \in Order', k < l
                 PROVE  (Stop1(k) + Hole <= X(l).addr1)'
      OBVIOUS
    <3>1. k \in 1 .. m
      BY <2>4, <2>11
    <3>2. CASE l = m + 1
      <4>1. Stop1(k)' = Stop1(k)
        BY <2>9, <3>1
      <4>2. X(l)'.addr1 = base + used
        BY <2>9, <3>2
      <4>3. Stop1(k) + Hole <= base + used
        BY <2>10, <3>1
      <4> QED
        BY <4>1, <4>2, <4>3
    <3>3. CASE l \in 1 .. m
      BY <2>9, <2>10, <3>1, <3>3 DEF Hole
    <3> QED
      BY <2>11, <3>2, <3>3
  <2>14. Spread'
    BY <2>12, <2>13 DEF Spread
  <2>15. Undecided'
    <3>1. \A b \in 1 .. Len(capBB) : ~capBB[b].genJcc8 /\ ~capBB[b].genJump
      BY <1>2 DEF AInv, Undecided
    <3>2. \A b \in 1 .. Len(capBB') : ~capBB'[b].genJcc8 /\ ~capBB'[b].genJump
      BY <2>3, <2>6, <3>1
    <3> QED
      BY <1>2, <1>6, <3>2 DEF Undecided
  <2>16. Placed' = 0
    BY <1>2, <1>6 DEF Placed
  <2>17. Packed' /\ Handed'
    BY <1>2, <1>4, <1>6, <2>16 DEF AInv, Packed, Handed
  <2> QED
    BY <1>1, <2>14, <2>15, <2>17 DEF AInv
<1> QED
  BY <1>3, <1>5, <1>6

\* Pass 2 starts with nothing placed.
LEMMA EndGenerateAddresses == ASSUME AInv, EndGenerate PROVE AInv'
<1>1. GInv' /\ GInv
  BY EndGenerateGraph DEF AInv
<1>2. /\ capBB' = capBB /\ genOrder' = genOrder /\ pass = "generate" /\ pass' = "place"
      /\ i' = 1 /\ buf1' = base
      /\ generatedCodeAddr' = generatedCodeAddr /\ generatedCodeSize' = generatedCodeSize
  BY <1>1, LayoutConstants DEF EndGenerate, GInv, FirstRewrite, BlockTypes
<1>3. Placed' = 0
  BY <1>2 DEF Placed
<1>4. Packed'
  BY <1>3 DEF Packed
<1>5. Len(genOrder) \in Nat
  BY <1>1 DEF GInv, BlockTypes
<1>6. Handed'
  BY <1>2, <1>5 DEF AInv, Handed
<1>7. Spread'
  BY <1>2 DEF AInv, Spread, Live, Order, X, Stop1
<1>8. \A k \in 1 .. Len(genOrder) : genOrder[k] \in 1 .. Len(capBB)
  BY <1>1 DEF GInv, RefsValid
<1>9. Undecided'
  BY <1>2, <1>8 DEF AInv, Undecided, X
<1> QED
  BY <1>1, <1>4, <1>6, <1>7, <1>9 DEF AInv

\* Whether a branch is near is a matter of the sizes and addresses of pass 1.
LEMMA SameDistances ==
  ASSUME GInv, NEW t \in 1 .. Len(capBB), SameExits(t),
         capBB'[t].size = capBB[t].size, capBB'[t].addr1 = capBB[t].addr1,
         NEW b \in 1 .. Len(capBB), IsJcc(b)
  PROVE  Near(b)' <=> Near(b)
<1> DEFINE d == capBB[b].nextBranch
<1>1. \A a \in 1 .. Len(capBB) :
        /\ capBB'[a].size = capBB[a].size /\ capBB'[a].addr1 = capBB[a].addr1
        /\ capBB'[a].nextBranch = capBB[a].nextBranch
  BY DEF SameExits
<1>2. d \in 1 .. Len(capBB)
  BY DEF GInv, LinksValid
<1>3. capBB'[capBB'[b].nextBranch].addr1 = capBB[d].addr1
  BY <1>1, <1>2
<1>4. Diff1(b)' = Diff1(b)
  BY <1>1, <1>3 DEF Diff1
<1> QED
  BY <1>4 DEF Near

\* Pass 2 places the next block.
LEMMA PlaceAddresses == ASSUME AInv, Place PROVE AInv'
<1>1. GInv' /\ GInv /\ Live
  BY PlaceGraph DEF AInv, Live, Place
<1>2. PICK n \in Nat : n = Len(genOrder)
  BY <1>1, OrderFacts
<1>3. PICK p \in 1 .. n : p = i
  BY <1>1, <1>2, PlacedFacts
<1>4. PICK t \in 1 .. Len(capBB) : t = genOrder[p]
  BY <1>1, <1>3, PlacedFacts
<1>5. /\ capBB' \in Seq(CBB) /\ SameExits(t)
      /\ capBB'[t].size = capBB[t].size /\ capBB'[t].addr1 = capBB[t].addr1
      /\ capBB'[t].addr2 = buf1
      /\ capBB'[t].genJcc8 = (capBB[t].genJcc8 \/ (IsJcc(t) /\ Near(t)))
      /\ capBB'[t].genJump = (capBB[t].genJump \/ (IsJcc(t) /\ ~Follows(t)))
      /\ buf1' = buf1 + capBB[t].size + Trailer(t) /\ Trailer(t) \in Nat
  BY <1>1, <1>3, <1>4, PlacedFacts
<1>6. /\ genOrder' = genOrder /\ pass = "place" /\ pass' = "place" /\ i' = p + 1
      /\ used' = used
      /\ generatedCodeAddr' = generatedCodeAddr /\ generatedCodeSize' = generatedCodeSize
  BY <1>3 DEF Place
<1>7. Placed = p - 1 /\ Placed' = p
  BY <1>3, <1>6 DEF Placed
<1>8. \A k \in 1 .. n :
        /\ k \in Nat /\ k > 0
        /\ genOrder[k] \in 1 .. Len(capBB)
        /\ X(k) \in CBB /\ X(k).size \in Nat
        /\ X(k).addr1 \in Nat /\ X(k).addr2 \in Nat
        /\ Stop1(k) \in Nat /\ Stop2(k) \in Nat
        /\ Room(k) \in Nat /\ Room(k) <= 11
        /\ k # p => genOrder[k] # t
  BY <1>1, <1>2, <1>3, <1>4, OrderFacts DEF Order
<1>9. base \in Nat /\ buf1 \in Nat /\ base <= buf1 /\ base <= buf1' /\ buf1' \in Nat
  BY <1>1, LayoutConstants DEF GInv, BlockTypes
<1>10. \A k \in 1 .. n : k # p => X(k)' = X(k)
  BY <1>5, <1>6, <1>8 DEF X, SameExits
<1>11. X(p) = capBB[t] /\ X(p)' = capBB'[t]
  BY <1>3, <1>4, <1>6 DEF X
<1>12. /\ X(p)'.size = X(p).size /\ X(p)'.addr1 = X(p).addr1 /\ X(p)'.addr2 = buf1
       /\ X(p)'.endType = X(p).endType /\ X(p)'.nextFallThrough = X(p).nextFallThrough
  BY <1>5, <1>11 DEF SameExits
<1>13. ~X(p).genJcc8 /\ ~X(p).genJump
  BY <1>2, <1>3, <1>6 DEF AInv, Undecided
<1>14. /\ X(p)'.genJcc8 <=> IsJcc(t) /\ Near(t)
       /\ X(p)'.genJump <=> IsJcc(t) /\ ~Follows(t)
       /\ IsJcc(t) <=> X(p).endType = "jcc"
  <2>1. IsJcc(t) <=> X(p).endType = "jcc"
    BY <1>11 DEF IsJcc
  <2>2. /\ X(p)'.genJcc8 = (capBB[t].genJcc8 \/ (IsJcc(t) /\ Near(t)))
        /\ X(p)'.genJump = (capBB[t].genJump \/ (IsJcc(t) /\ ~Follows(t)))
    BY <1>5, <1>11
  <2>3. ~capBB[t].genJcc8 /\ ~capBB[t].genJump
    BY <1>11, <1>13
  <2> QED
    BY <2>1, <2>2, <2>3
<1>15. Room(p)' = Trailer(t)
  <2>1. ~capBB[t].genJcc8
    BY <1>11, <1>13
  <2> QED
    BY <1>12, <1>14, <2>1, Widths DEF Room, Trailer
<1>16. \A k \in 1 .. n : k # p =>
         /\ Stop1(k)' = Stop1(k) /\ Stop2(k)' = Stop2(k) /\ Shift(k)' = Shift(k)
         /\ Room(k)' = Room(k)
  BY <1>10 DEF Stop1, Stop2, Shift, Room
<1>17. /\ Stop1(p)' = Stop1(p) /\ Stop2(p)' = buf1 + X(p).size
       /\ Shift(p)' = X(p).addr1 - buf1
  BY <1>12 DEF Stop1, Stop2, Shift
<1>18. Stop2(p)' + Room(p)' = buf1'
  <2>1. buf1' = buf1 + X(p).size + Trailer(t)
    BY <1>5, <1>11
  <2> QED
    BY <1>15, <1>17, <2>1
<1>19. /\ \A k \in 1 .. n : base <= X(k).addr1
       /\ \A k, l \in 1 .. n : k < l => Stop1(k) + 26 <= X(l).addr1
  BY <1>1, <1>2 DEF AInv, Spread, Order, Hole
<1>20. /\ \A k \in 1 .. (p - 1) :
            /\ base <= X(k).addr2 /\ X(k).addr2 <= X(k).addr1
            /\ k = 1 => X(k).addr2 = base
            /\ Stop2(k) + Room(k) <= buf1
            /\ k = p - 1 => Stop2(k) + Room(k) = buf1
            /\ Decided(k)
       /\ \A k, l \in 1 .. (p - 1) : k < l =>
            /\ Stop2(k) + Room(k) <= X(l).addr2
            /\ l = k + 1 => Stop2(k) + Room(k) = X(l).addr2
            /\ Shift(k) <= Shift(l)
  BY <1>7 DEF AInv, Packed
<1>21. p = 1 => buf1 = base
  BY <1>3, <1>6 DEF AInv, Handed
<1>22. \A k \in 1 .. (p - 1) : k \in 1 .. n /\ k # p
  BY <1>3
<1>23. /\ buf1 <= X(p).addr1
       /\ \A k \in 1 .. (p - 1) : Shift(k) <= X(p).addr1 - buf1
  <2>1. CASE p = 1
    BY <1>3, <1>19, <1>21, <2>1
  <2>2. CASE p # 1
    <3> DEFINE q == p - 1
    <3>1. q \in 1 .. (p - 1) /\ q \in 1 .. n /\ q < p /\ q = p - 1
      BY <1>3, <2>2
    <3> HIDE DEF q
    <3>2. Stop1(q) + 26 <= X(p).addr1 /\ Stop2(q) + Room(q) = buf1
      BY <1>3, <1>19, <1>20, <3>1
    <3>3. /\ X(q).addr1 \in Nat /\ X(q).addr2 \in Nat /\ X(q).size \in Nat
          /\ Room(q) \in Nat /\ Room(q) <= 11 /\ X(p).addr1 \in Nat
          /\ X(q).addr2 <= X(q).addr1
      BY <1>3, <1>8, <1>20, <3>1
    <3>4. buf1 <= X(p).addr1 /\ Shift(q) <= X(p).addr1 - buf1
      BY <1>9, <3>2, <3>3, SMTT(30) DEF Stop1, Stop2, Shift
    <3>5. ASSUME NEW k \in 1 .. (p - 1) PROVE Shift(k) <= X(p).addr1 - buf1
      <4>1. k = q \/ k < q
        BY <1>3, <3>1
      <4>2. CASE k < q
        <5>1. Shift(k) <= Shift(q)
          BY <1>20, <3>1, <4>2
        <5>2. Shift(k) \in Int /\ Shift(q) \in Int
          <6>1. X(k).addr1 \in Nat /\ X(k).addr2 \in Nat
            BY <1>8, <1>22
          <6> QED
            BY <3>3, <6>1 DEF Shift
        <5> QED
          BY <1>9, <3>3, <3>4, <5>1, <5>2
      <4> QED
        BY <3>4, <4>1, <4>2
    <3> QED
      BY <3>4, <3>5
  <2> QED
    BY <2>1, <2>2
<1>24. ASSUME NEW k \in 1 .. p, X(k)'.endType = "jcc"
       PROVE  Near(genOrder[k])' <=> Near(genOrder[k])
  <2>1. genOrder[k] \in 1 .. Len(capBB)
    BY <1>3, <1>8
  <2>2. IsJcc(genOrder[k])
    BY <1>3, <1>10, <1>12, <1>24 DEF X, IsJcc
  <2>3. PICK b \in 1 .. Len(capBB) : b = genOrder[k] /\ b = genOrder'[k]
    BY <1>6, <2>1
  <2>4. Near(b)' <=> Near(b)
    BY <1>1, <1>5, <2>2, <2>3, SameDistances
  <2> QED
    BY <2>3, <2>4 DEF Near, Diff1
<1>25. \A k \in 1 .. (p - 1) : Decided(k)'
  BY <1>3, <1>6, <1>10, <1>20, <1>22, <1>24 DEF Decided, Order
<1>26. Decided(p)'
  <2>1. ASSUME X(p)'.endType = "jcc", X(p)'.genJcc8 PROVE Near(genOrder[p])'
    BY <1>3, <1>4, <1>14, <1>24, <2>1
  <2>2. ASSUME X(p)'.endType = "jcc", ~X(p)'.genJump
        PROVE  p + 1 \in Order /\ genOrder[p + 1] = X(p)'.nextFallThrough
    BY <1>2, <1>3, <1>11, <1>12, <1>14, <2>2 DEF Follows, Order
  <2>3. X(p)'.endType # "jcc" => ~X(p)'.genJump
    BY <1>12, <1>14
  <2> QED
    BY <1>6, <2>1, <2>2, <2>3 DEF Decided, Order
<1>27. \A k \in 1 .. p : k = p \/ k \in 1 .. (p - 1)
  BY <1>3
<1>28. ASSUME NEW k \in 1 .. p
       PROVE  /\ base <= X(k)'.addr2 /\ X(k)'.addr2 <= X(k)'.addr1
              /\ k = 1 => X(k)'.addr2 = base
              /\ Stop2(k)' + Room(k)' <= buf1'
              /\ k = p => Stop2(k)' + Room(k)' = buf1'
              /\ Decided(k)'
  <2>1. CASE k = p
    BY <1>9, <1>12, <1>18, <1>21, <1>23, <1>26, <2>1
  <2>2. CASE k \in 1 .. (p - 1)
    <3>1. buf1 <= buf1'
      BY <1>5, <1>8, <1>9, <1>11, <1>3, SMTT(30)
    <3>2. Stop2(k) + Room(k) \in Nat
      BY <1>8, <1>22, <2>2
    <3> QED
      BY <1>9, <1>10, <1>16, <1>20, <1>22, <1>25, <2>2, <3>1, <3>2
  <2> QED
    BY <1>27, <2>1, <2>2
<1>29. ASSUME NEW k \in 1 .. p, NEW l \in 1 .. p, k < l
       PROVE  /\ Stop2(k)' + Room(k)' <= X(l)'.addr2
              /\ l = k + 1 => Stop2(k)' + Room(k)' = X(l)'.addr2
              /\ Shift(k)' <= Shift(l)'
  <2>1. k \in 1 .. (p - 1)
    BY <1>3, <1>29
  <2>2. CASE l = p
    BY <1>12, <1>16, <1>17, <1>20, <1>22, <1>23, <2>1, <2>2
  <2>3. CASE l \in 1 .. (p - 1)
    BY <1>10, <1>16, <1>20, <1>22, <1>29, <2>1, <2>3
  <2> QED
    BY <1>27, <2>2, <2>3
<1>30. Packed'
  BY <1>7, <1>28, <1>29 DEF Packed
<1>31. \A k \in 1 .. n : X(k)'.addr1 = X(k).addr1 /\ Stop1(k)' = Stop1(k)
  BY <1>10, <1>12, <1>16, <1>17
<1>32. Spread'
  BY <1>1, <1>2, <1>6, <1>31 DEF AInv, Spread, Order
<1>33. Undecided'
  <2>1. \A k \in (p + 1) .. n : k \in p .. n /\ k \in 1 .. n /\ k # p
    BY <1>3
  <2> QED
    BY <1>2, <1>3, <1>6, <1>10, <2>1 DEF AInv, Undecided
<1>34. Handed'
  BY <1>2, <1>3, <1>6 DEF AInv, Handed
<1> QED
  BY <1>1, <1>30, <1>32, <1>33, <1>34 DEF AInv
\* When all blocks are generated, there is at least the one captured first.
LEMMA OrderNotEmpty ==
  ASSUME GInv, pass \in {"place", "link", "done"}
  PROVE  1 \in Order
<1>1. 1 \in 1 .. Len(capBB)
  BY DEF GInv, LinksValid, BlockTypes
<1>2. Handled(1)
  BY <1>1 DEF GInv, AllHandled
<1>3. InOrder(1)
  BY <1>1, <1>2 DEF GInv, OrderIsHandled, Live
<1>4. genOrder \in Seq(Nat) /\ Len(genOrder) \in Nat
  BY DEF GInv, BlockTypes
<1> QED
  BY <1>3, <1>4 DEF InOrder, Order

\* Pass 2 ends with all blocks placed; pass 3 starts.
LEMMA EndPlaceAddresses == ASSUME AInv, EndPlace PROVE AInv'
<1>1. GInv' /\ GInv
  BY LaterGraph DEF AInv
<1>2. /\ capBB' = capBB /\ genOrder' = genOrder /\ pass = "place" /\ pass' = "link"
      /\ buf1' = buf1 /\ used' = buf1 - base /\ i > Len(genOrder)
      /\ generatedCodeAddr' = generatedCodeAddr /\ generatedCodeSize' = generatedCodeSize
  BY DEF EndPlace
<1>3. Placed = Len(genOrder) /\ Placed' = Len(genOrder)
  <2>1. i - 1 <= Len(genOrder) /\ i \in Nat /\ Len(genOrder) \in Nat
    BY <1>1, <1>2 DEF AInv, Handed, GInv, BlockTypes
  <2> QED
    BY <1>2, <2>1 DEF Placed
<1>4. Spread'
  BY <1>2 DEF AInv, Spread, Live, Order, X, Stop1
<1>5. Undecided'
  BY <1>2 DEF Undecided
<1>6. Packed'
  BY <1>2, <1>3 DEF AInv, Packed, Decided, Order, X, Stop2, Room, Shift, Near, Diff1
<1>7. Handed'
  BY <1>2 DEF AInv, Handed
<1> QED
  BY <1>1, <1>4, <1>5, <1>6, <1>7 DEF AInv

\* Pass 3 moves nothing.
LEMMA LinkAddresses == ASSUME AInv, Link PROVE AInv'
<1>1. GInv' /\ GInv
  BY LaterGraph DEF AInv
<1>2. /\ capBB' = capBB /\ genOrder' = genOrder /\ pass = "link" /\ pass' = "link"
      /\ buf1' = buf1 /\ used' = used
      /\ generatedCodeAddr' = generatedCodeAddr /\ generatedCodeSize' = generatedCodeSize
  BY DEF Link
<1>3. Placed = Len(genOrder) /\ Placed' = Len(genOrder)
  BY <1>2 DEF Placed
<1>4. Spread'
  BY <1>2 DEF AInv, Spread, Live, Order, X, Stop1
<1>5. Undecided'
  BY <1>2 DEF Undecided
<1>6. Packed'
  BY <1>2, <1>3 DEF AInv, Packed, Decided, Order, X, Stop2, Room, Shift, Near, Diff1
<1>7. Handed'
  BY <1>2 DEF AInv, Handed
<1> QED
  BY <1>1, <1>4, <1>5, <1>6, <1>7 DEF AInv

\* The first block is what is returned as the generated function.
LEMMA FinishAddresses == ASSUME AInv, Finish PROVE AInv'
<1>1. GInv' /\ GInv
  BY LaterGraph DEF AInv
<1>2. /\ capBB' = capBB /\ genOrder' = genOrder /\ pass = "link" /\ pass' = "done"
      /\ buf1' = buf1 /\ used' = used
      /\ generatedCodeAddr' = X(1).addr2
      /\ generatedCodeSize' = used - (generatedCodeAddr' - base)
  BY DEF Finish, X
<1>3. Placed = Len(genOrder) /\ Placed' = Len(genOrder)
  BY <1>2 DEF Placed
<1>4. X(1).addr2 = base
  <2>1. 1 \in 1 .. Placed
    BY <1>1, <1>2, <1>3, OrderNotEmpty DEF Order
  <2> QED
    BY <2>1 DEF AInv, Packed
<1>5. base \in Nat /\ used \in Nat
  BY <1>1, LayoutConstants DEF GInv, BlockTypes
<1>6. generatedCodeAddr' = base /\ generatedCodeSize' = used
  BY <1>2, <1>4, <1>5
<1>7. Spread'
  BY <1>2 DEF AInv, Spread, Live, Order, X, Stop1
<1>8. Undecided'
  BY <1>2 DEF Undecided
<1>9. Packed'
  BY <1>2, <1>3 DEF AInv, Packed, Decided, Order, X, Stop2, Room, Shift, Near, Diff1
<1>10. Handed'
  BY <1>2, <1>5, <1>6 DEF AInv, Handed
<1> QED
  BY <1>1, <1>7, <1>8, <1>9, <1>10 DEF AInv

\* Every step keeps the addresses in order.
LEMMA AddressStep == ASSUME AInv, [Next]_vars PROVE AInv'
<1>1. CASE Skip \/ UNCHANGED vars
  <2>1. GInv'
    BY <1>1, SkipGraph, LaterGraph DEF AInv
  <2> QED
    BY <1>1, <2>1, SameAddresses DEF Skip, vars
<1>2. CASE OrderFull \/ GenerateError \/ StorageFull
  <2>1. GInv'
    BY <1>2, StopGraph DEF AInv
  <2>2. generatedCodeAddr \in Nat /\ generatedCodeSize \in Nat
    BY DEF AInv, Handed
  <2>3. /\ pass' \in {"failed", "aborted", "exited"}
        /\ generatedCodeAddr' \in Nat /\ generatedCodeSize' \in Nat
    BY <1>2, <2>2 DEF OrderFull, GenerateError, StorageFull
  <2> QED
    BY <2>1, <2>3, StoppedAddresses
<1> QED
  BY <1>1, <1>2, BeginAddresses, GenerateAddresses, EndGenerateAddresses, PlaceAddresses,
     EndPlaceAddresses, LinkAddresses, FinishAddresses DEF Next

\* Where blocks are in the two passes, and what was decided on their jumps.
THEOREM AddressInvariant == Spec => []AInv
<1>1. Init => AInv
  BY InitAddresses
<1>2. AInv /\ [Next]_vars => AInv'
  BY AddressStep
<1> QED
  BY <1>1, <1>2, PTL DEF Spec

\* Blocks are moved down only, and later ones at least as far as those before:
\* copying forward in place never meets a block that is not copied yet.
THEOREM BlocksMoveDown == Spec => []MovesDown
<1>1. AInv => MovesDown
  <2> SUFFICES ASSUME AInv, pass \in {"place", "link", "done"},
                      NEW k \in (genOrder0 + 1) .. Len(genOrder),
                      NEW l \in (genOrder0 + 1) .. Len(genOrder),
                      k <= l, pass = "place" => l < i
               PROVE  0 <= Shift(k) /\ Shift(k) <= Shift(l)
    BY DEF MovesDown, Shift, X
  <2>1. genOrder0 = 0 /\ GInv /\ Live
    BY DEF AInv, GInv, FirstRewrite, Live
  <2>2. k \in Order /\ l \in Order
    BY <2>1 DEF Order
  <2>3. Len(genOrder) \in Nat /\ i \in Nat
    BY <2>1 DEF GInv, BlockTypes
  <2>4. k \in 1 .. Placed /\ l \in 1 .. Placed
    BY <2>2, <2>3 DEF Placed, Order
  <2>5. X(k).addr1 \in Nat /\ X(k).addr2 \in Nat /\ X(k).addr2 <= X(k).addr1
    BY <2>1, <2>2, <2>4, OrderFacts DEF AInv, Packed
  <2>6. 0 <= Shift(k) /\ Shift(k) \in Int
    BY <2>5 DEF Shift
  <2>7. CASE k = l
    BY <2>6, <2>7
  <2>8. CASE k # l
    BY <2>2, <2>4, <2>6, <2>8 DEF AInv, Packed, Order
  <2> QED
    BY <2>7, <2>8
<1> QED
  BY <1>1, AddressInvariant, PTL

\* The position of a block in the order, when all are generated.
LEMMA Position ==
  ASSUME GInv, pass \in {"place", "link", "done"}, NEW b \in 1 .. Len(capBB)
  PROVE  \E k \in Order : genOrder[k] = b
<1>1. Handled(b)
  BY DEF GInv, AllHandled
<1> QED
  BY <1>1 DEF GInv, OrderIsHandled, Live, InOrder, Order

\* The displacement of a branch is the one of pass 1, or smaller.
LEMMA Reach ==
  ASSUME AInv, pass \in {"link", "done"}, NEW k \in Order, NEW l \in Order,
         X(k).endType = "jcc", X(k).genJcc8, genOrder[l] = X(k).nextBranch
  PROVE  LET d == X(l).addr2 - (Stop2(k) + Jcc8Bytes) IN -128 < d /\ d < 127
<1>1. GInv /\ Live /\ Placed = Len(genOrder)
  BY DEF AInv, Live, Placed
<1>2. k \in 1 .. Placed /\ l \in 1 .. Placed
  BY <1>1 DEF Order
<1>3. Near(genOrder[k])
  BY <1>2 DEF AInv, Packed, Decided
<1>4. -120 < X(l).addr1 - Stop1(k) /\ X(l).addr1 - Stop1(k) < 120
  BY <1>3 DEF Near, Diff1, X, Stop1
<1>5. /\ X(k).addr1 \in Nat /\ X(k).addr2 \in Nat /\ X(k).size \in Nat
      /\ Room(k) \in Nat /\ k \in Nat /\ l \in Nat
  BY <1>1, OrderFacts
<1>6. /\ X(l).addr1 \in Nat /\ X(l).addr2 \in Nat /\ X(l).size \in Nat /\ Room(l) \in Nat
  BY <1>1, OrderFacts
<1>7. CASE k < l
  <2>1. Stop2(k) + Room(k) <= X(l).addr2 /\ Shift(k) <= Shift(l)
    BY <1>2, <1>7 DEF AInv, Packed
  <2> QED
    BY <1>4, <1>5, <1>6, <2>1, Widths DEF Stop1, Stop2, Shift
<1>8. CASE l < k
  <2>1. Stop2(l) + Room(l) <= X(k).addr2 /\ Shift(l) <= Shift(k)
    BY <1>2, <1>8 DEF AInv, Packed
  <2> QED
    BY <1>4, <1>5, <1>6, <2>1, Widths DEF Stop1, Stop2, Shift
<1>9. CASE l = k
  BY <1>4, <1>5, <1>6, <1>9, Widths DEF Stop1, Stop2
<1> QED
  BY <1>5, <1>7, <1>8, <1>9

\* Short jumps, decided on with the distances of pass 1, reach their targets
\* in the final layout: the assertion of pass 3 never fails.
THEOREM ShortJumps == Spec => []ShortJumpsReach
<1>1. AInv => ShortJumpsReach
  <2> SUFFICES ASSUME AInv, pass \in {"link", "done"}, NEW b \in Current,
                      IsJcc(b), capBB[b].genJcc8
               PROVE  -128 < Diff2(b) /\ Diff2(b) < 127
    BY DEF ShortJumpsReach
  <2>1. GInv /\ genOrder0 = 0 /\ Live
    BY DEF AInv, GInv, FirstRewrite, Live
  <2>2. PICK k \in Order : genOrder[k] = b
    BY <2>1 DEF Current, Order
  <2>3. b \in 1 .. Len(capBB)
    BY <2>1, <2>2, OrderFacts
  <2>4. capBB[b].nextBranch \in 1 .. Len(capBB)
    BY <2>1, <2>3 DEF GInv, LinksValid
  <2>5. PICK l \in Order : genOrder[l] = capBB[b].nextBranch
    BY <2>1, <2>4, Position
  <2>6. LET d == X(l).addr2 - (Stop2(k) + Jcc8Bytes) IN -128 < d /\ d < 127
    BY <2>2, <2>5, Reach DEF X, IsJcc
  <2>7. Diff2(b) = X(l).addr2 - (Stop2(k) + Jcc8Bytes)
    BY <2>2, <2>5 DEF Diff2, End2, JccBytes, Stop2, X
  <2> QED
    BY <2>6, <2>7
<1> QED
  BY <1>1, AddressInvariant, PTL

\* The fields of the C structures hold values of their kinds.
THEOREM LayoutTypes == Spec => []TypeOK
<1> DEFINE Rest ==
      /\ pass \in {"captured", "generate", "place", "link", "done", "failed",
                   "aborted", "exited"}
      /\ rewrites \in Nat
<1>1. Init => Rest
  BY DEF Init
<1>2. Rest /\ [Next]_vars => Rest'
  BY DEF Next, vars, Begin, Skip, OrderFull, GenerateError, StorageFull, Generate,
         EndGenerate, Place, EndPlace, Link, Finish
<1>3. AInv /\ Rest => TypeOK
  BY LayoutConstants DEF TypeOK, AInv, GInv, BlockTypes, FirstRewrite, Handed
<1> HIDE DEF Rest
<1> QED
  BY <1>1, <1>2, <1>3, AddressInvariant, PTL DEF Spec

----------------------------------------------------------------------------
(***************************************************************************)
(* Which stores are made, and that the memory shows the captured program   *)
(* at the end                                                              *)
(***************************************************************************)
Whats    == ({"body", "jcc", "jmp"} \X Int) \cup {<< "garbage" >>}
StoreRec == [ at : Int, len : Nat, what : Whats ]

\* Where the instructions of block k are at this point.
Where(k) == IF k <= Placed THEN X(k).addr2 ELSE X(k).addr1

\* How many blocks pass 3 has linked.
Linked == IF pass = "link" THEN i - 1 ELSE IF pass = "done" THEN Len(genOrder) ELSE 0

\* Bytes of the conditional jump behind block k, and where it ends.
JccLen(k) == IF X(k).genJcc8 THEN Jcc8Bytes ELSE Jcc32Bytes
JccEnd(k) == Stop2(k) + JccLen(k)

\* All stores are to the code storage.
StoresInside ==
  /\ stores \in Seq(StoreRec)
  /\ \A s \in 1 .. Len(stores) :
       base <= stores[s].at /\ stores[s].at + stores[s].len <= base + fullsize

\* No block generated was overwritten.
BodiesShown ==
  Live => \A k \in Order : X(k).size > 0 =>
            Shows(stores, Where(k), X(k).size, BodyOf(genOrder[k]))

\* No jump written was overwritten, and each one goes to its block.
JumpsShown ==
  \A k \in 1 .. Linked : X(k).endType = "jcc" =>
    /\ Shows(stores, Stop2(k), JccLen(k), JccTo(capBB[X(k).nextBranch].addr2))
    /\ X(k).genJump =>
         Shows(stores, JccEnd(k), JumpBytes, JumpTo(capBB[X(k).nextFallThrough].addr2))

MInv ==
  /\ AInv /\ StoresInside /\ BodiesShown /\ JumpsShown
  /\ pass = "link" => i - 1 <= Len(genOrder)

----------------------------------------------------------------------------
\* What was stored last is what the memory shows there.
LEMMA ShowsNew ==
  ASSUME NEW mem \in Seq(StoreRec), NEW a, NEW n, NEW w, Store(a, n, w) \in StoreRec
  PROVE  Shows(Append(mem, Store(a, n, w)), a, n, w)
<1> DEFINE s == Store(a, n, w)
           m == Len(mem)
<1>1. m \in Nat /\ Len(Append(mem, s)) = m + 1 /\ Append(mem, s)[m + 1] = s
  OBVIOUS
<1> HIDE DEF s, m
<1>2. m + 1 \in 1 .. (m + 1) /\ \A l \in (m + 2) .. (m + 1) : FALSE
  BY <1>1
<1>3. Shows(Append(mem, s), a, n, w)
  BY <1>1, <1>2 DEF Shows, s
<1> QED
  BY <1>3 DEF s

\* A store elsewhere does not change what the memory shows.
LEMMA ShowsKept ==
  ASSUME NEW mem \in Seq(StoreRec), NEW s \in StoreRec, NEW a, NEW n, NEW w,
         Shows(mem, a, n, w), Apart(s, a, n)
  PROVE  Shows(Append(mem, s), a, n, w)
<1>1. PICK k \in 1 .. Len(mem) :
        mem[k] = Store(a, n, w) /\ \A l \in (k + 1) .. Len(mem) : Apart(mem[l], a, n)
  BY DEF Shows
<1> DEFINE m   == Len(mem)
           new == Append(mem, s)
<1>2. /\ m \in Nat /\ Len(new) = m + 1 /\ new[m + 1] = s
      /\ \A l \in 1 .. m : new[l] = mem[l]
  OBVIOUS
<1> HIDE DEF m, new
<1>3. k \in 1 .. m /\ k \in 1 .. (m + 1)
  BY <1>2 DEF m
<1>4. ASSUME NEW l \in (k + 1) .. (m + 1) PROVE Apart(new[l], a, n)
  <2>1. l = m + 1 \/ l \in (k + 1) .. m
    BY <1>2, <1>3
  <2>2. \A j \in (k + 1) .. m : j \in 1 .. m
    BY <1>2, <1>3
  <2> QED
    BY <1>1, <1>2, <2>1, <2>2 DEF m
<1>5. new[k] = Store(a, n, w)
  BY <1>1, <1>2, <1>3
<1> QED
  BY <1>2, <1>3, <1>4, <1>5 DEF Shows, new

\* Bodies and jumps as they are stored.
LEMMA StoreTypes ==
  ASSUME NEW a \in Int, NEW n \in Nat, NEW b \in Int
  PROVE  /\ Store(a, n, BodyOf(b)) \in StoreRec
         /\ Store(a, n, JccTo(b)) \in StoreRec
         /\ Store(a, n, JumpTo(b)) \in StoreRec
<1> DEFINE P == {"body", "jcc", "jmp"} \X Int
<1>1. << "body", b >> \in P /\ << "jcc", b >> \in P /\ << "jmp", b >> \in P
  OBVIOUS
<1>2. \A x \in P : x \in Whats
  BY DEF Whats
<1> HIDE DEF P
<1>3. BodyOf(b) \in Whats /\ JccTo(b) \in Whats /\ JumpTo(b) \in Whats
  BY <1>1, <1>2 DEF BodyOf, JccTo, JumpTo
<1> QED
  BY <1>3 DEF Store, StoreRec

\* Adding a store inside of the code storage.
LEMMA InsideKept ==
  ASSUME StoresInside, NEW s \in StoreRec,
         base <= s.at, s.at + s.len <= base + fullsize, stores' = Append(stores, s)
  PROVE  StoresInside'
<1> DEFINE m == Len(stores)
<1>1. stores \in Seq(StoreRec) /\ m \in Nat
  BY DEF StoresInside
<1>2. /\ stores' \in Seq(StoreRec) /\ Len(stores') = m + 1 /\ stores'[m + 1] = s
      /\ \A k \in 1 .. m : stores'[k] = stores[k]
  BY <1>1, AppendFacts
<1>3. \A k \in 1 .. m : base <= stores[k].at /\ stores[k].at + stores[k].len <= base + fullsize
  BY DEF StoresInside
<1> HIDE DEF m
<1>4. \A k \in 1 .. (m + 1) : k = m + 1 \/ k \in 1 .. m
  BY <1>1
<1> QED
  BY <1>2, <1>3, <1>4 DEF StoresInside

\* Nothing is stored before a rewrite.
LEMMA InitMemory == Init => MInv
<1> SUFFICES ASSUME Init PROVE MInv
  OBVIOUS
<1>1. AInv
  BY InitAddresses
<1>2. Len(genOrder) = 0 /\ stores = << >> /\ Len(stores) = 0 /\ pass = "captured"
  BY DEF Init
<1>3. Linked = 0
  BY <1>2 DEF Linked
<1> QED
  BY <1>1, <1>2, <1>3 DEF MInv, StoresInside, BodiesShown, JumpsShown, Order

\* Steps that store nothing and link nothing, and move no block.
LEMMA SameMemory ==
  ASSUME MInv, AInv', stores' = stores, capBB' = capBB,
         \/ genOrder' = genOrder /\ Live /\ pass' \in {"captured", "generate", "place"}
            /\ Placed' = Placed
         \/ pass' \in {"failed", "aborted", "exited"}
  PROVE  MInv'
<1>1. Linked' = 0 /\ pass' # "link"
  BY DEF Linked
<1>2. JumpsShown' /\ StoresInside'
  BY <1>1 DEF MInv, JumpsShown, StoresInside
<1>3. BodiesShown'
  BY DEF MInv, BodiesShown, Live, Where, X, Order
<1> QED
  BY <1>1, <1>2, <1>3 DEF MInv

\* The instructions of a block are stored behind the holes of all others.
LEMMA GenerateMemory == ASSUME MInv, Generate PROVE MInv'
<1>1. AInv' /\ AInv /\ GInv /\ Spread
  BY GenerateAddresses DEF MInv, AInv
<1>2. Generating /\ Appended /\ pass = "generate" /\ Live
  BY DEF Generate, Generating, Live
<1>3. PICK body \in Bodies :
        /\ Reserved(body) /\ GeneratedAs(body) /\ stores' = StoredBody(body)
        /\ pass' \in {"generate", "failed", "aborted"}
  BY <1>2 DEF Generate, GeneratedAs, BodiesOf
<1>4. PICK m \in Nat : m = Len(genOrder)
  BY <1>1, <1>2, OrderFacts
<1>5. PICK t \in 1 .. Len(capBB) : t = Top
  BY <1>1, <1>2, TopFacts DEF Generating
<1>6. /\ capBB'[t].size = body.size /\ capBB'[t].addr1 = base + used
      /\ \A b \in 1 .. Len(capBB) : b # t => capBB'[b] = capBB[b]
      /\ body.size \in Nat /\ body.last \in Nat /\ body.count \in Nat
  BY <1>1, <1>2, <1>3, <1>5, GeneratedFacts, LayoutConstants DEF SameExits, Body
<1>7. /\ Len(genOrder') = m + 1
      /\ \A k \in 1 .. m : genOrder'[k] = genOrder[k] /\ genOrder[k] # t
      /\ genOrder'[m + 1] = t
  BY <1>1, <1>2, <1>4, <1>5, AppendedFacts
<1>8. /\ base \in Nat /\ fullsize \in Nat /\ used \in Nat /\ stores \in Seq(StoreRec)
      /\ \A k \in 1 .. m :
           /\ genOrder[k] \in 1 .. Len(capBB) /\ Stop1(k) \in Nat
           /\ X(k).addr1 \in Nat /\ X(k).size \in Nat
  BY <1>1, <1>2, <1>4, OrderFacts, LayoutConstants
     DEF Order, GInv, BlockTypes, MInv, StoresInside
<1>9. /\ \A k \in 1 .. m : X(k)' = X(k)
      /\ X(m + 1)' = capBB'[t]
  BY <1>7, <1>8, <1>6 DEF X
<1>10. Placed = 0 /\ Placed' = 0 /\ Linked' = 0 /\ pass' # "link"
  BY <1>2, <1>3 DEF Placed, Linked
<1> DEFINE s == Store(base + used, body.size, BodyOf(t))
<1>11. s \in StoreRec /\ s.at = base + used /\ s.len = body.size
  <2>1. base + used \in Int /\ body.size \in Nat /\ t \in Int
    BY <1>6, <1>8
  <2>2. s \in StoreRec
    BY <2>1, StoreTypes
  <2> QED
    BY <2>2 DEF Store
<1>12. stores' = IF body.size = 0 THEN stores ELSE Append(stores, s)
  BY <1>3, <1>5 DEF StoredBody
<1>13. body.size > 0 => base + used + body.size <= base + fullsize
  <2>1. body.size <= body.last + 15 /\ (body.count = 0 => body.size = 0)
    BY LayoutConstants, Widths
  <2>2. body.count > 0 => fullsize - (used + body.last) >= 15
    BY <1>3, Widths DEF Reserved
  <2> QED
    BY <1>6, <1>8, <2>1, <2>2, SMTT(30)
<1> HIDE DEF s
<1>14. StoresInside'
  <2>1. CASE body.size = 0
    BY <1>12, <2>1 DEF MInv, StoresInside
  <2>2. CASE body.size # 0
    <3>1. stores' = Append(stores, s) /\ base <= s.at /\ s.at + s.len <= base + fullsize
      BY <1>6, <1>8, <1>11, <1>12, <1>13, <2>2
    <3> QED
      BY <1>11, <3>1, InsideKept DEF MInv
  <2> QED
    BY <2>1, <2>2
<1>15. ASSUME NEW k \in 1 .. m, X(k).size > 0
       PROVE  Shows(stores', X(k).addr1, X(k).size, BodyOf(genOrder[k]))
  <2>1. Shows(stores, X(k).addr1, X(k).size, BodyOf(genOrder[k]))
    BY <1>2, <1>4, <1>10, <1>15 DEF MInv, BodiesShown, Where, Order
  <2>2. Stop1(k) + 26 <= base + used
    BY <1>1, <1>2, <1>4 DEF Spread, Order, Hole
  <2>3. X(k).addr1 + X(k).size <= base + used
    BY <1>8, <2>2 DEF Stop1
  <2>4. Apart(s, X(k).addr1, X(k).size)
    BY <1>11, <2>3 DEF Apart
  <2>5. Shows(Append(stores, s), X(k).addr1, X(k).size, BodyOf(genOrder[k]))
    BY <1>8, <1>11, <2>1, <2>4, ShowsKept
  <2> QED
    BY <1>12, <2>1, <2>5
<1>16. body.size > 0 => Shows(stores', base + used, body.size, BodyOf(t))
  <2> SUFFICES ASSUME body.size > 0
               PROVE  Shows(stores', base + used, body.size, BodyOf(t))
    OBVIOUS
  <2>1. Shows(Append(stores, s), base + used, body.size, BodyOf(t))
    BY <1>8, <1>11, ShowsNew DEF s
  <2> QED
    BY <1>12, <2>1
<1>17. \A k \in Order' : k = m + 1 \/ k \in 1 .. m
  BY <1>7 DEF Order
<1>18. ASSUME NEW k \in Order', X(k)'.size > 0
       PROVE  Shows(stores', Where(k)', X(k)'.size, BodyOf(genOrder'[k]))
  <2>1. Where(k)' = X(k)'.addr1
    BY <1>7, <1>10, <1>17 DEF Where
  <2>2. CASE k = m + 1
    BY <1>6, <1>7, <1>9, <1>16, <1>18, <2>1, <2>2
  <2>3. CASE k \in 1 .. m
    BY <1>7, <1>9, <1>15, <1>18, <2>1, <2>3
  <2> QED
    BY <1>17, <2>2, <2>3
<1>19. BodiesShown'
  BY <1>18 DEF BodiesShown, BodyOf
<1>20. JumpsShown'
  BY <1>10 DEF JumpsShown
<1> QED
  BY <1>1, <1>10, <1>14, <1>19, <1>20 DEF MInv

\* A block is copied to where no block is that was placed, and none that is
\* still to be copied.
LEMMA PlaceMemory == ASSUME MInv, Place PROVE MInv'
<1>1. AInv' /\ AInv /\ GInv /\ GInv' /\ Spread /\ Packed' /\ Live /\ Live'
  BY PlaceAddresses DEF MInv, AInv, Place, Live
<1>2. PICK n \in Nat : n = Len(genOrder)
  BY <1>1, OrderFacts
<1>3. PICK p \in 1 .. n : p = i
  BY <1>1, <1>2, PlacedFacts
<1>4. PICK t \in 1 .. Len(capBB) : t = genOrder[p]
  BY <1>1, <1>3, PlacedFacts
<1>5. /\ capBB'[t].size = capBB[t].size /\ capBB'[t].addr1 = capBB[t].addr1
      /\ capBB'[t].addr2 = buf1
      /\ \A b \in 1 .. Len(capBB) : b # t => capBB'[b] = capBB[b]
  BY <1>1, <1>3, <1>4, PlacedFacts DEF SameExits
<1>6. genOrder' = genOrder /\ pass = "place" /\ pass' = "place" /\ i' = p + 1
  BY <1>3 DEF Place
<1>7. Placed = p - 1 /\ Placed' = p /\ Linked' = 0
  BY <1>3, <1>6 DEF Placed, Linked
<1>8. \A k \in 1 .. n :
        /\ k \in Nat /\ k > 0
        /\ genOrder[k] \in 1 .. Len(capBB)
        /\ X(k).size \in Nat /\ X(k).addr1 \in Nat /\ X(k).addr2 \in Nat
        /\ Room(k) \in Nat
        /\ k # p => genOrder[k] # t
  BY <1>1, <1>2, <1>3, <1>4, OrderFacts DEF Order
<1>9. base \in Nat /\ fullsize \in Nat /\ buf1 \in Nat /\ base <= buf1
      /\ stores \in Seq(StoreRec)
  BY <1>1, LayoutConstants DEF GInv, BlockTypes, MInv, StoresInside
<1>10. \A k \in 1 .. n : k # p => X(k)' = X(k)
  BY <1>5, <1>6, <1>8 DEF X
<1>11. X(p) = capBB[t] /\ X(p)' = capBB'[t]
  BY <1>3, <1>4, <1>6 DEF X
<1>12. PICK z \in Nat : z = X(p).size
  BY <1>8
<1>13. buf1 <= X(p).addr1
  BY <1>1, <1>3, <1>5, <1>7, <1>11 DEF Packed
<1> DEFINE s == Store(buf1, z, BodyOf(t))
<1>14. s \in StoreRec /\ s.at = buf1 /\ s.len = z
  <2>1. buf1 \in Int /\ z \in Nat /\ t \in Int
    BY <1>9
  <2>2. s \in StoreRec
    BY <2>1, StoreTypes
  <2> QED
    BY <2>2 DEF Store
<1>15. stores' = IF z = 0 THEN stores ELSE Append(stores, s)
  <2>1. z > 0 => Shows(stores, X(p).addr1, z, BodyOf(t))
    BY <1>1, <1>2, <1>3, <1>4, <1>7, <1>12 DEF MInv, BodiesShown, Where, Order
  <2>2. stores' = Copied(t)
    BY <1>3, <1>4 DEF Place
  <2>3. z = 0 => stores' = stores
    BY <1>11, <1>12, <2>2 DEF Copied
  <2>4. z # 0 => stores' = Append(stores, s)
    BY <1>11, <1>12, <1>13, <2>1, <2>2 DEF Copied
  <2> QED
    BY <2>3, <2>4
<1> HIDE DEF s
<1>16. StoresInside'
  <2>1. CASE z = 0
    BY <1>15, <2>1 DEF MInv, StoresInside
  <2>2. CASE z # 0
    <3>1. X(p).addr1 + X(p).size + 26 <= base + fullsize
      BY <1>1, <1>2, <1>3 DEF Spread, Order, Stop1, Hole
    <3>2. s.at + s.len <= base + fullsize
      BY <1>8, <1>9, <1>12, <1>13, <1>14, <3>1, SMTT(30)
    <3> QED
      BY <1>9, <1>14, <1>15, <2>2, <3>2, InsideKept DEF MInv
  <2> QED
    BY <2>1, <2>2
<1>17. ASSUME NEW a \in Nat, NEW m \in Nat, NEW w, Shows(stores, a, m, w),
              a + m <= buf1 \/ buf1 + z <= a
       PROVE  Shows(stores', a, m, w)
  <2>1. Apart(s, a, m)
    BY <1>14, <1>17 DEF Apart
  <2>2. Shows(Append(stores, s), a, m, w)
    BY <1>9, <1>14, <1>17, <2>1, ShowsKept
  <2> QED
    BY <1>15, <1>17, <2>2
<1>18. ASSUME NEW k \in 1 .. n, X(k)'.size > 0
       PROVE  Shows(stores', Where(k)', X(k)'.size, BodyOf(genOrder[k]))
  <2>1. CASE k = p
    <3>1. Where(k)' = buf1 /\ X(k)'.size = z /\ genOrder[k] = t
      BY <1>3, <1>4, <1>5, <1>7, <1>11, <1>12, <2>1 DEF Where
    <3>2. Shows(Append(stores, s), buf1, z, BodyOf(t))
      BY <1>9, <1>14, ShowsNew DEF s
    <3> QED
      BY <1>15, <1>18, <3>1, <3>2
  <2>2. CASE k < p
    <3>1. Where(k)' = X(k).addr2 /\ Where(k) = X(k).addr2 /\ X(k)' = X(k)
      BY <1>3, <1>7, <1>8, <1>10, <2>2 DEF Where
    <3>2. Shows(stores, X(k).addr2, X(k).size, BodyOf(genOrder[k]))
      BY <1>1, <1>2, <1>18, <3>1 DEF MInv, BodiesShown, Order
    <3>3. k \in 1 .. Placed
      BY <1>3, <1>7, <1>8, <2>2
    <3>4. X(k).addr2 + X(k).size + Room(k) <= buf1
      BY <1>1, <3>3 DEF AInv, Packed, Stop2
    <3>5. X(k).addr2 + X(k).size <= buf1
      BY <1>8, <1>9, <3>4
    <3> QED
      BY <1>8, <1>17, <3>1, <3>2, <3>5
  <2>3. CASE p < k
    <3>1. Where(k)' = X(k).addr1 /\ Where(k) = X(k).addr1 /\ X(k)' = X(k)
      BY <1>3, <1>7, <1>8, <1>10, <2>3 DEF Where
    <3>2. Shows(stores, X(k).addr1, X(k).size, BodyOf(genOrder[k]))
      BY <1>1, <1>2, <1>18, <3>1 DEF MInv, BodiesShown, Order
    <3>3. X(p).addr1 + X(p).size + 26 <= X(k).addr1
      BY <1>1, <1>2, <1>3, <2>3 DEF Spread, Order, Stop1, Hole
    <3>4. buf1 + z <= X(k).addr1
      BY <1>8, <1>9, <1>12, <1>13, <3>3, SMTT(30)
    <3> QED
      BY <1>8, <1>17, <3>1, <3>2, <3>4
  <2> QED
    BY <1>8, <2>1, <2>2, <2>3
<1>19. BodiesShown'
  BY <1>2, <1>6, <1>18 DEF BodiesShown, Order, BodyOf
<1>20. JumpsShown'
  BY <1>7 DEF JumpsShown
<1> QED
  BY <1>1, <1>6, <1>16, <1>19, <1>20 DEF MInv

\* Between pass 2 and pass 3 nothing is stored.
LEMMA EndPlaceMemory == ASSUME MInv, EndPlace PROVE MInv'
<1>1. AInv' /\ GInv /\ AInv
  BY EndPlaceAddresses DEF MInv, AInv
<1>2. /\ capBB' = capBB /\ genOrder' = genOrder /\ stores' = stores
      /\ pass = "place" /\ pass' = "link" /\ i > Len(genOrder) /\ i' = 1
  BY DEF EndPlace
<1>3. i - 1 <= Len(genOrder) /\ i \in Nat /\ Len(genOrder) \in Nat
  BY <1>1, <1>2 DEF AInv, Handed, GInv, BlockTypes
<1>4. Placed = Len(genOrder) /\ Placed' = Len(genOrder) /\ Linked' = 0
  BY <1>2, <1>3 DEF Placed, Linked
<1>5. BodiesShown'
  BY <1>2, <1>4 DEF MInv, BodiesShown, Live, Where, X, Order
<1>6. StoresInside' /\ JumpsShown'
  BY <1>2, <1>4 DEF MInv, StoresInside, JumpsShown
<1>7. (pass = "link" => i - 1 <= Len(genOrder))'
  BY <1>2, <1>3
<1> QED
  BY <1>1, <1>5, <1>6, <1>7 DEF MInv

\* The jumps of a block fit into the room left for them, and go where they
\* should: no displacement is cut off.
LEMMA JumpStores ==
  ASSUME AInv, pass = "link", NEW p \in Order, X(p).endType = "jcc"
  PROVE  LET t == genOrder[p]
         IN /\ JccStore(t) = Store(Stop2(p), JccLen(p), JccTo(capBB[X(p).nextBranch].addr2))
            /\ X(p).genJump =>
                 JumpStore(t) = Store(JccEnd(p), JumpBytes,
                                      JumpTo(capBB[X(p).nextFallThrough].addr2))
            /\ JccStore(t) \in StoreRec
            /\ X(p).genJump => JumpStore(t) \in StoreRec
            /\ JccLen(p) \in Nat /\ JccEnd(p) \in Nat
            /\ Room(p) = JccLen(p) + (IF X(p).genJump THEN 5 ELSE 0)
<1> DEFINE t  == genOrder[p]
           nb == X(p).nextBranch
           nf == X(p).nextFallThrough
<1>1. GInv /\ Live
  BY DEF AInv, Live
<1>2. t \in 1 .. Len(capBB) /\ X(p) = capBB[t] /\ Stop2(p) \in Nat
  BY <1>1, OrderFacts DEF X
<1>3. IsJcc(t)
  BY <1>2 DEF IsJcc
<1>4. nb \in 1 .. Len(capBB) /\ nf \in 1 .. Len(capBB)
  BY <1>1, <1>2, <1>3 DEF GInv, LinksValid
<1>5. capBB[nb].addr2 \in Nat /\ capBB[nf].addr2 \in Nat
  <2>1. capBB[nb] \in CBB /\ capBB[nf] \in CBB
    BY <1>1, <1>4 DEF GInv, BlockTypes
  <2> QED
    BY <2>1 DEF CBB
<1>6. End2(t) = Stop2(p) /\ JccBytes(t) = JccLen(p) /\ JccLen(p) \in Nat
  BY <1>2, Widths DEF End2, Stop2, JccBytes, JccLen
<1>7. JccEnd(p) \in Nat /\ JccEnd(p) = Stop2(p) + JccLen(p)
  BY <1>2, <1>6 DEF JccEnd
<1>8. Diff2(t) = capBB[nb].addr2 - (Stop2(p) + JccLen(p))
  BY <1>2, <1>6 DEF Diff2
<1>9. X(p).genJcc8 => -128 < Diff2(t) /\ Diff2(t) < 127
  <2> SUFFICES ASSUME X(p).genJcc8 PROVE -128 < Diff2(t) /\ Diff2(t) < 127
    OBVIOUS
  <2>1. PICK l \in Order : genOrder[l] = nb
    BY <1>1, <1>4, Position
  <2>2. LET d == X(l).addr2 - (Stop2(p) + Jcc8Bytes) IN -128 < d /\ d < 127
    BY <2>1, Reach
  <2>3. X(l).addr2 = capBB[nb].addr2 /\ JccLen(p) = Jcc8Bytes
    BY <2>1 DEF X, JccLen
  <2> QED
    BY <1>8, <2>2, <2>3
<1>10. Diff2(t) \in Int
  BY <1>2, <1>5, <1>6, <1>8
<1> DEFINE d == IF capBB[t].genJcc8 THEN Int8(Diff2(t)) ELSE Diff2(t)
<1>11. d = Diff2(t)
  <2>1. \A e \in Int : -128 < e /\ e < 127 => Int8(e) = e
    BY DEF Int8
  <2> QED
    BY <1>2, <1>9, <1>10, <2>1
<1>12. JccStore(t) = Store(Stop2(p), JccLen(p), JccTo(capBB[nb].addr2))
  <2>1. JccStore(t) = Store(End2(t), JccBytes(t), JccTo(End2(t) + JccBytes(t) + d))
    BY DEF JccStore
  <2>2. End2(t) + JccBytes(t) + d = capBB[nb].addr2
    <3> HIDE DEF d, nb, t
    <3> QED
      BY <1>2, <1>5, <1>6, <1>8, <1>11
  <2> QED
    BY <1>6, <2>1, <2>2
<1>13. JumpStore(t) = Store(JccEnd(p), JumpBytes, JumpTo(capBB[nf].addr2))
  <2> DEFINE a == JccEnd(p)
  <2>1. End2(t) + JccBytes(t) = a
    BY <1>6, <1>7
  <2>2. a + JumpBytes + (capBB[nf].addr2 - (a + JumpBytes)) = capBB[nf].addr2
    <3> HIDE DEF a, nf
    <3> QED
      BY <1>5, <1>7, Widths DEF a
  <2> QED
    BY <1>2, <2>1, <2>2 DEF JumpStore
<1>14. JccStore(t) \in StoreRec /\ JumpStore(t) \in StoreRec
  <2>1. Stop2(p) \in Int /\ JccEnd(p) \in Int /\ capBB[nb].addr2 \in Int
        /\ capBB[nf].addr2 \in Int /\ JumpBytes \in Nat
    BY <1>2, <1>5, <1>7, Widths
  <2> QED
    BY <1>6, <1>12, <1>13, <2>1, StoreTypes
<1>15. Room(p) = JccLen(p) + (IF X(p).genJump THEN 5 ELSE 0)
  BY Widths DEF Room, JccLen
<1> QED
  BY <1>6, <1>7, <1>12, <1>13, <1>14, <1>15
\* The jumps of a block are written to the room behind it.
LEMMA LinkMemory == ASSUME MInv, Link PROVE MInv'
<1>1. AInv' /\ AInv /\ GInv /\ Spread /\ Packed /\ Live /\ Live'
  BY LinkAddresses DEF MInv, AInv, Link, Live
<1>2. PICK n \in Nat : n = Len(genOrder)
  BY <1>1, OrderFacts
<1>3. PICK p \in 1 .. n : p = i
  BY <1>1, <1>2 DEF GInv, BlockTypes, Link
<1>4. /\ capBB' = capBB /\ genOrder' = genOrder /\ pass = "link" /\ pass' = "link"
      /\ i' = p + 1
  BY <1>3 DEF Link
<1>5. Placed = n /\ Placed' = n /\ Linked = p - 1 /\ Linked' = p
  BY <1>2, <1>3, <1>4 DEF Placed, Linked
<1>6. \A k \in 1 .. n :
        /\ k \in Nat /\ X(k).addr2 \in Nat /\ X(k).size \in Nat /\ Room(k) \in Nat
        /\ Stop2(k) \in Nat /\ Stop2(k) = X(k).addr2 + X(k).size
        /\ genOrder[k] \in 1 .. Len(capBB)
  BY <1>1, <1>2, OrderFacts DEF Order, Stop2
<1>7. base \in Nat /\ fullsize \in Nat /\ stores \in Seq(StoreRec)
  BY LayoutConstants DEF MInv, StoresInside
<1> DEFINE jcc  == JccStore(genOrder[p])
           jump == JumpStore(genOrder[p])
<1>8. X(p).endType = "jcc" =>
        /\ jcc = Store(Stop2(p), JccLen(p), JccTo(capBB[X(p).nextBranch].addr2))
        /\ X(p).genJump =>
             jump = Store(JccEnd(p), JumpBytes, JumpTo(capBB[X(p).nextFallThrough].addr2))
        /\ jcc \in StoreRec
        /\ X(p).genJump => jump \in StoreRec
        /\ JccLen(p) \in Nat /\ JccEnd(p) \in Nat /\ JccEnd(p) = Stop2(p) + JccLen(p)
        /\ Room(p) = JccLen(p) + (IF X(p).genJump THEN 5 ELSE 0)
  BY <1>1, <1>2, <1>4, JumpStores DEF Order, JccEnd
<1>9. stores' = IF X(p).endType # "jcc" THEN stores
                ELSE IF X(p).genJump THEN stores \o << jcc, jump >>
                ELSE Append(stores, jcc)
  BY <1>3 DEF Link, IsJcc, X
<1> HIDE DEF jcc, jump
<1>10. jcc \in StoreRec /\ jump \in StoreRec =>
         stores \o << jcc, jump >> = Append(Append(stores, jcc), jump)
  BY <1>7
<1>11. X(p).endType = "jcc" =>
         /\ jcc.at = Stop2(p) /\ jcc.len = JccLen(p)
         /\ X(p).genJump => jump.at = JccEnd(p) /\ jump.len = 5
  BY <1>8, Widths DEF Store
<1>12. Stop2(p) + Room(p) <= base + fullsize /\ base <= Stop2(p)
  <2>1. X(p).addr1 + X(p).size + 26 <= base + fullsize
    BY <1>1, <1>2 DEF Spread, Order, Stop1, Hole
  <2>2. base <= X(p).addr2 /\ X(p).addr2 <= X(p).addr1
    BY <1>1, <1>5 DEF Packed
  <2>3. Room(p) <= 11 /\ X(p).addr1 \in Nat
    BY <1>1, <1>2, OrderFacts DEF Order
  <2> QED
    BY <1>6, <1>7, <2>1, <2>2, <2>3, SMTT(30)
<1> DEFINE mid == Append(stores, jcc)
<1>13. X(p).endType = "jcc" => mid \in Seq(StoreRec)
  BY <1>7, <1>8
<1>14. StoresInside'
  <2>1. CASE X(p).endType # "jcc"
    BY <1>9, <2>1 DEF MInv, StoresInside
  <2>2. CASE X(p).endType = "jcc"
    <3>1. /\ base <= jcc.at /\ jcc.at + jcc.len <= base + fullsize
          /\ X(p).genJump => base <= jump.at /\ jump.at + jump.len <= base + fullsize
      <4>1. Stop2(p) \in Nat /\ Room(p) \in Nat
        BY <1>6
      <4>2. JccLen(p) \in Nat /\ JccEnd(p) = Stop2(p) + JccLen(p)
            /\ Room(p) = JccLen(p) + (IF X(p).genJump THEN 5 ELSE 0)
        BY <1>8, <2>2
      <4>3. jcc.at = Stop2(p) /\ jcc.len = JccLen(p)
        BY <1>11, <2>2
      <4>4. CASE X(p).genJump
        <5>1. jump.at = JccEnd(p) /\ jump.len = 5
          BY <1>11, <2>2, <4>4
        <5> QED
          BY <1>7, <1>12, <4>1, <4>2, <4>3, <4>4, <5>1
      <4>5. CASE ~X(p).genJump
        BY <1>7, <1>12, <4>1, <4>2, <4>3, <4>5
      <4> QED
        BY <4>4, <4>5
    <3>2. \A s \in 1 .. Len(mid) :
            base <= mid[s].at /\ mid[s].at + mid[s].len <= base + fullsize
      <4>1. /\ Len(stores) \in Nat /\ Len(mid) = Len(stores) + 1
            /\ mid[Len(stores) + 1] = jcc
            /\ \A s \in 1 .. Len(stores) : mid[s] = stores[s]
        BY <1>7, <1>8, <2>2, AppendFacts
      <4>2. \A s \in 1 .. Len(stores) :
              base <= stores[s].at /\ stores[s].at + stores[s].len <= base + fullsize
        BY DEF MInv, StoresInside
      <4> HIDE DEF mid
      <4>3. \A s \in 1 .. Len(mid) : s = Len(stores) + 1 \/ s \in 1 .. Len(stores)
        BY <4>1
      <4> QED
        BY <3>1, <4>1, <4>2, <4>3
    <3>3. CASE ~X(p).genJump
      BY <1>9, <1>13, <2>2, <3>2, <3>3 DEF StoresInside
    <3>4. CASE X(p).genJump
      <4>1. stores' = Append(mid, jump)
        BY <1>8, <1>9, <1>10, <2>2, <3>4
      <4> HIDE DEF mid
      <4>2. /\ Len(mid) \in Nat /\ stores' \in Seq(StoreRec) /\ Len(stores') = Len(mid) + 1
            /\ stores'[Len(mid) + 1] = jump
            /\ \A s \in 1 .. Len(mid) : stores'[s] = mid[s]
        BY <1>8, <1>13, <2>2, <3>4, <4>1, AppendFacts
      <4>3. \A s \in 1 .. Len(stores') : s = Len(mid) + 1 \/ s \in 1 .. Len(mid)
        BY <4>2
      <4> QED
        BY <3>1, <3>2, <3>4, <4>2, <4>3 DEF StoresInside
    <3> QED
      BY <3>3, <3>4
  <2> QED
    BY <2>1, <2>2
<1>15. ASSUME NEW a \in Nat, NEW m \in Nat, NEW w, Shows(stores, a, m, w),
              a + m <= Stop2(p) \/ Stop2(p) + Room(p) <= a
       PROVE  Shows(stores', a, m, w)
  <2>1. CASE X(p).endType # "jcc"
    BY <1>9, <1>15, <2>1
  <2>2. CASE X(p).endType = "jcc"
    <3>1. Apart(jcc, a, m)
      BY <1>6, <1>8, <1>11, <1>15, <2>2 DEF Apart
    <3>2. Shows(mid, a, m, w)
      BY <1>7, <1>8, <1>15, <2>2, <3>1, ShowsKept
    <3>3. CASE ~X(p).genJump
      BY <1>9, <2>2, <3>2, <3>3
    <3>4. CASE X(p).genJump
      <4>1. stores' = Append(mid, jump)
        BY <1>8, <1>9, <1>10, <2>2, <3>4
      <4>2. Apart(jump, a, m)
        BY <1>6, <1>8, <1>11, <1>15, <2>2, <3>4 DEF Apart
      <4> HIDE DEF mid
      <4> QED
        BY <1>8, <1>13, <2>2, <3>2, <3>4, <4>1, <4>2, ShowsKept
    <3> QED
      BY <3>3, <3>4
  <2> QED
    BY <2>1, <2>2
<1>16. ASSUME NEW k \in 1 .. n, X(k).size > 0
       PROVE  Shows(stores', X(k).addr2, X(k).size, BodyOf(genOrder[k]))
  <2>1. Shows(stores, X(k).addr2, X(k).size, BodyOf(genOrder[k]))
    <3>1. Where(k) = X(k).addr2
      BY <1>5 DEF Where
    <3> QED
      BY <1>1, <1>2, <1>16, <3>1 DEF MInv, BodiesShown, Order
  <2>2. k < p => Stop2(k) + Room(k) <= X(p).addr2
    BY <1>1, <1>5 DEF Packed
  <2>3. p < k => Stop2(p) + Room(p) <= X(k).addr2
    BY <1>1, <1>5 DEF Packed
  <2>4. \/ X(k).addr2 + X(k).size <= Stop2(p)
        \/ Stop2(p) + Room(p) <= X(k).addr2
    <3>1. /\ Stop2(k) \in Nat /\ Stop2(k) = X(k).addr2 + X(k).size /\ Room(k) \in Nat
          /\ k \in Nat
      BY <1>6
    <3>2. /\ Stop2(p) \in Nat /\ X(p).addr2 \in Nat /\ X(p).size \in Nat
          /\ Stop2(p) = X(p).addr2 + X(p).size /\ p \in Nat
      BY <1>6
    <3>3. CASE k < p
      BY <2>2, <3>1, <3>2, <3>3
    <3>4. CASE k = p
      BY <3>1, <3>2, <3>4
    <3> QED
      BY <2>3, <3>1, <3>2, <3>3, <3>4
  <2> QED
    BY <1>6, <1>15, <2>1, <2>4
<1>17. BodiesShown'
  <2>1. \A k \in 1 .. n : X(k)' = X(k) /\ Where(k)' = X(k).addr2
    BY <1>4, <1>5 DEF X, Where
  <2> QED
    BY <1>2, <1>4, <1>16, <2>1 DEF BodiesShown, Order, BodyOf
<1>18. ASSUME NEW k \in 1 .. p, X(k).endType = "jcc"
       PROVE  /\ Shows(stores', Stop2(k), JccLen(k), JccTo(capBB[X(k).nextBranch].addr2))
              /\ X(k).genJump =>
                   Shows(stores', JccEnd(k), JumpBytes,
                         JumpTo(capBB[X(k).nextFallThrough].addr2))
  <2>1. CASE k = p
    <3>1. Shows(mid, Stop2(p), JccLen(p), JccTo(capBB[X(p).nextBranch].addr2))
      BY <1>7, <1>8, <1>18, <2>1, ShowsNew
    <3>2. CASE ~X(p).genJump
      BY <1>9, <1>18, <2>1, <3>1, <3>2
    <3>3. CASE X(p).genJump
      <4>1. stores' = Append(mid, jump)
        BY <1>8, <1>9, <1>10, <1>18, <2>1, <3>3
      <4>2. Apart(jump, Stop2(p), JccLen(p))
        BY <1>6, <1>8, <1>11, <1>18, <2>1, <3>3 DEF Apart
      <4> HIDE DEF mid
      <4>3. Shows(stores', Stop2(p), JccLen(p), JccTo(capBB[X(p).nextBranch].addr2))
        BY <1>8, <1>13, <1>18, <2>1, <3>1, <3>3, <4>1, <4>2, ShowsKept
      <4>4. Shows(stores', JccEnd(p), JumpBytes,
                  JumpTo(capBB[X(p).nextFallThrough].addr2))
        BY <1>8, <1>13, <1>18, <2>1, <3>3, <4>1, ShowsNew
      <4> QED
        BY <2>1, <4>3, <4>4
    <3> QED
      BY <3>2, <3>3
  <2>2. CASE k # p
    <3>1. k \in 1 .. Linked /\ k \in 1 .. n /\ k < p /\ k \in Order
      BY <1>2, <1>3, <1>5, <2>2 DEF Order
    <3>2. /\ Shows(stores, Stop2(k), JccLen(k), JccTo(capBB[X(k).nextBranch].addr2))
          /\ X(k).genJump =>
               Shows(stores, JccEnd(k), JumpBytes,
                     JumpTo(capBB[X(k).nextFallThrough].addr2))
      BY <1>18, <3>1 DEF MInv, JumpsShown
    <3>3. Stop2(k) + Room(k) <= X(p).addr2
      BY <1>1, <1>5, <3>1 DEF Packed
    <3>4. /\ JccLen(k) \in Nat /\ JccEnd(k) \in Nat /\ JccEnd(k) = Stop2(k) + JccLen(k)
          /\ Room(k) = JccLen(k) + (IF X(k).genJump THEN 5 ELSE 0)
      BY <1>1, <1>4, <1>18, <3>1, JumpStores DEF JccEnd
    <3>5. /\ Stop2(k) + JccLen(k) <= Stop2(p)
          /\ X(k).genJump => JccEnd(k) + 5 <= Stop2(p)
      <4>1. /\ Stop2(k) \in Nat /\ Stop2(p) \in Nat
            /\ X(p).addr2 \in Nat /\ X(p).size \in Nat /\ Stop2(p) = X(p).addr2 + X(p).size
        BY <1>6, <3>1
      <4>2. X(p).addr2 <= Stop2(p)
        BY <4>1
      <4> QED
        BY <3>3, <3>4, <4>1, <4>2
    <3>6. Shows(stores', Stop2(k), JccLen(k), JccTo(capBB[X(k).nextBranch].addr2))
      BY <1>6, <1>15, <3>1, <3>2, <3>4, <3>5
    <3>7. JumpBytes \in Nat /\ JumpBytes = 5
      BY Widths
    <3>8. X(k).genJump => Shows(stores', JccEnd(k), JumpBytes,
                                JumpTo(capBB[X(k).nextFallThrough].addr2))
      BY <1>15, <3>2, <3>4, <3>5, <3>7
    <3> QED
      BY <3>6, <3>8
  <2> QED
    BY <2>1, <2>2
<1>19. JumpsShown'
  <2>1. \A k : X(k)' = X(k) /\ Stop2(k)' = Stop2(k) /\ JccLen(k)' = JccLen(k)
               /\ JccEnd(k)' = JccEnd(k)
    BY <1>4 DEF X, Stop2, JccLen, JccEnd
  <2> QED
    BY <1>4, <1>5, <1>18, <2>1 DEF JumpsShown, JccTo, JumpTo
<1>20. (pass = "link" => i - 1 <= Len(genOrder))'
  BY <1>2, <1>3, <1>4
<1> QED
  BY <1>1, <1>14, <1>17, <1>19, <1>20 DEF MInv

\* Finishing stores nothing.
LEMMA FinishMemory == ASSUME MInv, Finish PROVE MInv'
<1>1. AInv' /\ GInv /\ AInv
  BY FinishAddresses DEF MInv, AInv
<1>2. /\ capBB' = capBB /\ genOrder' = genOrder /\ stores' = stores
      /\ pass = "link" /\ pass' = "done" /\ i > Len(genOrder)
  BY DEF Finish
<1>3. i - 1 <= Len(genOrder) /\ i \in Nat /\ Len(genOrder) \in Nat
  BY <1>1, <1>2 DEF MInv, GInv, BlockTypes
<1>4. Placed' = Placed /\ Linked = Len(genOrder) /\ Linked' = Len(genOrder)
  BY <1>2, <1>3 DEF Placed, Linked
<1>5. BodiesShown'
  BY <1>2, <1>4 DEF MInv, BodiesShown, Live, Where, X, Order
<1>6. StoresInside' /\ JumpsShown'
  BY <1>2, <1>4 DEF MInv, StoresInside, JumpsShown, X, Stop2, JccLen, JccEnd, JccTo, JumpTo
<1> QED
  BY <1>1, <1>2, <1>5, <1>6 DEF MInv

\* Stuttering, and steps that store nothing in pass 1.
LEMMA OtherMemory ==
  ASSUME MInv, Begin \/ Skip \/ EndGenerate \/ OrderFull \/ GenerateError
               \/ StorageFull \/ UNCHANGED vars
  PROVE  MInv'
<1>1. AInv' /\ AInv /\ GInv
  BY AddressStep DEF MInv, AInv, Next
<1>2. CASE Begin \/ Skip \/ EndGenerate
  <2>1. /\ stores' = stores /\ capBB' = capBB /\ genOrder' = genOrder
        /\ pass \in {"captured", "generate"} /\ pass' \in {"generate", "place"}
    BY <1>2 DEF Begin, Skip, EndGenerate
  <2>2. Placed = 0 /\ Placed' = 0
    <3>1. pass' = "place" => i' = 1
      BY <1>1, <1>2, <2>1 DEF Begin, Skip, EndGenerate, GInv, FirstRewrite
    <3> QED
      BY <2>1, <3>1 DEF Placed
  <2> QED
    BY <1>1, <2>1, <2>2, SameMemory DEF Live
<1>3. CASE OrderFull \/ GenerateError \/ StorageFull
  <2>1. stores' = stores /\ capBB' = capBB /\ pass' \in {"failed", "aborted", "exited"}
    BY <1>3 DEF OrderFull, GenerateError, StorageFull
  <2> QED
    BY <1>1, <2>1, SameMemory
<1>4. CASE UNCHANGED vars
  BY <1>1, <1>4 DEF vars, MInv, StoresInside, BodiesShown, JumpsShown, Live, Where, Placed,
     Linked, X, Order, Stop2, JccLen, JccEnd
<1> QED
  BY <1>2, <1>3, <1>4

\* What is stored where, in all passes.
THEOREM MemoryInvariant == Spec => []MInv
<1>1. Init => MInv
  BY InitMemory
<1>2. MInv /\ [Next]_vars => MInv'
  BY OtherMemory, GenerateMemory, PlaceMemory, EndPlaceMemory, LinkMemory, FinishMemory
     DEF Next
<1> QED
  BY <1>1, <1>2, PTL DEF Spec

\* All code is written to the code storage, and all of it that counts is in the
\* part that is returned as the generated function.
THEOREM CodeInStorage == Spec => []InStorage
<1>1. MInv => InStorage
  <2> SUFFICES ASSUME MInv PROVE InStorage
    OBVIOUS
  <2>1. \A k \in 1 .. Len(stores) :
          base <= stores[k].at /\ stores[k].at + stores[k].len <= base + fullsize
    BY DEF MInv, StoresInside
  <2>2. ASSUME pass = "done", NEW b \in Current
        PROVE  /\ generatedCodeAddr <= capBB[b].addr2
               /\ End2(b) + (IF IsJcc(b) THEN JccBytes(b) ELSE 0)
                          + (IF capBB[b].genJump THEN JumpBytes ELSE 0)
                    <= generatedCodeAddr + generatedCodeSize
    <3>1. GInv /\ Live /\ AInv /\ genOrder0 = 0
      BY <2>2 DEF MInv, AInv, GInv, FirstRewrite, Live
    <3>2. PICK k \in Order : genOrder[k] = b
      BY <2>2, <3>1 DEF Current, Order
    <3>3. k \in 1 .. Placed
      BY <2>2 DEF Placed, Order
    <3>4. base <= X(k).addr2 /\ Stop2(k) + Room(k) <= buf1
      BY <3>1, <3>3 DEF AInv, Packed
    <3>5. generatedCodeAddr = base /\ generatedCodeSize = buf1 - base
      BY <2>2, <3>1 DEF AInv, Handed
    <3>6. base \in Nat /\ buf1 \in Nat
      BY <3>1, LayoutConstants DEF GInv, BlockTypes
    <3>7. base + (buf1 - base) = buf1
      BY <3>6
    <3>8. Stop2(k) + Room(k) = End2(b) + (IF IsJcc(b) THEN JccBytes(b) ELSE 0)
                                       + (IF capBB[b].genJump THEN JumpBytes ELSE 0)
      <4>1. X(k) = capBB[b] /\ capBB[b] \in CBB
        BY <3>1, <3>2, OrderFacts DEF X
      <4>2. /\ End2(b) = Stop2(k) /\ Stop2(k) \in Nat
            /\ IsJcc(b) <=> X(k).endType = "jcc"
            /\ JccBytes(b) = JccLen(k)
        BY <3>1, <3>2, <4>1, OrderFacts DEF End2, Stop2, IsJcc, JccBytes, JccLen
      <4>3. ~IsJcc(b) => ~capBB[b].genJump
        BY <3>1, <3>3, <4>1, <4>2 DEF AInv, Packed, Decided
      <4>4. Room(k) = (IF IsJcc(b) THEN JccLen(k) ELSE 0)
                      + (IF capBB[b].genJump THEN JumpBytes ELSE 0)
        BY <4>1, <4>2, <4>3, Widths DEF Room, JccLen
      <4>5. JccLen(k) \in Nat /\ JumpBytes \in Nat
        BY Widths DEF JccLen
      <4> QED
        BY <4>2, <4>4, <4>5
    <3> QED
      BY <3>2, <3>4, <3>5, <3>7, <3>8 DEF X
  <2> QED
    BY <2>1, <2>2 DEF InStorage
<1> QED
  BY <1>1, MemoryInvariant, PTL

\* At the end the memory shows the captured program, completely: each block is
\* followed by a jump to where it branches to, and by the block it falls through
\* to or a jump there.
THEOREM CodeIsLinked == Spec => []LinkedCode
<1>1. MInv => LinkedCode
  <2> SUFFICES ASSUME MInv, pass = "done", NEW b \in Current
               PROVE  /\ capBB[b].size > 0 =>
                           Shows(stores, capBB[b].addr2, capBB[b].size, BodyOf(b))
                      /\ IsJcc(b) =>
                           /\ {capBB[b].nextBranch, capBB[b].nextFallThrough} \subseteq Current
                           /\ Shows(stores, End2(b), JccBytes(b),
                                    JccTo(capBB[capBB[b].nextBranch].addr2))
                           /\ \/ capBB[capBB[b].nextFallThrough].addr2 = End2(b) + JccBytes(b)
                              \/ Shows(stores, End2(b) + JccBytes(b), JumpBytes,
                                       JumpTo(capBB[capBB[b].nextFallThrough].addr2))
    BY DEF LinkedCode
  <2>1. GInv /\ Live /\ AInv /\ genOrder0 = 0
    BY DEF MInv, AInv, GInv, FirstRewrite, Live
  <2>2. PICK k \in Order : genOrder[k] = b
    BY <2>1 DEF Current, Order
  <2>3. k \in 1 .. Placed /\ k \in 1 .. Linked /\ Where(k) = X(k).addr2 /\ X(k) = capBB[b]
    BY <2>2 DEF Placed, Linked, Order, Where, X
  <2>4. capBB[b].size > 0 => Shows(stores, capBB[b].addr2, capBB[b].size, BodyOf(b))
    BY <2>1, <2>2, <2>3 DEF MInv, BodiesShown
  <2>5. b \in 1 .. Len(capBB)
    BY <2>1, <2>2, OrderFacts
  <2>6. End2(b) = Stop2(k) /\ JccBytes(b) = JccLen(k) /\ End2(b) + JccBytes(b) = JccEnd(k)
    BY <2>3 DEF End2, Stop2, JccBytes, JccLen, JccEnd
  <2>7. ASSUME IsJcc(b)
        PROVE  /\ {capBB[b].nextBranch, capBB[b].nextFallThrough} \subseteq Current
               /\ Shows(stores, End2(b), JccBytes(b),
                        JccTo(capBB[capBB[b].nextBranch].addr2))
               /\ \/ capBB[capBB[b].nextFallThrough].addr2 = End2(b) + JccBytes(b)
                  \/ Shows(stores, End2(b) + JccBytes(b), JumpBytes,
                           JumpTo(capBB[capBB[b].nextFallThrough].addr2))
    <3>1. \A a \in 1 .. Len(capBB) : a \in Current
      BY <2>1, Position DEF Current, Order
    <3>2. capBB[b].nextBranch \in 1 .. Len(capBB) /\ capBB[b].nextFallThrough \in 1 .. Len(capBB)
      BY <2>1, <2>5, <2>7 DEF GInv, LinksValid
    <3>3. X(k).endType = "jcc"
      BY <2>3, <2>7 DEF IsJcc
    <3>4. /\ Shows(stores, Stop2(k), JccLen(k), JccTo(capBB[X(k).nextBranch].addr2))
          /\ X(k).genJump =>
               Shows(stores, JccEnd(k), JumpBytes,
                     JumpTo(capBB[X(k).nextFallThrough].addr2))
      BY <2>3, <3>3 DEF MInv, JumpsShown
    <3>5. ASSUME ~X(k).genJump PROVE capBB[X(k).nextFallThrough].addr2 = JccEnd(k)
      <4>1. k + 1 \in Order /\ genOrder[k + 1] = X(k).nextFallThrough
        BY <2>1, <2>3, <3>3, <3>5 DEF AInv, Packed, Decided
      <4>2. k + 1 \in 1 .. Placed /\ k < k + 1
        BY <2>3, <4>1 DEF Placed, Order
      <4>3. Stop2(k) + Room(k) = X(k + 1).addr2
        BY <2>1, <2>3, <4>2 DEF AInv, Packed
      <4>4. Room(k) = JccLen(k) /\ JccLen(k) \in Nat
        BY <3>3, <3>5, Widths DEF Room, JccLen
      <4> QED
        BY <4>1, <4>3, <4>4 DEF JccEnd, X
    <3> QED
      BY <2>3, <2>6, <3>1, <3>2, <3>4, <3>5
  <2> QED
    BY <2>4, <2>7
<1> QED
  BY <1>1, MemoryInvariant, PTL
=============================================================================
