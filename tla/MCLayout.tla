------------------------------ MODULE MCLayout ------------------------------
(***************************************************************************)
(* Model checking of Layout for all graphs of up to MaxBlocks captured     *)
(* blocks, with sizes around the limits of short jumps.                    *)
(***************************************************************************)
EXTENDS Layout, FiniteSets

CONSTANTS MaxBlocks, Sizes

Exits(n) ==
  [ endType : {"jcc"}, nextBranch : 1 .. n, nextFallThrough : 1 .. n ] \cup
  [ endType : {"ret"}, nextBranch : {0}, nextFallThrough : {0} ]

\* Blocks are numbered as captured: each one but the first is a successor of
\* one before (Capture, property Discovered).
Discovered(n) ==
  { g \in [1 .. n -> Exits(n)] :
      \A b \in 2 .. n :
        \E a \in 1 .. (b - 1) : b \in {g[a].nextBranch, g[a].nextFallThrough} }

\* Two longer graphs: one jumps on every block, for the bound of the stack, one
\* returns from every second block, for the bound of the order.
Jcc(b, f) == [ endType |-> "jcc", nextBranch |-> b, nextFallThrough |-> f ]
Return    == [ endType |-> "ret", nextBranch |-> 0, nextFallThrough |-> 0 ]

Longer ==
  { << Jcc(1, 2), Jcc(2, 3), Jcc(3, 4), Jcc(4, 1) >>,
    << Jcc(2, 3), Return, Jcc(4, 5), Return, Return >> }

MCGraphs == UNION { Discovered(n) : n \in 1 .. MaxBlocks } \cup Longer

\* For rewriting again: a loop behind a test, and a function without jumps.
AgainGraphs == { << Jcc(3, 2), Jcc(2, 3), Return >>, << Return >> }

\* The last instruction of a block takes one byte, as a return does.
MCBodies ==
  { [ count |-> IF s = 0 THEN 0 ELSE 1 + (s \div 14), size |-> s,
      last |-> IF s = 0 THEN 0 ELSE s - 1 ] : s \in Sizes }
=============================================================================
