----------------------------- MODULE MCRewriter -----------------------------
(***************************************************************************)
(* Model checking of Rewriter: functions small enough that every table can *)
(* be exactly full, or too small by one.                                   *)
(***************************************************************************)
EXTENDS Rewriter

\* A captured block: of what it is emulated, how many instructions it captures,
\* and how many new blocks it asks for.
Block(f, ks, out, new) ==
  [ dec |-> [i \in DOMAIN ks |-> << f, ks[i] >>], out |-> out, new |-> new,
    jcc |-> 0, error |-> FALSE, kernel |-> NoKernel ]
Branching(t, slot) == [t EXCEPT !.jcc = slot]
Calling(t, f, params) == [t EXCEPT !.kernel = [ func |-> f, params |-> params ]]
Same(trace) == [s \in BOOLEAN |-> trace]

Function(blocks, trace, adds) ==
  [ blocks |-> blocks, trace |-> trace, adds |-> adds, supported |-> TRUE ]

\* "jcc" has two branches, of which one goes back; with a static parameter they are
\* known.  "call" has a kernel run on vectors: on both paths of a branch "packed",
\* which is known for vectors of both sizes, or "bad", which cannot be emulated.
\* "odd" has "mixed" run on vectors, which cannot be vectorized, and another kernel
\* on pointers; if these are not reached, there is no code for what it captures.
\* The client also sets "mixed" itself.
MCCode ==
  "jcc" :> Function(<< 1, 1 >>,
    FALSE :> << Branching(Block("jcc", << 1 >>, 0, 1), 1),
                Branching(Block("jcc", << 2 >>, 1, 0), 2) >> @@
    TRUE  :> << Block("jcc", << 1, 2 >>, 1, 0) >>, "other") @@
  "call" :> Function(<< 1 >>,
    FALSE :> << Branching(Block("call", << 1 >>, 0, 2), 1),
                Calling(Block("call", << >>, 1, 0), "packed", "RV"),
                Calling(Block("call", << >>, 1, 0), "packed", "RV") >> @@
    TRUE  :> << Calling(Block("call", << 1 >>, 1, 0), "bad", "RV") >>, "other") @@
  "odd" :> [ Function(<< 2 >>,
    FALSE :> << Calling(Block("odd", << 1 >>, 1, 1), "mixed", "RV"),
                Calling(Block("odd", << >>, 0, 0), "packed", "RP") >> @@
    TRUE  :> << Block("odd", << 1 >>, 1, 0) >>, "other") EXCEPT !.supported = FALSE ] @@
  "packed" :> Function(<< 1 >>, Same(<< Block("packed", << 1 >>, 1, 0) >>), "VADDSD") @@
  "mixed"  :> Function(<< 1 >>, Same(<< Block("mixed", << 1 >>, 1, 0) >>), "other") @@
  "bad"    :> Function(<< 1 >>,
    Same(<< [Block("bad", << 1 >>, 0, 0) EXCEPT !.error = TRUE] >>), "other")
MCTargets == {"jcc", "call", "odd", "mixed"}

\* Two adjacent functions.
MCStart  == "jcc" :> 4 @@ "call" :> 6
MCExtent == "jcc" :> 2 @@ "call" :> 2

MCDecodingCapacities == { [decInstr |-> 1, decBB |-> 1] }
MCCaptureCapacities  == { [capInstr |-> 3, capBB |-> 2, code |-> 3] }
MCDefault ==
  [decInstr |-> 2, decBB |-> 2, capInstr |-> 6, capBB |-> 3, code |-> 3]
=============================================================================
