---------------------------- MODULE CaptureTrace ----------------------------
(***************************************************************************)
(* What captured blocks are: the residual of the original program.  The    *)
(* reference is the run of the emulator from a code point, without tables, *)
(* stacks or an engine; it goes on until control depends on unknown data,  *)
(* the function returns, or an error occurs.                               *)
(***************************************************************************)
EXTENDS Capture

\* Where a run is, and what was captured on the way.
Place == [ pc : Addr, es : State, out : Seq(Instr) ]

FirstPlace(a, s) == [ pc |-> a, es |-> s, out |-> << >> ]

OutcomeAt(c, q) == Emulate(c, q.pc, q.es)

NextPlace(c, q) ==
  LET o == OutcomeAt(c, q)
  IN [ pc |-> o.next, es |-> o.es, out |-> q.out \o o.out ]

\* The run of program c from address a in state s, as a sequence of places.  It
\* is as long as it has to be: it ends where emulation does not go on, where it
\* is back at an earlier place, or when it has captured more than can be.
CONSTANT Run(_, _, _)

IsRun(c, a, s, r) ==
  /\ r \in Seq(Place) /\ Len(r) > 0
  /\ r[1] = FirstPlace(a, s)
  /\ \A k \in 1 .. (Len(r) - 1) :
       OutcomeAt(c, r[k]).kind = "step" /\ r[k + 1] = NextPlace(c, r[k])
  /\ OutcomeAt(c, r[Len(r)]).kind = "step" =>
       \/ \E k \in 1 .. Len(r) : NextPlace(c, r[Len(r)]) = r[k]
       \/ Len(NextPlace(c, r[Len(r)]).out) > capInstrCapacity

ASSUME RunAssumption ==
  \A c \in Code, a \in Addr, s \in State : IsRun(c, a, s, Run(c, a, s))

----------------------------------------------------------------------------
\* The captured instructions of block b.
Body(b) == SubSeq(capInstr, b.instr, b.instr + b.count - 1)

\* The hint is captured into the first block only.
HintsOf(i) == IF i = 1 THEN Hints ELSE << >>

RunOf(b) == Run(code, b.dec_addr, savedState[b.esID])

\* A state is restored as it was, or as one that is as good.
Restores(s, t) == s = t \/ \E p \in BOOLEAN : EsIsEqual(t, s, p)

\* Every block that was ended is the residual of its code point: it holds the
\* instructions captured along the run from its address in its saved state,
\* and continues where the run continues, in the state the run reached.
\* emulateAndCapture, captureJcc, captureRet.
Residual ==
  Sound =>
    \A i \in 1 .. Len(capBB) :
      LET b == capBB[i]
          r == RunOf(b)
          q == r[Len(r)]
          o == OutcomeAt(code, q)
      IN b.endType # None =>
           /\ o.kind \in {"jcc", "ret"}
           /\ b.endType = Ret <=> o.kind = "ret"
           /\ Body(b) = HintsOf(i) \o q.out \o o.out
                          \o (IF o.kind = "ret" THEN o.fin ELSE << >>)
           /\ o.kind = "jcc" =>
                /\ b.endType = o.it
                /\ capBB[b.nextBranch].dec_addr = o.target
                /\ capBB[b.nextFallThrough].dec_addr = o.fall
                /\ Restores(savedState[capBB[b.nextBranch].esID], o.es)
=============================================================================
