----------------------------- MODULE MCCapture -----------------------------
(***************************************************************************)
(* Model checking of Capture for ALL programs of Size instructions.  The   *)
(* emulator state is one known value; an instruction changes, keeps or     *)
(* tests it, is captured, jumps, returns, or is not supported.             *)
(***************************************************************************)
EXTENDS CaptureTrace, FiniteSets

CONSTANTS Size, Top

MCAddr  == 1 .. Size
Values  == 1 .. Top
MCInstr == (MCAddr \X Values) \cup { <<"HINT_CALL">> }
MCHints == << <<"HINT_CALL">> >>

\* The fall-through is the next address; behind the last one comes the first.
FallOf(a) == (a % Size) + 1

Operations ==
  [op : {"jcc", "jknown"}, arg : MCAddr] \cup
  [op : {"inc", "capture", "ret", "invalid"}, arg : {0}]

\* Bound: programs start with an instruction that does something; a known jump
\* in front, or returning or failing at once, shows nothing more.
MCCode ==
  { c \in [MCAddr -> Operations] : c[1].op \in {"inc", "capture", "jcc"} }

\* Emulating the instruction at address a in state s.  "jknown" is a jump
\* whose condition is known; "capture" depends on unknown data.
MCEmulate(c, a, s) ==
  LET i    == c[a]
      step == [kind |-> "step", es |-> s, next |-> FallOf(a), it |-> "IT_JZ",
               target |-> a, fall |-> FallOf(a), out |-> << >>, fin |-> << >>]
  IN CASE i.op = "inc"     -> [step EXCEPT !.es = (s % Top) + 1]
       [] i.op = "jknown"  -> [step EXCEPT !.next = IF s = 1 THEN i.arg ELSE @]
       [] i.op = "capture" -> [step EXCEPT !.out = << <<a, s>> >>]
       [] i.op = "jcc"     -> [step EXCEPT !.kind = "jcc", !.target = i.arg]
       [] i.op = "ret"     -> [step EXCEPT !.kind = "ret", !.fin = << <<a, s>> >>]
       [] OTHER            -> [step EXCEPT !.kind = "error"]

\* As the stack pointer is stack-relative, states with different parents are
\* never equal.
MCEsIsEqual(s, t, sameParent) == sameParent /\ s = t

----------------------------------------------------------------------------
(***************************************************************************)
(* The run of the emulator, by recursion from the places passed so far.    *)
(***************************************************************************)
RECURSIVE Continue(_, _)
Continue(c, r) ==
  LET last == r[Len(r)]
      next == NextPlace(c, last)
  IN IF \/ OutcomeAt(c, last).kind # "step"
        \/ \E k \in 1 .. Len(r) : next = r[k]
        \/ Len(next.out) > capInstrCapacity
     THEN r ELSE Continue(c, Append(r, next))

MCRun(c, a, s) == Continue(c, << FirstPlace(a, s) >>)

(***************************************************************************)
(* Termination.  The engine follows known jumps as often as the program    *)
(* does: a loop that captures nothing and tests nothing unknown is the one *)
(* reason never to return.                                                 *)
(***************************************************************************)
RECURSIVE SilentFor(_, _, _, _)
SilentFor(c, a, s, n) ==
  LET o == Emulate(c, a, s)
  IN n = 0 \/ ( /\ o.kind = "step" /\ o.out = << >>
               /\ SilentFor(c, o.next, o.es, n - 1) )

InSilentLoop ==
  Emulating /\ SilentFor(code, pc, es, Size * Cardinality(State))

\* Capturing returns, with a result or an error, unless the trace it follows
\* enters a loop that runs forever on known data alone.
Terminates == <>(InSilentLoop \/ status \notin {"called", "running"})
=============================================================================
