-------------------------- MODULE PathExploration --------------------------
(***************************************************************************)
(* What capturing promises, without traces, tables and stacks: code points *)
(* (an address with an emulator state) are discovered from the entry and   *)
(* each is specialised exactly once.  Specialising a code point discovers  *)
(* at most the two continuations of its final conditional jump.  Once no   *)
(* discovered point is left, the specialised code is closed under jumps;   *)
(* giving up is possible at any time and leaves nothing behind.            *)
(***************************************************************************)
EXTENDS Integers, FiniteSets

CONSTANT Point  \* pairs of an address and the ID of an emulator state

VARIABLES
  open,    \* discovered, not yet specialised
  closed,  \* specialised
  succ,    \* the continuations of each specialised point
  outcome  \* "none" until finished: then "complete" or "failed"

vars == << open, closed, succ, outcome >>

Init ==
  /\ open = {} /\ closed = {} /\ succ = << >>
  /\ outcome = "none"

Request ==
  /\ outcome = "none" /\ open = {} /\ closed = {}
  /\ \E p \in Point : open' = {p}
  /\ UNCHANGED << closed, succ, outcome >>

Specialise ==
  /\ outcome = "none"
  /\ \E p \in open :
       /\ closed' = closed \cup {p}
       /\ succ' \in [closed' -> SUBSET Point]
       /\ \A q \in closed : succ'[q] = succ[q]
       /\ Cardinality(succ'[p]) <= 2
       /\ open' = (open \cup succ'[p]) \ closed'
  /\ UNCHANGED outcome

Complete ==
  /\ outcome = "none" /\ open = {} /\ closed # {}
  /\ outcome' = "complete"
  /\ UNCHANGED << open, closed, succ >>

GiveUp ==
  /\ outcome = "none"
  /\ outcome' = "failed"
  /\ open' = {} /\ closed' = {} /\ succ' = << >>

Next == Request \/ Specialise \/ Complete \/ GiveUp

Spec == Init /\ [][Next]_vars

----------------------------------------------------------------------------
\* A complete result contains every continuation of every point in it.
Closed ==
  outcome = "complete" => \A p \in closed : succ[p] \subseteq closed
=============================================================================
