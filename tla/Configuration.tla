---------------------------- MODULE Configuration ----------------------------
(***************************************************************************)
(* What a client configures for a rewriting, config.c: properties of       *)
(* parameters, and named ranges of memory, which may be functions.         *)
(***************************************************************************)
EXTENDS Integers, Sequences, SequencesExt

CONSTANTS
  Start,      \* function -> its address
  Extent,     \* function -> its length
  MaxRanges   \* bound on the ranges that are configured

ASSUME ConfigurationAssumption ==
  /\ DOMAIN Extent = DOMAIN Start
  /\ \A f \in DOMAIN Start : Start[f] \in Nat /\ Extent[f] \in Nat \ {0}
  /\ \A f, g \in DOMAIN Start :
       f # g => Start[f] + Extent[f] <= Start[g] \/ Start[g] + Extent[g] <= Start[f]
  /\ MaxRanges \in Nat

\* A new configuration.  "asked" has the length that the client gave for a
\* function, 0 if it gave a name only, -1 for none (it is not in the code).
cc_new == [ parCount |-> -1, static |-> FALSE, ranges |-> << >>,
            asked |-> [f \in DOMAIN Start |-> -1] ]
NoConfig == [ cc_new EXCEPT !.parCount = -2 ]   \* r->cc = 0
cc_get(cc) == IF cc = NoConfig THEN cc_new ELSE cc

\* Mutant: a range includes the address behind it.
CoversEnd(m, addr) == addr = m.start \/ (addr > m.start /\ addr <= m.start + m.size)

\* On an exact match the size does not matter.
Covers(m, addr) == addr = m.start \/ (addr > m.start /\ addr < m.start + m.size)

\* mrc_find of a function: the position of the newest range that fits, 0 if none.
mrc_find(cc, addr) ==
  SelectInSeq(cc.ranges, LAMBDA m : m.type = "MR_Function" /\ Covers(m, addr))

mrc_new(cc, type, start, size) ==
  [cc EXCEPT !.ranges = << [ type |-> type, start |-> start, size |-> size ] >> \o @]

\* The range of a function is made when it is configured first.
fc_get(cc, f) ==
  IF mrc_find(cc, Start[f]) = 0 THEN mrc_new(cc, "MR_Function", Start[f], 0) ELSE cc

function_setname(cc, f) ==
  [fc_get(cc, f) EXCEPT !.asked[f] = IF @ = -1 THEN 0 ELSE @]

function_setsize(cc, f) ==
  LET d == fc_get(cc, f)
  IN [d EXCEPT !.ranges[mrc_find(d, Start[f])].size = Extent[f], !.asked[f] = Extent[f]]

\* A range of data, which may overlap functions.
set_memrange(cc, f) == mrc_new(cc, "MR_ConstantData", Start[f], Extent[f])

----------------------------------------------------------------------------
\* Functions are found by what the client configured of them: at an address in
\* a function of known length, or where a named one starts, its own range is
\* found with the length given for it, elsewhere none.  Ranges of adjacent
\* functions, and data, do not interfere.
\* mrc_find, fc_get, dbrew_config_function_setsize.
FoundAsAsked(cc) ==
  \A f \in DOMAIN Start : \A addr \in Start[f] .. (Start[f] + Extent[f] - 1) :
    LET k == mrc_find(cc, addr)
    IN IF cc.asked[f] > addr - Start[f] \/ (cc.asked[f] = 0 /\ addr = Start[f])
       THEN k # 0 /\ cc.ranges[k].start = Start[f] /\ cc.ranges[k].size = cc.asked[f]
       ELSE k = 0
=============================================================================
