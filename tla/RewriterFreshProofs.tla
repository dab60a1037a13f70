------------------------ MODULE RewriterFreshProofs ------------------------
(***************************************************************************)
(* A fresh start: proofs for all functions, capacities and calls of the    *)
(* API, that rewritings whose needs fit succeed.                           *)
(***************************************************************************)
EXTENDS RewriterProofs, FiniteSetTheorems

----------------------------------------------------------------------------
(***************************************************************************)
(* Sums over sets of blocks                                                *)
(***************************************************************************)

\* A sum for every subset of blocks S.
SumsOf(h, S) ==
  /\ h \in [SUBSET S -> Nat] /\ h[{}] = 0
  /\ \A s \in SUBSET S : \A b \in S \ s : h[s \cup {b}] = h[s] + Length(b)
  /\ \A s \in SUBSET S : h[s] <= h[S]

\* Among subsets of a finite set one is minimal.
LEMMA MinimalSubset ==
  ASSUME NEW S, IsFiniteSet(S), NEW B \in SUBSET (SUBSET S), B # {}
  PROVE  \E s \in B : \A t \in SUBSET s : t # s => t \notin B
<1> DEFINE Sizes == { Cardinality(s) : s \in B }
<1>1. \A s \in SUBSET S : IsFiniteSet(s) /\ Cardinality(s) \in Nat
  BY FS_Subset, FS_CardinalityType
<1>2. Sizes \subseteq Nat /\ Sizes # {}
  BY <1>1
<1>3. PICK n \in Sizes : \A m \in Sizes : n <= m
  <2> HIDE DEF Sizes
  <2> QED
    BY <1>2, LeastNatural
<1>4. PICK s \in B : Cardinality(s) = n
  BY <1>3
<1>5. ASSUME NEW t \in SUBSET s, t # s, t \in B
      PROVE  FALSE
  <2>1. IsFiniteSet(s) /\ Cardinality(t) <= Cardinality(s) /\ Cardinality(s) # Cardinality(t)
    BY <1>1, <1>5, FS_Subset
  <2>2. Cardinality(s) <= Cardinality(t)
    BY <1>3, <1>4, <1>5
  <2> QED
    BY <1>1, <1>5, <2>1, <2>2
<1> QED
  BY <1>5

\* Adding up the elements of a set in the order in which CHOOSE takes them is a sum.
Chosen(s) == CHOOSE b \in s : TRUE
AddedUp(h, T) ==
  h = [s \in T |-> IF s = {} THEN 0 ELSE h[s \ {Chosen(s)}] + Length(Chosen(s))]

LEMMA AddedUpExists ==
  ASSUME NEW S, IsFiniteSet(S)
  PROVE  \E h : AddedUp(h, SUBSET S)
<1> DEFINE Small(n) == { s \in SUBSET S : Cardinality(s) <= n }
           Bad == { n \in Nat : ~\E h : AddedUp(h, Small(n)) }
<1>1. \A s \in SUBSET S : IsFiniteSet(s) /\ Cardinality(s) \in Nat
  BY FS_Subset, FS_CardinalityType
<1>2. Bad = {}
  <2> SUFFICES ASSUME Bad # {}
               PROVE  FALSE
    OBVIOUS
  <2>1. PICK n \in Bad : \A m \in Bad : n <= m
    <3>1. Bad \subseteq Nat /\ Bad # {}
      OBVIOUS
    <3> HIDE DEF Bad
    <3> QED
      BY <3>1, LeastNatural
  <2>2. n # 0
    <3>1. \A s \in Small(0) : s = {}
      <4>1. \A s \in SUBSET S : Cardinality(s) <= 0 => Cardinality(s) = 0
        BY <1>1
      <4> QED
        BY <1>1, <4>1, FS_EmptySet
    <3> DEFINE h == [s \in Small(0) |-> 0]
    <3>2. AddedUp(h, Small(0))
      BY <3>1 DEF AddedUp
    <3> QED
      BY <2>1, <3>2
  <2>3. PICK h : AddedUp(h, Small(n - 1))
    <3>1. n - 1 \in Nat /\ ~(n <= n - 1)
      BY <2>2
    <3>2. n - 1 \notin Bad
      BY <2>1, <3>1
    <3> QED
      BY <3>1, <3>2
  <2> DEFINE Step(f, s) == IF s = {} THEN 0 ELSE f[s \ {Chosen(s)}] + Length(Chosen(s))
             g == [s \in Small(n) |-> Step(h, s)]
  <2>4. \A s \in Small(n - 1) : s \in Small(n) /\ h[s] = Step(h, s)
    <3>1. h = [s \in Small(n - 1) |-> Step(h, s)]
      BY <2>3 DEF AddedUp
    <3>2. \A s \in Small(n - 1) : s \in Small(n)
      <4>1. n \in Nat
        BY <2>1
      <4> QED
        BY <1>1, <4>1
    <3> HIDE DEF Small, Step
    <3> QED
      BY <3>1, <3>2
  <2>5. ASSUME NEW s \in Small(n)
        PROVE  g[s] = Step(g, s)
    <3>1. CASE s = {}
      BY <3>1
    <3>2. CASE s # {}
      <4> DEFINE t == s \ {Chosen(s)}
      <4>1. Chosen(s) \in s
        BY <3>2 DEF Chosen
      <4>2. t \in Small(n - 1)
        <5>1. t \in SUBSET S /\ Cardinality(t) = Cardinality(s) - 1
          BY <1>1, <4>1, FS_RemoveElement
        <5> QED
          BY <1>1, <5>1
      <4>3. g[t] = h[t]
        <5> HIDE DEF Small, t
        <5>1. g[t] = Step(h, t) /\ h[t] = Step(h, t)
          BY <2>4, <4>2
        <5> QED
          BY <5>1
      <4> QED
        BY <3>2, <4>3
    <3> QED
      BY <3>1, <3>2
  <2>6. AddedUp(g, Small(n))
    <3> HIDE DEF Small, Step
    <3>1. g = [s \in Small(n) |-> Step(g, s)]
      BY <2>5
    <3> QED
      BY <3>1 DEF AddedUp, Step
  <2> QED
    BY <2>1, <2>6
<1> DEFINE N == Cardinality(S)
<1>3. N \in Nat /\ Small(N) = SUBSET S
  BY FS_CardinalityType, FS_Subset
<1>4. N \notin Bad
  <2> HIDE DEF Bad
  <2> QED
    BY <1>2
<1> QED
  BY <1>3, <1>4

\* In whatever order its elements are added up, the sum is the same, and no subset
\* has a greater one.
LEMMA SetSums ==
  ASSUME NEW S, IsFiniteSet(S), \A b \in S : Length(b) \in Nat
  PROVE  \E h : SumsOf(h, S) /\ h[S] = FoldSet(LAMBDA b, n : n + Length(b), 0, S)
<1> DEFINE Equation(f) ==
             f = [s \in SUBSET S |->
                    IF s = {} THEN 0
                    ELSE f[s \ {CHOOSE b \in s : TRUE}] + Length(CHOOSE b \in s : TRUE)]
           h == CHOOSE f : Equation(f)
<1>1. h[S] = FoldSet(LAMBDA b, n : n + Length(b), 0, S)
  BY DEF FoldSet, MapThenFoldSet
<1>2. AddedUp(h, SUBSET S)
  <2>1. \A f : Equation(f) <=> AddedUp(f, SUBSET S)
    BY DEF AddedUp, Chosen
  <2>2. \E f : Equation(f)
    <3>1. \E f : AddedUp(f, SUBSET S)
      BY AddedUpExists
    <3> HIDE DEF Equation
    <3> QED
      BY <2>1, <3>1
  <2>3. Equation(h)
    <3> HIDE DEF Equation
    <3> QED
      BY <2>2
  <2> HIDE DEF Equation, h
  <2> QED
    BY <2>1, <2>3
<1> HIDE DEF h
<1>3. h[{}] = 0 /\ h = [s \in SUBSET S |-> h[s]]
  BY <1>2 DEF AddedUp
<1>4. ASSUME NEW s \in SUBSET S, s # {}
      PROVE  /\ Chosen(s) \in s /\ s \ {Chosen(s)} \in SUBSET S /\ s \ {Chosen(s)} # s
             /\ h[s] = h[s \ {Chosen(s)}] + Length(Chosen(s))
  <2>1. Chosen(s) \in s
    BY <1>4 DEF Chosen
  <2> QED
    BY <1>2, <1>4, <2>1 DEF AddedUp
<1>5. \A s \in SUBSET S : h[s] \in Nat
  <2> DEFINE Bad == { s \in SUBSET S : h[s] \notin Nat }
  <2> SUFFICES ASSUME Bad # {}
               PROVE  FALSE
    OBVIOUS
  <2>1. PICK s \in Bad : \A t \in SUBSET s : t # s => t \notin Bad
    <3>1. Bad \in SUBSET (SUBSET S)
      OBVIOUS
    <3> HIDE DEF Bad
    <3> QED
      BY <3>1, MinimalSubset
  <2>2. s # {}
    <3>1. h[s] \notin Nat /\ h[{}] = 0
      BY <1>3
    <3> QED
      BY <3>1
  <2> DEFINE t == s \ {Chosen(s)}
  <2>3. t \in SUBSET S /\ t \in SUBSET s /\ t # s /\ h[s] = h[t] + Length(Chosen(s))
        /\ Chosen(s) \in S
    BY <1>4, <2>2
  <2> HIDE DEF t
  <2>4. h[t] \in Nat
    BY <2>1, <2>3
  <2> QED
    BY <2>3, <2>4
<1>6. \A s \in SUBSET S : \A b \in s : h[s] = h[s \ {b}] + Length(b)
  <2> DEFINE Bad == { s \in SUBSET S : \E b \in s : h[s] # h[s \ {b}] + Length(b) }
  <2> SUFFICES ASSUME Bad # {}
               PROVE  FALSE
    OBVIOUS
  <2>1. PICK s \in Bad : \A t \in SUBSET s : t # s => t \notin Bad
    <3>1. Bad \in SUBSET (SUBSET S)
      OBVIOUS
    <3> HIDE DEF Bad
    <3> QED
      BY <3>1, MinimalSubset
  <2>2. PICK b \in s : h[s] # h[s \ {b}] + Length(b)
    OBVIOUS
  <2> DEFINE c == Chosen(s)
  <2>3. c \in s /\ h[s] = h[s \ {c}] + Length(c) /\ b \in S /\ c \in S
    BY <1>4, <2>2
  <2> HIDE DEF c
  <2>4. c # b
    BY <2>2, <2>3
  <2> DEFINE u == (s \ {c}) \ {b}
  <2>5. h[s \ {c}] = h[u] + Length(b)
    <3>1. s \ {c} \notin Bad /\ s \ {c} \in SUBSET S /\ b \in s \ {c}
      BY <2>1, <2>3, <2>4
    <3> HIDE DEF u
    <3> QED
      BY <3>1 DEF u
  <2>6. h[s \ {b}] = h[u] + Length(c)
    <3>1. s \ {b} \notin Bad /\ s \ {b} \in SUBSET S /\ c \in s \ {b}
      BY <2>1, <2>2, <2>3, <2>4
    <3>2. (s \ {b}) \ {c} = u
      OBVIOUS
    <3> HIDE DEF u
    <3> QED
      BY <3>1, <3>2
  <2>7. h[u] \in Nat /\ Length(b) \in Nat /\ Length(c) \in Nat
    BY <1>5, <2>3
  <2> HIDE DEF u
  <2> QED
    BY <2>2, <2>3, <2>5, <2>6, <2>7
<1>7. ASSUME NEW s \in SUBSET S, NEW b \in S \ s
      PROVE  h[s \cup {b}] = h[s] + Length(b)
  <2>1. s \cup {b} \in SUBSET S /\ b \in s \cup {b} /\ (s \cup {b}) \ {b} = s
    OBVIOUS
  <2> QED
    BY <1>6, <2>1
<1>8. \A s \in SUBSET S : h[s] <= h[S]
  <2> DEFINE Bad == { u \in SUBSET S : ~(h[S \ u] <= h[S]) }
  <2>1. Bad = {}
    <3> SUFFICES ASSUME Bad # {}
                 PROVE  FALSE
      OBVIOUS
    <3>1. PICK u \in Bad : \A t \in SUBSET u : t # u => t \notin Bad
      <4>1. Bad \in SUBSET (SUBSET S)
        OBVIOUS
      <4> HIDE DEF Bad
      <4> QED
        BY <4>1, MinimalSubset
    <3>2. u # {}
      <4> SUFFICES ASSUME u = {}
                   PROVE  FALSE
        OBVIOUS
      <4>1. S \ u = S
        OBVIOUS
      <4>2. h[S \ u] <= h[S]
        BY <1>5, <4>1
      <4> QED
        BY <4>2
    <3>3. PICK b \in u : TRUE
      BY <3>2
    <3> DEFINE s == S \ u
               t == u \ {b}
    <3>4. s \in SUBSET S /\ b \in S \ s /\ S \ t = s \cup {b} /\ t \in SUBSET S
          /\ t \in SUBSET u /\ t # u
      OBVIOUS
    <3>5. h[S \ t] <= h[S]
      BY <3>1, <3>4
    <3>6. h[S \ t] = h[s] + Length(b)
      BY <1>7, <3>4
    <3>7. h[s] \in Nat /\ h[S] \in Nat /\ Length(b) \in Nat
      BY <1>5, <3>4
    <3>8. h[s] <= h[S]
      BY <3>5, <3>6, <3>7
    <3> QED
      BY <3>8
  <2> TAKE s \in SUBSET S
  <2>2. S \ s \in SUBSET S /\ S \ s \notin Bad /\ S \ (S \ s) = s
    BY <2>1
  <2> QED
    BY <2>2
<1>9. h \in [SUBSET S -> Nat]
  BY <1>3, <1>5
<1>10. SumsOf(h, S)
  BY <1>3, <1>7, <1>8, <1>9 DEF SumsOf
<1> QED
  BY <1>1, <1>10

----------------------------------------------------------------------------
(***************************************************************************)
(* What rewriting a function needs                                         *)
(***************************************************************************)

\* Partial sums do not shrink: shown for the last one that is greater than the sum.
LEMMA SumsGrow ==
  ASSUME NEW N \in Nat, NEW p \in [0 .. N -> Nat], \A k \in 1 .. N : p[k - 1] <= p[k]
  PROVE  \A k \in 0 .. N : p[k] <= p[N]
<1> DEFINE Bad == { n \in 0 .. N : ~(p[N - n] <= p[N]) }
<1>1. Bad = {}
  <2> SUFFICES ASSUME Bad # {}
               PROVE  FALSE
    OBVIOUS
  <2>1. PICK n \in Bad : \A m \in Bad : n <= m
    <3>1. Bad \subseteq Nat
      OBVIOUS
    <3> HIDE DEF Bad
    <3> QED
      BY <3>1, LeastNatural
  <2>2. n \in 0 .. N /\ ~(p[N - n] <= p[N])
    OBVIOUS
  <2>3. n # 0
    BY <2>2
  <2>4. n - 1 \in 0 .. N /\ n - 1 \notin Bad
    <3>1. n - 1 \in 0 .. N /\ ~(n <= n - 1)
      BY <2>2, <2>3
    <3>2. n - 1 \notin Bad
      <4> HIDE DEF Bad
      <4> QED
        BY <2>1, <3>1
    <3> QED
      BY <3>1, <3>2
  <2>5. p[N - (n - 1)] <= p[N]
    BY <2>4
  <2> DEFINE k == N - (n - 1)
  <2>6. k \in 1 .. N /\ k - 1 = N - n
    BY <2>2, <2>3
  <2>7. p[k - 1] <= p[k] /\ p[k] \in Nat /\ p[k - 1] \in Nat /\ p[N] \in Nat
    BY <2>6
  <2> QED
    BY <2>2, <2>5, <2>6, <2>7
<1> TAKE k \in 0 .. N
<1>2. N - k \in 0 .. N /\ N - k \notin Bad /\ N - (N - k) = k
  <2>1. N - k \in 0 .. N /\ N - (N - k) = k
    OBVIOUS
  <2> HIDE DEF Bad
  <2> QED
    BY <1>1, <2>1
<1>3. p[N - (N - k)] <= p[N]
  <2> DEFINE j == N - k
  <2>1. j \in 0 .. N /\ j \notin Bad
    BY <1>2
  <2> HIDE DEF j
  <2>2. p[N - j] <= p[N]
    BY <2>1
  <2> QED
    BY <2>2 DEF j
<1> QED
  BY <1>2, <1>3

\* No part of a trace asks for more, or captures more, than all of it.
LEMMA TraceGrows ==
  ASSUME NEW trace \in Seq(TraceBlocks)
  PROVE  \A k \in 0 .. Len(trace) :
           /\ AskedFor(trace)[k] <= AskedFor(trace)[Len(trace)]
           /\ OutUpTo(trace)[k] <= OutUpTo(trace)[Len(trace)]
<1> DEFINE N == Len(trace)
           a == AskedFor(trace)
           o == OutUpTo(trace)
<1>1. N \in Nat /\ a \in [0 .. N -> Nat] /\ o \in [0 .. N -> Nat]
  BY AskedFacts, OutFacts
<1>2. ASSUME NEW k \in 1 .. N
      PROVE  a[k - 1] <= a[k] /\ o[k - 1] <= o[k]
  <2>1. trace[k].new \in Nat /\ trace[k].out \in Nat
    <3>1. trace[k] \in TraceBlocks
      OBVIOUS
    <3> QED
      BY <3>1, BlockTypes
  <2>2. a[k] = a[k - 1] + trace[k].new /\ o[k] = o[k - 1] + trace[k].out
    BY AskedFacts, OutFacts
  <2>3. a[k - 1] \in Nat /\ o[k - 1] \in Nat
    <3>1. k - 1 \in 0 .. N
      BY <1>1
    <3> HIDE DEF a, o, N
    <3> QED
      BY <1>1, <3>1
  <2> HIDE DEF a, o, N
  <2> QED
    BY <2>1, <2>2, <2>3
<1> HIDE DEF a, o, N
<1>3. \A k \in 0 .. N : a[k] <= a[N] /\ o[k] <= o[N]
  BY <1>1, <1>2, SumsGrow
<1> QED
  BY <1>3 DEF a, o, N

\* The entries of a sequence are finitely many.
LEMMA EntriesFinite ==
  ASSUME NEW n \in Nat, NEW s, s = [k \in 1 .. n |-> s[k]]
  PROVE  IsFiniteSet(Range(s)) /\ Range(s) = { s[k] : k \in 1 .. n }
<1>1. Range(s) = { s[k] : k \in 1 .. n }
  BY DEF Range
<1>2. s \in Surjection(1 .. n, Range(s))
  BY <1>1 DEF Surjection
<1>3. IsFiniteSet(1 .. n)
  BY FS_Interval
<1> QED
  BY <1>1, <1>2, <1>3, FS_Surjection

\* The blocks emulated for a trace.
BlocksOf(trace) == UNION { Range(t.dec) : t \in Range(trace) }

\* They are finitely many, and those of each block of the trace are among them.
LEMMA BlocksFinite ==
  ASSUME NEW trace \in Seq(TraceBlocks)
  PROVE  /\ IsFiniteSet(BlocksOf(trace))
         /\ \A k \in 1 .. Len(trace) : \A i \in 1 .. Len(trace[k].dec) :
              trace[k].dec[i] \in BlocksOf(trace)
         /\ \A b \in BlocksOf(trace) : \E k \in 1 .. Len(trace) :
              \E i \in 1 .. Len(trace[k].dec) : b = trace[k].dec[i]
<1> DEFINE N == Len(trace)
           sets == [k \in 1 .. N |-> Range(trace[k].dec)]
<1>1. N \in Nat /\ trace = [k \in 1 .. N |-> trace[k]]
  OBVIOUS
<1>2. ASSUME NEW k \in 1 .. N
      PROVE  /\ IsFiniteSet(Range(trace[k].dec))
             /\ Range(trace[k].dec) = { trace[k].dec[i] : i \in 1 .. Len(trace[k].dec) }
  <2> DEFINE s == trace[k].dec
  <2>1. s \in Seq(Functions \X Nat)
    <3>1. trace[k] \in TraceBlocks
      OBVIOUS
    <3> QED
      BY <3>1, BlockTypes
  <2> HIDE DEF s
  <2>2. Len(s) \in Nat /\ s = [i \in 1 .. Len(s) |-> s[i]]
    BY <2>1
  <2>3. IsFiniteSet(Range(s)) /\ Range(s) = { s[i] : i \in 1 .. Len(s) }
    BY <2>2, EntriesFinite
  <2> QED
    BY <2>3 DEF s
<1>3. Range(trace) = { trace[k] : k \in 1 .. N }
  <2> HIDE DEF N
  <2> QED
    BY <1>1, EntriesFinite
<1>4. { Range(t.dec) : t \in Range(trace) } = { sets[k] : k \in 1 .. N }
  BY <1>3
<1>5. IsFiniteSet({ sets[k] : k \in 1 .. N })
  <2>1. sets = [k \in 1 .. N |-> sets[k]]
    OBVIOUS
  <2> HIDE DEF sets, N
  <2> QED
    BY <1>1, <2>1, EntriesFinite
<1>6. \A T \in { sets[k] : k \in 1 .. N } : IsFiniteSet(T)
  BY <1>2
<1>7. BlocksOf(trace) = UNION { sets[k] : k \in 1 .. N }
  BY <1>4 DEF BlocksOf
<1>8. IsFiniteSet(BlocksOf(trace))
  <2> HIDE DEF sets, N
  <2> QED
    BY <1>5, <1>6, <1>7, FS_UNION
<1>9. \A b : b \in BlocksOf(trace) <=> \E k \in 1 .. N : b \in Range(trace[k].dec)
  BY <1>7
<1>10. \A b : b \in BlocksOf(trace) <=>
         \E k \in 1 .. N : \E i \in 1 .. Len(trace[k].dec) : b = trace[k].dec[i]
  <2>1. ASSUME NEW b, NEW k \in 1 .. N
        PROVE  b \in Range(trace[k].dec) <=>
                 \E i \in 1 .. Len(trace[k].dec) : b = trace[k].dec[i]
    <3>1. Range(trace[k].dec) = { trace[k].dec[i] : i \in 1 .. Len(trace[k].dec) }
      BY <1>2
    <3> QED
      BY <3>1
  <2> TAKE b
  <2> DEFINE In(k)   == b \in Range(trace[k].dec)
             Among(k) == \E i \in 1 .. Len(trace[k].dec) : b = trace[k].dec[i]
  <2>2. \A k \in 1 .. N : In(k) <=> Among(k)
    BY <2>1
  <2>3. b \in BlocksOf(trace) <=> \E k \in 1 .. N : In(k)
    BY <1>9
  <2>4. b \in BlocksOf(trace) <=> \E k \in 1 .. N : Among(k)
    <3> HIDE DEF In, Among, N
    <3> QED
      BY <2>2, <2>3
  <2> QED
    BY <2>4
<1> QED
  BY <1>8, <1>10

\* Rewriting x can succeed, if its tables have been set up.
Fitting(x) ==
  /\ Code[x.func].supported
  /\ \A t \in Range(Trace(x)) : ~t.error /\ t.kernel = NoKernel
  /\ \A c \in Capacities : Needs(x)[c] <= x.capacity[c]
  /\ Len(Trace(x)) <= GENORDER_MAX

\* Then the tables have room for the whole trace: for its instructions and their
\* copies, and for its blocks.
LEMMA FittingFacts ==
  ASSUME NEW x \in Rewriters, x.func \in Functions, Fitting(x)
  PROVE  LET N == Len(Trace(x))
             o == OutUpTo(Trace(x))
             a == AskedFor(Trace(x))
         IN /\ N \in Nat \ {0} /\ N <= GENORDER_MAX
            /\ o \in [0 .. N -> Nat] /\ o[0] = 0 /\ \A k \in 0 .. N : o[k] <= o[N]
            /\ \A k \in 1 .. N : /\ o[k] = o[k - 1] + Trace(x)[k].out
                                 /\ Trace(x)[k].out \in Nat /\ ~Trace(x)[k].error
                                 /\ Trace(x)[k].kernel = NoKernel
            /\ 2 * (o[N] + Hints(x)) <= x.capacity["capInstr"]
            /\ o[N] <= x.capacity["code"]
            /\ \A k \in 1 .. N : /\ a[k] = a[k - 1] + Trace(x)[k].new
                                 /\ a[k] <= x.capacity["capBB"]
            /\ a[N] = N
<1> DEFINE trace == Trace(x)
           N == Len(trace)
           o == OutUpTo(trace)
           a == AskedFor(trace)
<1>1. trace \in Seq(TraceBlocks) /\ N \in Nat \ {0}
  BY TraceFacts
<1>2. \A k \in 1 .. N : trace[k] \in TraceBlocks /\ trace[k] \in Range(trace)
  <2> HIDE DEF trace
  <2> QED
    BY <1>1 DEF Range
<1>3. \A t \in Range(trace) : ~t.error /\ t.kernel = NoKernel
  BY DEF Fitting
<1>4. \A k \in 1 .. N : trace[k].out \in Nat /\ ~trace[k].error /\ trace[k].kernel = NoKernel
  BY <1>2, <1>3, BlockTypes
<1>5. /\ o \in [0 .. N -> Nat] /\ o[0] = 0 /\ \A k \in 0 .. N : o[k] <= o[N] /\ a[k] <= a[N]
      /\ a \in [0 .. N -> Nat]
      /\ \A k \in 1 .. N : o[k] = o[k - 1] + trace[k].out /\ a[k] = a[k - 1] + trace[k].new
  BY <1>1, AskedFacts, OutFacts, TraceGrows
<1>6. OutOf(x) = o[N]
  BY <1>1, FoldedOut DEF OutOf
<1>7. /\ 2 * (o[N] + Hints(x)) <= x.capacity["capInstr"]
      /\ o[N] <= x.capacity["code"] /\ N <= x.capacity["capBB"] /\ N <= GENORDER_MAX
  <2>1. \A c \in Capacities : Needs(x)[c] <= x.capacity[c]
    BY DEF Fitting
  <2>2. /\ Needs(x)["capInstr"] = 2 * (OutOf(x) + Hints(x))
        /\ Needs(x)["capBB"] = N /\ Needs(x)["code"] = OutOf(x)
    BY DEF Needs
  <2>3. N <= GENORDER_MAX
    BY DEF Fitting
  <2> HIDE DEF N, o
  <2> QED
    BY <1>6, <2>1, <2>2, <2>3 DEF Capacities
<1>8. a[N] = N
  <2>1. x.cc.static \in BOOLEAN
    BY DEF Rewriters, Configs
  <2> HIDE DEF N, a
  <2> QED
    BY <1>3, <2>1, CompleteAssumption DEF N, a, trace, Trace
<1>9. \A k \in 1 .. N : a[k] <= x.capacity["capBB"]
  <2>1. x.capacity["capBB"] \in Nat
    BY DEF Rewriters, Capacities
  <2>2. \A k \in 1 .. N : a[k] <= a[N] /\ a[k] \in Nat
    BY <1>5
  <2> HIDE DEF N, a
  <2> QED
    BY <1>1, <1>7, <1>8, <2>1, <2>2
<1> HIDE DEF N, o, a
<1> QED
  BY <1>1, <1>4, <1>5, <1>7, <1>8, <1>9 DEF N, o, a, trace

----------------------------------------------------------------------------
(***************************************************************************)
(* What the operations on a rewriter keep                                  *)
(***************************************************************************)

\* It is not fresh again, and stays one for the same vectors.
Steady(x, y) ==
  {"fresh", "vreq"} \subseteq DOMAIN y /\ (y.fresh => x.fresh) /\ y.vreq = x.vreq

LEMMA SteadyTwice ==
  ASSUME NEW x, NEW y, NEW z, Steady(x, y), Steady(y, z)
  PROVE  Steady(x, z)
BY DEF Steady

\* Operations on other fields.
LEMMA FieldsSteady ==
  ASSUME NEW x, {"fresh", "vreq"} \subseteq DOMAIN x
  PROVE  /\ Steady(x, x) /\ Steady(x, Dead(x)) /\ Steady(x, [x EXCEPT !.addr = "func"])
         /\ Steady(x, initRewriter(x))
         /\ \A i, j, k : /\ Steady(x, [x EXCEPT !.cc = i])
                         /\ Steady(x, [x EXCEPT !.next = i])
                         /\ Steady(x, [x EXCEPT !.vectorsize = i])
                         /\ Steady(x, [x EXCEPT !.capBBCount = i, !.capBB = j])
                         /\ Steady(x, [x EXCEPT !.decBB = i, !.decInstrCount = j])
                         /\ Steady(x, [x EXCEPT !.capInstrCount = i, !.capBB = j])
                         /\ Steady(x, [x EXCEPT !.capBB = i, !.capInstrCount = j, !.jccs = k])
                         /\ Steady(x, [x EXCEPT !.capBBCount = i, !.jccs = j, !.placed = k])
                         /\ Steady(x, [x EXCEPT !.genOrderCount = i, !.order = j, !.ordered = k])
                         /\ Steady(x, [x EXCEPT !.addr = i, !.passes = j])
<1>1. Steady(x, x) /\ Steady(x, Dead(x)) /\ Steady(x, [x EXCEPT !.addr = "func"])
  BY DEF Steady, Dead
<1>2. Steady(x, initRewriter(x))
  BY DEF Steady, initRewriter
<1>3. ASSUME NEW i, NEW j, NEW k
      PROVE  /\ Steady(x, [x EXCEPT !.cc = i]) /\ Steady(x, [x EXCEPT !.next = i])
             /\ Steady(x, [x EXCEPT !.vectorsize = i])
             /\ Steady(x, [x EXCEPT !.capBBCount = i, !.capBB = j])
             /\ Steady(x, [x EXCEPT !.decBB = i, !.decInstrCount = j])
             /\ Steady(x, [x EXCEPT !.capInstrCount = i, !.capBB = j])
             /\ Steady(x, [x EXCEPT !.capBB = i, !.capInstrCount = j, !.jccs = k])
             /\ Steady(x, [x EXCEPT !.capBBCount = i, !.jccs = j, !.placed = k])
             /\ Steady(x, [x EXCEPT !.genOrderCount = i, !.order = j, !.ordered = k])
             /\ Steady(x, [x EXCEPT !.addr = i, !.passes = j])
  BY DEF Steady
<1> QED
  BY <1>1, <1>2, <1>3

\* Decoding a block, and emulating it.
LEMMA EmulateSteady ==
  ASSUME NEW x, {"fresh", "vreq"} \subseteq DOMAIN x, NEW b
  PROVE  Steady(x, decode(x, b)) /\ Steady(x, emulateBlock(x, b))
<1> DEFINE u == IF x.dec THEN x ELSE initRewriter(x)
           cc == cc_get(u.cc)
           v == [u EXCEPT !.cc = cc]
           n == Least(Length(b), v.capacity["decInstr"] - v.decInstrCount)
           decBB == Append(v.decBB, [ block |-> b, count |-> n ])
           count == v.decInstrCount + n
           z == [v EXCEPT !.decBB = decBB, !.decInstrCount = count]
           y == decode(x, b)
<1>1. Steady(x, u)
  BY FieldsSteady
<1>2. Steady(u, v)
  <2> HIDE DEF u, cc
  <2> QED
    BY <1>1, FieldsSteady DEF Steady
<1>3. Steady(x, v)
  BY <1>1, <1>2, SteadyTwice
<1>4. y = v \/ y = Dead(v) \/ y = z
  BY DEF decode
<1> HIDE DEF u, v, n, decBB, count
<1>5. Steady(v, v) /\ Steady(v, Dead(v)) /\ Steady(v, z)
  BY <1>3, FieldsSteady DEF Steady
<1> HIDE DEF y, z
<1>6. Steady(x, y)
  BY <1>3, <1>4, <1>5, SteadyTwice
<1>7. Steady(y, y) /\ Steady(y, Dead(y))
  BY <1>6, FieldsSteady DEF Steady
<1>8. emulateBlock(x, b) = y \/ emulateBlock(x, b) = Dead(y)
  BY DEF emulateBlock, y
<1> QED
  BY <1>6, <1>7, <1>8, SteadyTwice DEF y

\* Capturing, from its start, the passes and generating.
LEMMA StagesSteady ==
  ASSUME NEW x, {"fresh", "vreq"} \subseteq DOMAIN x
  PROVE  /\ Steady(x, resetCapturing(x)) /\ Steady(x, vecPass(x))
         /\ \A t : Steady(x, captureBlock(x, t))
         /\ \A n : Steady(x, [getCaptureBBs(x, n) EXCEPT !.capBBCount = 0, !.capBB = << >>])
         /\ \A i : /\ Steady(x, optPass(x, i)) /\ Steady(x, generate(x, i))
                   /\ Steady(x, link(generate(x, i)))
                   /\ Steady(x, [intoOrder(x, i) EXCEPT !.code = NoCode])
         /\ \A kernel, variant : Steady(x, redirect(x, kernel, variant))
<1>1. Steady(x, resetCapturing(x))
  <2> DEFINE n == x.cc.parCount
             u == [x EXCEPT !.capBBCount = 0]
             z == getCaptureBBs(u, 1)
             y == [z EXCEPT !.es = TRUE, !.capBB = << >>, !.capInstrCount = Hints(x),
                            !.calls = {}, !.ePool = @ + n, !.fresh = FALSE]
  <2>1. Steady(x, u)
    BY DEF Steady
  <2>2. Steady(u, z)
    <3> HIDE DEF u
    <3> QED
      BY <2>1, FieldsSteady DEF getCaptureBBs, Steady
  <2>3. Steady(z, y)
    <3> HIDE DEF u, z, n
    <3> QED
      BY <2>2 DEF Steady
  <2>4. Steady(x, y)
    <3> HIDE DEF u, z, y
    <3> QED
      BY <2>1, <2>2, <2>3, SteadyTwice
  <2>5. resetCapturing(x) = y \/ resetCapturing(x) = Dead(x)
    BY DEF resetCapturing
  <2> HIDE DEF y
  <2> QED
    BY <2>4, <2>5, FieldsSteady
<1>2. \A i : Steady(x, optPassCopy(x, i))
  BY FieldsSteady DEF optPassCopy
<1>3. Steady(x, vecPass(x)) /\ \A i : Steady(x, optPass(x, i))
  BY <1>2, FieldsSteady DEF optPass, vecPass
<1>4. ASSUME NEW n
      PROVE  /\ Steady(x, getCaptureBBs(x, n)) /\ {"fresh", "vreq"} \subseteq DOMAIN getCaptureBBs(x, n)
             /\ Steady(x, [getCaptureBBs(x, n) EXCEPT !.capBBCount = 0, !.capBB = << >>])
  <2> DEFINE y == getCaptureBBs(x, n)
             z == [y EXCEPT !.capBBCount = 0, !.capBB = << >>]
  <2>1. Steady(x, y) /\ {"fresh", "vreq"} \subseteq DOMAIN y
    BY FieldsSteady DEF getCaptureBBs, Steady
  <2> HIDE DEF y
  <2>2. Steady(y, z)
    BY <2>1, FieldsSteady
  <2> HIDE DEF z
  <2>3. Steady(x, z)
    BY <2>1, <2>2, SteadyTwice
  <2> QED
    BY <2>1, <2>3 DEF y, z
<1>5. ASSUME NEW t
      PROVE  Steady(x, captureBlock(x, t))
  <2> DEFINE y == getCaptureBBs(x, t.new)
             s == Append(y.capBB, [ instr |-> IF y.capBB = << >> THEN 0 ELSE x.capInstrCount,
                                    count |-> IF y.capBB = << >> THEN t.out + Hints(x)
                                              ELSE t.out ])
             i == y.capInstrCount + t.out
             j == y.jccs \cup ({t.jcc} \ {0})
             z == [y EXCEPT !.capBB = s, !.capInstrCount = i, !.jccs = j]
  <2>1. Steady(x, y) /\ {"fresh", "vreq"} \subseteq DOMAIN y
    BY <1>4
  <2>2. captureBlock(x, t) = z
    BY DEF captureBlock
  <2> HIDE DEF y, s, i, j
  <2>3. Steady(y, z)
    BY <2>1, FieldsSteady
  <2> HIDE DEF z
  <2> QED
    BY <2>1, <2>2, <2>3, SteadyTwice
<1>6. ASSUME NEW i
      PROVE  /\ Steady(x, generate(x, i)) /\ Steady(x, link(generate(x, i)))
             /\ Steady(x, [intoOrder(x, i) EXCEPT !.code = NoCode])
  <2> DEFINE z == intoOrder(x, i)
             u == [z EXCEPT !.code = NoCode]
             y == generate(x, i)
             placed == y.placed \cup DOMAIN y.capBB
             stale == Stale(y) # {}
             passes == y.passes /\ y.genOrderCount < GENORDER_MAX
             l == [y EXCEPT !.placed = placed, !.code.stale = stale, !.addr = "code",
                            !.passes = passes]
  <2>1. Steady(x, z) /\ {"fresh", "vreq"} \subseteq DOMAIN z
    BY FieldsSteady DEF intoOrder, Steady
  <2>2. Steady(z, u)
    <3> HIDE DEF z
    <3> QED
      BY <2>1 DEF Steady
  <2>3. Steady(z, y)
    <3>1. \E code : y = [z EXCEPT !.code = code]
      BY DEF generate
    <3> HIDE DEF z, y
    <3> QED
      BY <2>1, <3>1 DEF Steady
  <2>4. link(y) = l
    BY DEF link
  <2> HIDE DEF y, z, u, placed, stale, passes
  <2>5. Steady(y, l)
    BY <2>3 DEF Steady
  <2> HIDE DEF l
  <2>6. Steady(x, y) /\ Steady(x, l) /\ Steady(x, u)
    BY <2>1, <2>2, <2>3, <2>5, SteadyTwice
  <2> QED
    BY <2>4, <2>6 DEF y, u, z
<1>7. ASSUME NEW kernel, NEW variant
      PROVE  Steady(x, redirect(x, kernel, variant))
  BY FieldsSteady DEF redirect, Steady
<1> QED
  BY <1>1, <1>3, <1>4, <1>5, <1>6, <1>7

\* Once capturing starts, the rewriter is no longer fresh.
LEMMA ResetFresh ==
  ASSUME NEW x, {"fresh", "dead"} \subseteq DOMAIN x
  PROVE  LET y == resetCapturing(x) IN y.fresh => y.dead
<1> DEFINE n == x.cc.parCount
           z == getCaptureBBs([x EXCEPT !.capBBCount = 0], 1)
           y == [z EXCEPT !.es = TRUE, !.capBB = << >>, !.capInstrCount = Hints(x),
                          !.calls = {}, !.ePool = @ + n, !.fresh = FALSE]
<1>1. resetCapturing(x) = y \/ resetCapturing(x) = Dead(x)
  BY DEF resetCapturing
<1>2. "fresh" \in DOMAIN z
  BY DEF getCaptureBBs
<1>3. ~y.fresh
  <2> HIDE DEF z
  <2> QED
    BY <1>2
<1>4. Dead(x).dead
  BY DEF Dead
<1> HIDE DEF y
<1> QED
  BY <1>1, <1>3, <1>4

----------------------------------------------------------------------------
(***************************************************************************)
(* Steps of the innermost rewriting, but for a new variant                 *)
(***************************************************************************)

\* The frame v of rewriting w, after a step of it.
Resumes(w, v) == v.r = w.r /\ v.promised = w.promised

\* The rewriting w goes on or ends.
Moves(w) ==
  \E y : Steady(rw[w.r], y) /\ ((\E v : Resumes(w, v) /\ Goes(v, y)) \/ Ends(w, y))

LEMMA FrameResumes ==
  ASSUME NEW w \in Frames
  PROVE  /\ Resumes(w, w)
         /\ \A p, k, n : /\ Resumes(w, [w EXCEPT !.phase = p, !.pos = k, !.emulated = n])
                         /\ Resumes(w, [w EXCEPT !.phase = p, !.pos = k])
                         /\ Resumes(w, [w EXCEPT !.phase = p])
                         /\ Resumes(w, [w EXCEPT !.pos = k])
                         /\ Resumes(w, [w EXCEPT !.emulated = n])
BY DEF Frames, Resumes

\* All ways in which a step may end.
LEMMA OutcomeMoves ==
  ASSUME NEW w \in Frames, NEW y, Steady(rw[w.r], y),
         \/ Captured(w, y) \/ Stops(w, y) \/ Dies(w, y) \/ Ends(w, y)
         \/ \E v : Resumes(w, v) /\ Goes(v, y)
  PROVE  Moves(w)
<1>1. CASE Captured(w, y)
  <2> DEFINE n == w.pos + 1
             p == IF y.vreq = VR_None THEN "optimise" ELSE "vectorize"
             u == [w EXCEPT !.phase = "capture", !.pos = n, !.emulated = 0]
             v == [w EXCEPT !.phase = p, !.pos = 1]
  <2>1. Goes(u, y) \/ Ends(w, y) \/ Goes(v, y)
    BY <1>1 DEF Captured
  <2>2. Resumes(w, u) /\ Resumes(w, v)
    BY FrameResumes
  <2> HIDE DEF u, v
  <2> QED
    BY <2>1, <2>2 DEF Moves
<1>2. {"fresh", "vreq"} \subseteq DOMAIN y
  BY DEF Steady
<1>3. CASE Stops(w, y)
  <2> DEFINE z == IF w.call = "emulate" THEN y ELSE [y EXCEPT !.addr = "func"]
  <2>1. Steady(y, z)
    BY <1>2, FieldsSteady
  <2>2. Ends(w, z)
    BY <1>3 DEF Stops
  <2> HIDE DEF z
  <2>3. Steady(rw[w.r], z)
    BY <2>1, SteadyTwice
  <2> QED
    BY <2>2, <2>3 DEF Moves
<1>4. CASE Dies(w, y)
  <2>1. Steady(y, Dead(y))
    BY <1>2, FieldsSteady
  <2>2. Steady(rw[w.r], Dead(y))
    BY <2>1, SteadyTwice
  <2>3. Goes(w, Dead(y)) /\ Resumes(w, w)
    BY <1>4, FrameResumes DEF Dies
  <2> QED
    BY <2>2, <2>3 DEF Moves
<1> QED
  BY <1>1, <1>3, <1>4 DEF Moves

\* Every step that makes no new variant.
LEMMA StepMoves ==
  ASSUME NEW w \in Frames, Tables(rw[w.r]),
         LET x == rw[w.r]
             t == Trace(x)[w.pos]
         IN \/ EmulateBlock(w, x, t) \/ CaptureBlock(w, x, t)
            \/ \E q \in Variants(w.r, t.kernel) : Captured(w, redirect(x, t.kernel, rw[q]))
            \/ Vectorize(w, x) \/ Optimise(w, x) \/ GenerateBlock(w, x)
  PROVE  Moves(w)
<1> DEFINE x == rw[w.r]
           t == Trace(x)[w.pos]
<1>1. {"fresh", "vreq"} \subseteq DOMAIN x
  BY DEF Tables, Rewriters
<1>2. ASSUME NEW y, Steady(x, y),
             \/ Captured(w, y) \/ Stops(w, y) \/ Dies(w, y) \/ Ends(w, y)
             \/ \E v : Resumes(w, v) /\ Goes(v, y)
      PROVE  Moves(w)
  BY <1>2, OutcomeMoves
<1>3. CASE \E q \in Variants(w.r, t.kernel) : Captured(w, redirect(x, t.kernel, rw[q]))
  <2>1. PICK q \in Variants(w.r, t.kernel) : Captured(w, redirect(x, t.kernel, rw[q]))
    BY <1>3
  <2> DEFINE y == redirect(x, t.kernel, rw[q])
  <2>2. Steady(x, y)
    BY <1>1, StagesSteady
  <2> HIDE DEF x, t
  <2> QED
    BY <1>2, <2>1, <2>2
<1> HIDE DEF x
<1>4. CASE EmulateBlock(w, x, t)
  <2> DEFINE n == w.emulated + 1
             y == emulateBlock(x, t.dec[n])
             v == [w EXCEPT !.emulated = n]
  <2>1. Steady(x, y)
    BY <1>1, EmulateSteady
  <2>2. Goes(v, y) /\ Resumes(w, v)
    BY <1>4, FrameResumes DEF EmulateBlock
  <2> HIDE DEF y, v
  <2> QED
    BY <1>2, <2>1, <2>2
<1>5. CASE CaptureBlock(w, x, t)
  <2> DEFINE y(n) == [getCaptureBBs(x, n) EXCEPT !.capBBCount = 0, !.capBB = << >>]
             z == captureBlock(x, t)
             v == [w EXCEPT !.phase = "redirect"]
  <2>1. Steady(x, x) /\ Steady(x, z) /\ \A n : Steady(x, y(n))
    BY <1>1, FieldsSteady, StagesSteady
  <2>2. Dies(w, x) \/ (\E n : Stops(w, y(n))) \/ Captured(w, z) \/ Goes(v, z)
    BY <1>5 DEF CaptureBlock
  <2>3. Resumes(w, v)
    BY FrameResumes
  <2> HIDE DEF y, z, v
  <2> QED
    BY <1>2, <2>1, <2>2, <2>3
<1>6. CASE Vectorize(w, x)
  <2> DEFINE y == vecPass(x)
             v == [w EXCEPT !.phase = "optimise"]
  <2>1. Steady(x, x) /\ Steady(x, y)
    BY <1>1, FieldsSteady, StagesSteady
  <2>2. Dies(w, x) \/ Stops(w, y) \/ Goes(v, y)
    BY <1>6 DEF Vectorize
  <2>3. Resumes(w, v)
    BY FrameResumes
  <2> HIDE DEF y, v
  <2> QED
    BY <1>2, <2>1, <2>2, <2>3
<1>7. CASE Optimise(w, x)
  <2> DEFINE n == w.pos + 1
             y == optPass(x, w.pos)
             u == [w EXCEPT !.pos = n]
             v == [w EXCEPT !.phase = "generate", !.pos = 1]
  <2>1. Steady(x, y)
    BY <1>1, StagesSteady
  <2>2. Stops(w, y) \/ Goes(u, y) \/ Goes(v, y)
    BY <1>7 DEF Optimise
  <2>3. Resumes(w, u) /\ Resumes(w, v)
    BY FrameResumes
  <2> HIDE DEF y, u, v
  <2> QED
    BY <1>2, <2>1, <2>2, <2>3
<1>8. CASE GenerateBlock(w, x)
  <2> DEFINE n == w.pos + 1
             y == generate(x, w.pos)
             z == link(y)
             u == [intoOrder(x, w.pos) EXCEPT !.code = NoCode]
             v == [w EXCEPT !.pos = n]
  <2>1. Steady(x, x) /\ Steady(x, y) /\ Steady(x, z) /\ Steady(x, u)
    BY <1>1, FieldsSteady, StagesSteady
  <2>2. Dies(w, x) \/ Stops(w, u) \/ Goes(v, y) \/ Ends(w, z)
    BY <1>8 DEF GenerateBlock
  <2>3. Resumes(w, v)
    BY FrameResumes
  <2> HIDE DEF y, z, u, v
  <2> QED
    BY <1>2, <2>1, <2>2, <2>3
<1> QED
  BY <1>3, <1>4, <1>5, <1>6, <1>7, <1>8 DEF x

----------------------------------------------------------------------------
(***************************************************************************)
(* Steps of a rewriting whose needs fit                                    *)
(***************************************************************************)

\* The blocks decoded are different ones of B, with all of their instructions; h
\* has the sums of these.
DecodedBlocks(x) == { x.decBB[k].block : k \in 1 .. Len(x.decBB) }

DecodedOf(x, B, h) ==
  /\ SumsOf(h, B) /\ h[B] <= x.capacity["decInstr"]
  /\ DecodedBlocks(x) \subseteq B /\ Cardinality(DecodedBlocks(x)) = Len(x.decBB)
  /\ \A k \in 1 .. Len(x.decBB) : x.decBB[k].count = Length(x.decBB[k].block)
  /\ x.decInstrCount = h[DecodedBlocks(x)]

DecodedFits(x) == \E h : DecodedOf(x, BlocksOf(Trace(x)), h)

\* The tables are there, and large enough.
Ready(x) ==
  /\ ~x.dead /\ x.dec /\ x.cap /\ x.cs /\ x.func \in Functions /\ x.cc # NoConfig
  /\ Fitting(x)

\* Decoding a block of the trace takes the room for it, once.
LEMMA DecodeFits ==
  ASSUME NEW x, Tables(x), Ready(x), DecodedFits(x), NEW b \in BlocksOf(Trace(x))
  PROVE  LET y == emulateBlock(x, b)
         IN /\ \E D, c : y = [x EXCEPT !.decBB = D, !.decInstrCount = c]
            /\ DecodedFits(y)
<1> DEFINE trace == Trace(x)
           B == BlocksOf(trace)
           y == emulateBlock(x, b)
<1>1. x \in Rewriters /\ trace \in Seq(TraceBlocks)
  BY TraceFacts DEF Tables, Ready
<1>2. IsFiniteSet(B)
  BY <1>1, BlocksFinite
<1>3. Length(b) \in Nat \ {0}
  <2>1. PICK k \in 1 .. Len(trace) : \E i \in 1 .. Len(trace[k].dec) : b = trace[k].dec[i]
    BY <1>1, BlocksFinite
  <2>2. PICK i \in 1 .. Len(trace[k].dec) : b = trace[k].dec[i]
    BY <2>1
  <2>3. b \in Functions \X Nat /\ b[2] \in DOMAIN Code[b[1]].blocks
    BY <1>1, <2>2, TraceFacts DEF Ready
  <2> QED
    BY <2>3, LengthFacts
<1>4. PICK h : DecodedOf(x, B, h)
  BY DEF DecodedFits
<1>5. x.decBB \in Seq(Decodings) /\ x.decInstrCount \in Nat
  BY <1>1 DEF Rewriters
<1> DEFINE N == Len(x.decBB)
           D == DecodedBlocks(x)
<1>6. N \in Nat /\ DOMAIN x.decBB = 1 .. N
  BY <1>5
<1>7. Decoded(x, b) # {} <=> b \in D
  BY <1>6 DEF Decoded, DecodedBlocks
<1>8. [IF x.dec THEN x ELSE initRewriter(x) EXCEPT !.cc = cc_get(x.cc)] = x
  BY <1>1 DEF Rewriters, Ready, cc_get
<1> DEFINE n == Least(Length(b), x.capacity["decInstr"] - x.decInstrCount)
           s == Append(x.decBB, [ block |-> b, count |-> n ])
           z == [x EXCEPT !.decBB = s, !.decInstrCount = x.decInstrCount + n]
<1>9. decode(x, b) =
        CASE Decoded(x, b) # {} -> x
          [] Decoded(x, b) = {} /\ (n = 0 \/ N >= x.capacity["decBB"]) -> Dead(x)
          [] OTHER -> z
  <2>1. ~x.dead /\ x.dec
    BY DEF Ready
  <2> QED
    BY <1>8, <2>1 DEF decode
<1>10. CASE b \in D
  <2>1. decode(x, b) = x
    BY <1>7, <1>9, <1>10
  <2>2. \A k \in Decoded(x, b) : x.decBB[k].count = Length(b)
    BY <1>4, <1>6 DEF DecodedOf, Decoded
  <2>3. \A k \in Decoded(x, b) : ~(x.decBB[k].count < Length(b))
    BY <1>3, <2>2
  <2>4. y = x
    BY <2>1, <2>3 DEF emulateBlock
  <2>5. x = [x EXCEPT !.decBB = x.decBB, !.decInstrCount = x.decInstrCount]
    BY <1>1 DEF Rewriters
  <2> QED
    BY <2>4, <2>5
<1>11. CASE b \notin D
  <2>1. D \in SUBSET B /\ Cardinality(D) = N /\ IsFiniteSet(D)
    BY <1>2, <1>4, FS_Subset DEF DecodedOf
  <2> DEFINE E == D \cup {b}
  <2>2. E \in SUBSET B /\ IsFiniteSet(E) /\ Cardinality(E) = N + 1
    BY <1>11, <2>1, FS_AddElement
  <2>3. N + 1 <= Cardinality(B)
    BY <1>2, <2>2, FS_Subset
  <2>4. Cardinality(B) <= x.capacity["decBB"]
    <3>1. Needs(x)["decBB"] = Cardinality(Blocks(x)) /\ Blocks(x) = B
      BY DEF Needs, Blocks, BlocksOf
    <3>2. Needs(x)["decBB"] <= x.capacity["decBB"]
      BY DEF Ready, Fitting, Capacities
    <3> QED
      BY <3>1, <3>2
  <2>5. /\ h[E] = h[D] + Length(b) /\ h[E] <= h[B] /\ h[D] \in Nat /\ h[B] \in Nat
        /\ h[B] <= x.capacity["decInstr"] /\ x.decInstrCount = h[D]
    <3>1. b \in B \ D
      BY <1>11
    <3> HIDE DEF B, D, E
    <3> QED
      BY <1>4, <2>1, <2>2, <3>1 DEF DecodedOf, SumsOf, D, E
  <2>6. x.capacity["decInstr"] \in Nat /\ x.capacity["decBB"] \in Nat /\ Cardinality(B) \in Nat
    BY <1>1, <1>2, FS_CardinalityType DEF Rewriters, Capacities
  <2>7. n = Length(b)
    <3> HIDE DEF B, D, E
    <3> QED
      BY <1>3, <2>5, <2>6 DEF Least
  <2>8. n # 0 /\ ~(N >= x.capacity["decBB"])
    <3>1. ~(N >= x.capacity["decBB"])
      <4> HIDE DEF N, B
      <4> QED
        BY <1>6, <2>3, <2>4, <2>6
    <3> QED
      BY <1>3, <2>7, <3>1
  <2>9. decode(x, b) = z
    <3> HIDE DEF n, N, z
    <3> QED
      BY <1>7, <1>9, <1>11, <2>8
  <2>10. /\ z.decBB = s /\ z.decInstrCount = h[E] /\ z.capacity = x.capacity
         /\ Trace(z) = trace
    <3> HIDE DEF s, n
    <3>1. /\ z.decBB = s /\ z.decInstrCount = x.decInstrCount + n /\ z.capacity = x.capacity
          /\ z.func = x.func /\ z.cc = x.cc
      BY <1>1 DEF Rewriters
    <3> HIDE DEF z
    <3> QED
      BY <2>5, <2>7, <3>1 DEF Trace
  <2>11. /\ Len(s) = N + 1 /\ DOMAIN s = 1 .. N + 1
         /\ \A k \in 1 .. N : s[k] = x.decBB[k]
         /\ s[N + 1] = [ block |-> b, count |-> n ]
    <3> DEFINE e == [ block |-> b, count |-> n ]
    <3>1. PICK S : x.decBB \in Seq(S) /\ e \in S
      <4>1. x.decBB \in Seq(Decodings \cup {e})
        BY <1>5
      <4> QED
        BY <4>1
    <3> HIDE DEF e, n
    <3> QED
      BY <3>1 DEF e
  <2> HIDE DEF s, n
  <2>12. \A k \in 1 .. N + 1 : s[k].count = Length(s[k].block)
    <3>1. \A k \in 1 .. N : s[k].count = Length(s[k].block)
      BY <1>4, <2>11 DEF DecodedOf
    <3>2. s[N + 1].count = Length(s[N + 1].block)
      BY <2>7, <2>11
    <3>3. \A k \in 1 .. N + 1 : k = N + 1 \/ k \in 1 .. N
      BY <1>6
    <3> QED
      BY <3>1, <3>2, <3>3
  <2>13. DecodedBlocks(z) = E
    <3>1. DecodedBlocks(z) = { s[k].block : k \in 1 .. N + 1 }
      BY <2>10, <2>11 DEF DecodedBlocks
    <3>2. 1 .. N + 1 = 1 .. N \cup {N + 1}
      BY <1>6
    <3>3. s[N + 1].block = b /\ \A k \in 1 .. N : s[k].block = x.decBB[k].block
      BY <2>11
    <3> DEFINE f == [k \in 1 .. N + 1 |-> s[k].block]
    <3>4. { f[k] : k \in 1 .. N \cup {N + 1} } = { f[k] : k \in 1 .. N } \cup {f[N + 1]}
      <4> HIDE DEF f
      <4> QED
        OBVIOUS
    <3>5. { f[k] : k \in 1 .. N } = D /\ f[N + 1] = b
      <4>1. \A k \in 1 .. N : f[k] = x.decBB[k].block
        BY <3>2, <3>3
      <4>2. f[N + 1] = b
        BY <3>2, <3>3
      <4> HIDE DEF f
      <4> QED
        BY <4>1, <4>2 DEF DecodedBlocks
    <3>6. DecodedBlocks(z) = { f[k] : k \in 1 .. N \cup {N + 1} }
      BY <3>1, <3>2
    <3> QED
      BY <3>4, <3>5, <3>6
  <2>14. DecodedOf(z, B, h)
    <3> HIDE DEF z, B, D, E, N
    <3> QED
      BY <1>4, <2>2, <2>10, <2>11, <2>12, <2>13 DEF DecodedOf
  <2>15. y = z
    <3>1. \A k \in Decoded(z, b) : z.decBB[k].count = Length(b)
      BY <2>10, <2>11, <2>12 DEF Decoded
    <3>2. \A k \in Decoded(z, b) : ~(z.decBB[k].count < Length(b))
      BY <1>3, <3>1
    <3> HIDE DEF z
    <3> QED
      BY <2>9, <3>2 DEF emulateBlock
  <2>16. DecodedFits(z)
    <3> HIDE DEF z
    <3> QED
      BY <2>10, <2>14 DEF DecodedFits
  <2>17. \E F, c : z = [x EXCEPT !.decBB = F, !.decInstrCount = c]
    OBVIOUS
  <2> QED
    BY <2>15, <2>16, <2>17
<1> QED
  BY <1>10, <1>11

\* In the pool are the instructions captured for n blocks, with a hint; while they
\* are copied, all of them are there once, and those copied so far twice.
Room(x, n) == Hints(x) + OutUpTo(Trace(x))[n]

Promised(w, x) ==
  /\ Ready(x)
  /\ \/ /\ w.phase = "capture" /\ DecodedFits(x) /\ x.genOrderCount = 0 /\ x.order = {}
        /\ x.capBBCount > 0 /\ x.capInstrCount = Room(x, w.pos - 1)
     \/ /\ w.phase = "optimise" /\ x.genOrderCount = 0 /\ x.order = {}
        /\ x.capInstrCount = Room(x, Len(Trace(x)))
                             + (IF x.passes /\ w.pos # 1 THEN Room(x, w.pos - 1) ELSE 0)
     \/ /\ w.phase = "generate" /\ x.genOrderCount = w.pos - 1
        /\ x.order \subseteq 1 .. Len(Trace(x))

\* It goes on as promised, or ends with code.
Fulfils(w, x) ==
  \E y : /\ Steady(x, y)
         /\ \/ \E v : Resumes(w, v) /\ Promised(v, y) /\ Goes(v, y)
            \/ Ends(w, y) /\ (w.call = "rewrite" => y.addr = "code")

\* Fields of x that capturing does not change.
LEMMA ReadyStays ==
  ASSUME NEW x, Ready(x), NEW y,
         y.dead = x.dead, y.dec = x.dec, y.cap = x.cap, y.cs = x.cs, y.func = x.func,
         y.cc = x.cc, y.capacity = x.capacity, y.passes = x.passes
  PROVE  Ready(y) /\ Trace(y) = Trace(x) /\ Hints(y) = Hints(x) /\ \A n : Room(y, n) = Room(x, n)
<1>1. Trace(y) = Trace(x) /\ Hints(y) = Hints(x)
  BY DEF Trace, Hints
<1>2. Needs(y) = Needs(x)
  BY <1>1 DEF Needs, Blocks, OutOf
<1>3. Fitting(y)
  BY <1>1, <1>2 DEF Ready, Fitting
<1> QED
  BY <1>1, <1>3 DEF Ready, Room

\* Emulating a block: it can be decoded, and all of it.
LEMMA EmulateFulfils ==
  ASSUME NEW w \in Frames, NEW x, Tables(x), InProgress(w, x), Promised(w, x),
         EmulateBlock(w, x, Trace(x)[w.pos])
  PROVE  Fulfils(w, x)
<1> DEFINE t == Trace(x)[w.pos]
           i == w.emulated + 1
           b == t.dec[i]
           y == emulateBlock(x, b)
           v == [w EXCEPT !.emulated = i]
<1>1. /\ w.phase = "capture" /\ i \in 1 .. Len(t.dec) /\ Goes(v, y)
  <2>1. w.phase = "capture" /\ w.emulated < Len(t.dec) /\ Goes(v, y)
    BY DEF EmulateBlock
  <2>2. w.emulated \in Nat
    BY DEF Frames
  <2>3. Len(t.dec) \in Nat
    <3>1. x.func \in Functions /\ x \in Rewriters
      BY DEF Promised, Ready, Tables
    <3>2. w.pos \in 1 .. Len(Trace(x))
      BY <2>1, <3>1, TraceFacts
         DEF InProgress, Capturing, Redirecting, Generating, Promised, Ready, Frames
    <3>3. t \in TraceBlocks
      BY <3>1, <3>2, TraceFacts
    <3>4. t.dec \in Seq(Functions \X Nat)
      BY <3>3, BlockTypes
    <3> HIDE DEF t
    <3> QED
      BY <3>4
  <2> QED
    BY <2>1, <2>2, <2>3
<1>2. x \in Rewriters /\ x.func \in Functions /\ w.pos \in 1 .. Len(Trace(x))
  <2>1. x.func \in Functions /\ x \in Rewriters
    BY DEF Promised, Ready, Tables
  <2> QED
    BY <1>1, <2>1, TraceFacts
       DEF InProgress, Capturing, Redirecting, Generating, Promised, Ready, Frames
<1>3. b \in BlocksOf(Trace(x))
  BY <1>1, <1>2, TraceFacts, BlocksFinite
<1>4. Ready(x) /\ DecodedFits(x) /\ x.genOrderCount = 0 /\ x.order = {} /\ x.capBBCount > 0
      /\ x.capInstrCount = Room(x, w.pos - 1)
  BY <1>1 DEF Promised
<1>5. /\ \E D, c : y = [x EXCEPT !.decBB = D, !.decInstrCount = c]
      /\ DecodedFits(y)
  <2> HIDE DEF b
  <2> QED
    BY <1>3, <1>4, DecodeFits
<1>6. {"fresh", "vreq"} \subseteq DOMAIN x
  BY <1>2 DEF Rewriters
<1>7. Steady(x, y)
  BY <1>6, EmulateSteady
<1>8. /\ Resumes(w, v) /\ v.phase = w.phase /\ v.pos = w.pos
  BY FrameResumes DEF Frames
<1> HIDE DEF y, v
<1>9. PICK D, c : y = [x EXCEPT !.decBB = D, !.decInstrCount = c]
  BY <1>5
<1>10. /\ y.dead = x.dead /\ y.dec = x.dec /\ y.cap = x.cap /\ y.cs = x.cs /\ y.func = x.func
       /\ y.cc = x.cc /\ y.capacity = x.capacity /\ y.passes = x.passes
       /\ y.genOrderCount = x.genOrderCount /\ y.capBBCount = x.capBBCount
       /\ y.capInstrCount = x.capInstrCount /\ y.order = x.order
  BY <1>2, <1>9 DEF Rewriters
<1>11. Ready(y) /\ Room(y, w.pos - 1) = Room(x, w.pos - 1)
  BY <1>4, <1>10, ReadyStays
<1>12. Promised(v, y)
  BY <1>1, <1>4, <1>5, <1>8, <1>10, <1>11 DEF Promised
<1> QED
  BY <1>1, <1>7, <1>8, <1>12 DEF Fulfils

\* What holds of the trace where rewriting w is.
LEMMA PromisedFacts ==
  ASSUME NEW w \in Frames, NEW x, Tables(x), InProgress(w, x), Promised(w, x)
  PROVE  /\ x \in Rewriters /\ x.func \in Functions /\ x.cap /\ Fitting(x)
         /\ w.pos \in 1 .. Len(Trace(x)) /\ Len(Trace(x)) \in Nat \ {0}
         /\ w.phase = "capture" => Follows(x, w.pos - 1)
         /\ w.phase \in {"optimise", "generate"} =>
              /\ w.call = "rewrite" /\ Follows(x, Len(Trace(x)))
              /\ w.phase = "generate" => Generated(x, w.pos - 1)
         /\ \A n \in 0 .. Len(Trace(x)) :
              /\ Room(x, n) \in Nat /\ Room(x, n) <= Room(x, Len(Trace(x)))
              /\ n \in 1 .. Len(Trace(x)) => Room(x, n) = Room(x, n - 1) + Trace(x)[n].out
         /\ 2 * Room(x, Len(Trace(x))) <= x.capacity["capInstr"]
<1> DEFINE N == Len(Trace(x))
           o == OutUpTo(Trace(x))
<1>1. x \in Rewriters /\ x.func \in Functions /\ x.cap /\ Fitting(x) /\ ~x.dead
  BY DEF Promised, Ready, Tables
<1>2. N \in Nat \ {0}
  BY <1>1, TraceFacts
<1>3. w.pos \in 1 .. N
  <2>1. w.pos <= N
    BY <1>1 DEF InProgress, Capturing, Redirecting, Generating
  <2>2. w.pos \in Nat \ {0}
    BY DEF Frames
  <2> HIDE DEF N
  <2> QED
    BY <1>2, <2>1, <2>2
<1>4. w.phase = "capture" => Follows(x, w.pos - 1)
  <2> SUFFICES ASSUME w.phase = "capture"
               PROVE  Follows(x, w.pos - 1)
    OBVIOUS
  <2>1. x.capBBCount > 0 /\ x.capBBCount \in Nat
    BY <1>1 DEF Promised, Rewriters
  <2>2. x.capBBCount # 0
    BY <2>1
  <2> QED
    BY <1>1, <2>2 DEF InProgress, Capturing, Redirecting, Generating
<1>5. w.phase \in {"optimise", "generate"} =>
        /\ w.call = "rewrite" /\ Follows(x, N)
        /\ w.phase = "generate" => Generated(x, w.pos - 1)
  BY <1>1 DEF InProgress, Capturing, Redirecting, Generating
<1>6. Hints(x) \in Nat
  BY DEF Hints
<1>7. /\ o \in [0 .. N -> Nat] /\ \A n \in 0 .. N : o[n] <= o[N]
      /\ \A n \in 1 .. N : o[n] = o[n - 1] + Trace(x)[n].out /\ Trace(x)[n].out \in Nat
      /\ 2 * (o[N] + Hints(x)) <= x.capacity["capInstr"]
  BY <1>1, FittingFacts
<1> DEFINE h == Hints(x)
<1> HIDE DEF o, N, h
<1>8. \A n \in 0 .. N : Room(x, n) = h + o[n]
  BY DEF Room, o, N, h
<1>9. h \in Nat /\ N \in 0 .. N /\ \A n \in 0 .. N : o[n] \in Nat
  BY <1>2, <1>6, <1>7 DEF h
<1>10. \A n \in 0 .. N : Room(x, n) \in Nat /\ Room(x, n) <= Room(x, N)
  BY <1>7, <1>8, <1>9
<1>11. ASSUME NEW n \in 1 .. N
       PROVE  Room(x, n) = Room(x, n - 1) + Trace(x)[n].out
  <2>1. n - 1 \in 0 .. N /\ n \in 0 .. N
    BY <1>2
  <2>2. o[n] = o[n - 1] + Trace(x)[n].out /\ Trace(x)[n].out \in Nat
    BY <1>7
  <2> QED
    BY <1>8, <1>9, <2>1, <2>2
<1>12. 2 * Room(x, N) <= x.capacity["capInstr"]
  <2>1. 2 * (o[N] + h) <= x.capacity["capInstr"]
    BY <1>7 DEF h
  <2>2. Room(x, N) = o[N] + h
    BY <1>8, <1>9
  <2> QED
    BY <2>1, <2>2
<1> QED
  BY <1>1, <1>2, <1>3, <1>4, <1>5, <1>10, <1>11, <1>12 DEF N

\* Capturing a block: there is room for it, and behind the last one the passes
\* follow, or the emulation is done.
LEMMA CaptureFulfils ==
  ASSUME NEW w \in Frames, NEW x, Tables(x), InProgress(w, x), Promised(w, x),
         x.vreq = VR_None, CaptureBlock(w, x, Trace(x)[w.pos])
  PROVE  Fulfils(w, x)
<1> DEFINE N == Len(Trace(x))
           p == w.pos
           t == Trace(x)[p]
           y == captureBlock(x, t)
           M == x.capacity["capInstr"]
<1>1. w.phase = "capture"
  BY DEF CaptureBlock
<1>2. /\ x \in Rewriters /\ x.func \in Functions /\ x.cap /\ Fitting(x)
      /\ p \in 1 .. N /\ N \in Nat \ {0} /\ Follows(x, p - 1)
      /\ Room(x, p) \in Nat /\ Room(x, p - 1) \in Nat /\ Room(x, N) \in Nat
      /\ Room(x, p) <= Room(x, N) /\ Room(x, p) = Room(x, p - 1) + t.out
      /\ 2 * Room(x, N) <= M
  <2>1. N \in Nat \ {0} /\ p \in 1 .. N
    BY PromisedFacts
  <2>2. p \in 0 .. N /\ p - 1 \in 0 .. N /\ N \in 0 .. N
    <3> HIDE DEF N, p
    <3> QED
      BY <2>1
  <2> QED
    BY <1>1, <2>1, <2>2, PromisedFacts
<1>3. /\ t.out \in Nat /\ t.new \in Nat /\ ~t.error /\ t.kernel = NoKernel
      /\ AskedFor(Trace(x))[p] = AskedFor(Trace(x))[p - 1] + t.new
      /\ AskedFor(Trace(x))[p] <= x.capacity["capBB"]
  <2>1. t \in TraceBlocks
    BY <1>2, TraceFacts
  <2> QED
    BY <1>2, <2>1, FittingFacts, BlockTypes
<1>4. /\ Ready(x) /\ DecodedFits(x) /\ x.genOrderCount = 0 /\ x.order = {} /\ x.capBBCount > 0
      /\ x.capInstrCount = Room(x, p - 1)
  BY <1>1 DEF Promised
<1>5. ~CaptureFails(x, t)
  <2>1. x.capBBCount = AskedFor(Trace(x))[p - 1]
    BY <1>2 DEF Follows
  <2>2. x.capBBCount + t.new <= x.capacity["capBB"] /\ x.capacity["capBB"] \in Nat
        /\ x.capBBCount \in Nat
    BY <1>2, <1>3, <2>1 DEF Rewriters, Capacities
  <2>3. x.capInstrCount + t.out <= M
    <3>1. M \in Nat
      BY <1>2 DEF Rewriters, Capacities
    <3> HIDE DEF M, t, N, p
    <3> QED
      BY <1>2, <1>3, <1>4, <3>1
  <2>4. ~(x.capBBCount + t.new > x.capacity["capBB"])
    <3> HIDE DEF t
    <3> QED
      BY <1>3, <2>2
  <2> QED
    BY <1>3, <2>3, <2>4 DEF CaptureFails, Fits
<1>6. Captured(w, y)
  <2>1. x.capBBCount # 0
    BY <1>2, <1>4 DEF Rewriters
  <2> QED
    BY <1>3, <1>5, <2>1 DEF CaptureBlock
<1>7. Steady(x, y)
  <2>1. {"fresh", "vreq"} \subseteq DOMAIN x
    BY <1>2 DEF Rewriters
  <2> QED
    BY <2>1, StagesSteady
<1>8. /\ y.dead = x.dead /\ y.dec = x.dec /\ y.cap = x.cap /\ y.cs = x.cs /\ y.func = x.func
      /\ y.cc = x.cc /\ y.capacity = x.capacity /\ y.passes = x.passes
      /\ y.genOrderCount = x.genOrderCount /\ y.capBBCount = x.capBBCount + t.new
      /\ y.capInstrCount = x.capInstrCount + t.out /\ y.decBB = x.decBB
      /\ y.decInstrCount = x.decInstrCount /\ y.vreq = x.vreq /\ y.order = x.order
  <2> DEFINE new == t.new
  <2>1. PICK j \in SUBSET Nat, q \in SUBSET Nat :
          getCaptureBBs(x, new) = [x EXCEPT !.capBBCount = x.capBBCount + new,
                                            !.jccs = j, !.placed = q]
    <3> HIDE DEF t
    <3> QED
      BY <1>2, <1>3, AskedPlaces
  <2> DEFINE i == x.capInstrCount + t.out
  <2>2. \E b, l : y = [x EXCEPT !.capBBCount = x.capBBCount + new, !.jccs = l, !.placed = q,
                               !.capBB = b, !.capInstrCount = i]
    <3> DEFINE u == [x EXCEPT !.capBBCount = x.capBBCount + new, !.jccs = j, !.placed = q]
               b == Append(x.capBB,
                           [ instr |-> IF x.capBB = << >> THEN 0 ELSE x.capInstrCount,
                             count |-> IF x.capBB = << >> THEN t.out + Hints(x) ELSE t.out ])
               l == j \cup ({t.jcc} \ {0})
    <3>1. u.capBB = x.capBB /\ u.capInstrCount = x.capInstrCount /\ u.jccs = j
      BY <1>2 DEF Rewriters
    <3>2. y = [u EXCEPT !.capBB = b, !.capInstrCount = i, !.jccs = l]
      <4> HIDE DEF t, b
      <4>1. y = [u EXCEPT !.capBB = Append(u.capBB,
                            [ instr |-> IF u.capBB = << >> THEN 0 ELSE x.capInstrCount,
                              count |-> IF u.capBB = << >> THEN t.out + Hints(x) ELSE t.out ]),
                          !.capInstrCount = u.capInstrCount + t.out,
                          !.jccs = u.jccs \cup ({t.jcc} \ {0})]
        BY <2>1 DEF captureBlock
      <4> HIDE DEF u, y
      <4> QED
        BY <3>1, <4>1 DEF b
    <3> HIDE DEF b, l, y, i
    <3>3. y = [x EXCEPT !.capBBCount = x.capBBCount + new, !.jccs = l, !.placed = q,
                        !.capBB = b, !.capInstrCount = i]
      BY <1>2, <3>2 DEF Rewriters
    <3> QED
      BY <3>3
  <2> HIDE DEF y, new, i
  <2>3. /\ y.dead = x.dead /\ y.dec = x.dec /\ y.cap = x.cap /\ y.cs = x.cs /\ y.func = x.func
        /\ y.cc = x.cc /\ y.capacity = x.capacity /\ y.passes = x.passes
        /\ y.genOrderCount = x.genOrderCount /\ y.capBBCount = x.capBBCount + new
        /\ y.capInstrCount = i /\ y.decBB = x.decBB
        /\ y.decInstrCount = x.decInstrCount /\ y.vreq = x.vreq /\ y.order = x.order
    BY <1>2, <2>2 DEF Rewriters
  <2> QED
    BY <2>3 DEF i, new
<1> HIDE DEF y
<1>9. /\ Ready(y) /\ Trace(y) = Trace(x) /\ \A n : Room(y, n) = Room(x, n)
      /\ y.genOrderCount = 0 /\ y.order = {} /\ y.capBBCount > 0
      /\ y.capInstrCount = Room(x, p)
  <2>1. Ready(y) /\ Trace(y) = Trace(x) /\ \A n : Room(y, n) = Room(x, n)
    BY <1>4, <1>8, ReadyStays
  <2>2. x.capBBCount \in Nat
    BY <1>2 DEF Rewriters
  <2> HIDE DEF t, N, p
  <2> QED
    BY <1>2, <1>3, <1>4, <1>8, <2>1, <2>2
<1>10. DecodedFits(y)
  <2>1. \A h, B : DecodedOf(x, B, h) => DecodedOf(y, B, h)
    BY <1>8 DEF DecodedOf, DecodedBlocks
  <2> QED
    BY <1>4, <1>9, <2>1 DEF DecodedFits
<1>11. CASE p < N
  <2> DEFINE v == [w EXCEPT !.phase = "capture", !.pos = p + 1, !.emulated = 0]
  <2>1. Goes(v, y)
    BY <1>6, <1>9, <1>11 DEF Captured
  <2>2. Resumes(w, v) /\ v.phase = "capture" /\ v.pos = p + 1
    BY FrameResumes DEF Frames
  <2> HIDE DEF v
  <2>3. v.pos - 1 = p
    <3> HIDE DEF p
    <3> QED
      BY <1>2, <2>2
  <2>4. Promised(v, y)
    BY <1>9, <1>10, <2>2, <2>3 DEF Promised
  <2> QED
    BY <1>7, <2>1, <2>2, <2>4 DEF Fulfils
<1>12. CASE ~(p < N) /\ w.call = "emulate"
  <2>1. Ends(w, y)
    BY <1>6, <1>9, <1>12 DEF Captured
  <2> QED
    BY <1>7, <1>12, <2>1 DEF Fulfils
<1>13. CASE ~(p < N) /\ w.call # "emulate"
  <2> DEFINE v == [w EXCEPT !.phase = "optimise", !.pos = 1]
  <2>1. Goes(v, y)
    BY <1>6, <1>8, <1>9, <1>13 DEF Captured
  <2>2. Resumes(w, v) /\ v.phase = "optimise" /\ v.pos = 1
    BY FrameResumes DEF Frames
  <2> HIDE DEF v
  <2>3. p = N
    <3> HIDE DEF p, N
    <3> QED
      BY <1>2, <1>13
  <2>4. Room(x, N) + 0 = Room(x, N)
    BY <1>2
  <2>5. Promised(v, y)
    BY <1>9, <2>2, <2>3, <2>4 DEF Promised
  <2> QED
    BY <1>7, <2>1, <2>2, <2>5 DEF Fulfils
<1> QED
  BY <1>11, <1>12, <1>13

\* Copying a block: there is room for copies of all of them.
LEMMA OptimiseFulfils ==
  ASSUME NEW w \in Frames, NEW x, Tables(x), InProgress(w, x), Promised(w, x),
         Optimise(w, x)
  PROVE  Fulfils(w, x)
<1> DEFINE N == Len(Trace(x))
           p == w.pos
           c == x.capBB[p].count
           out == Trace(x)[p].out
           y == optPass(x, p)
           M == x.capacity["capInstr"]
<1>1. w.phase = "optimise"
  BY DEF Optimise
<1>2. /\ x \in Rewriters /\ x.func \in Functions /\ x.cap /\ Fitting(x)
      /\ p \in 1 .. N /\ N \in Nat \ {0} /\ Follows(x, N)
      /\ Room(x, p) \in Nat /\ Room(x, p - 1) \in Nat /\ Room(x, N) \in Nat
      /\ Room(x, p) <= Room(x, N) /\ Room(x, p) = Room(x, p - 1) + out
      /\ 2 * Room(x, N) <= M
  <2>1. N \in Nat \ {0} /\ p \in 1 .. N
    BY PromisedFacts
  <2>2. p \in 0 .. N /\ p - 1 \in 0 .. N /\ N \in 0 .. N
    <3> HIDE DEF N, p
    <3> QED
      BY <2>1
  <2> QED
    BY <1>1, <2>1, <2>2, PromisedFacts
<1>3. out \in Nat /\ Room(x, 0) = Hints(x) /\ Hints(x) \in Nat
  <2>1. OutUpTo(Trace(x))[0] = 0 /\ out \in Nat
    BY <1>2, FittingFacts
  <2>2. Hints(x) \in Nat
    BY DEF Hints
  <2> QED
    BY <2>1, <2>2 DEF Room
<1>4. c = out + (IF p = 1 THEN Hints(x) ELSE 0) /\ Len(x.capBB) = N
  BY <1>2 DEF Follows
<1>5. /\ Ready(x) /\ x.genOrderCount = 0 /\ x.order = {}
      /\ x.capInstrCount = Room(x, N) + (IF x.passes /\ p # 1 THEN Room(x, p - 1) ELSE 0)
  BY <1>1 DEF Promised
<1>6. x.passes => x.capInstrCount + c = Room(x, N) + Room(x, p)
  <2> SUFFICES ASSUME x.passes
               PROVE  x.capInstrCount + c = Room(x, N) + Room(x, p)
    OBVIOUS
  <2>1. CASE p = 1
    <3>1. p - 1 = 0
      BY <2>1
    <3>2. c = out + Hints(x) /\ x.capInstrCount = Room(x, N)
      BY <1>2, <1>4, <1>5, <2>1
    <3>3. Room(x, p) = Hints(x) + out
      BY <1>2, <1>3, <3>1
    <3> HIDE DEF c, out, p, N
    <3> QED
      BY <1>2, <1>3, <3>2, <3>3
  <2>2. CASE p # 1
    <3>1. c = out + 0 /\ x.capInstrCount = Room(x, N) + Room(x, p - 1)
      BY <1>4, <1>5, <2>2
    <3> HIDE DEF c, out, p, N
    <3> QED
      BY <1>2, <1>3, <3>1
  <2> QED
    BY <2>1, <2>2
<1>7. x.passes => Fits(x, c) /\ Taken(x, c) = Room(x, N) + Room(x, p)
  <2> SUFFICES ASSUME x.passes
               PROVE  Fits(x, c) /\ Taken(x, c) = Room(x, N) + Room(x, p)
    OBVIOUS
  <2>1. M \in Nat
    BY <1>2 DEF Rewriters, Capacities
  <2>2. x.capInstrCount + c <= M /\ Room(x, N) + Room(x, p) \in Nat
    <3> HIDE DEF c, p, N, M, out
    <3> QED
      BY <1>2, <1>6, <2>1
  <2>3. Least(x.capInstrCount + c, M) = Room(x, N) + Room(x, p)
    <3> HIDE DEF c, p, N, M
    <3> QED
      BY <1>6, <2>1, <2>2 DEF Least
  <2> QED
    BY <2>2, <2>3 DEF Fits, Taken
<1>8. ~CopyFails(x, p)
  BY <1>7 DEF CopyFails
<1> DEFINE u == [w EXCEPT !.pos = p + 1]
           v == [w EXCEPT !.phase = "generate", !.pos = 1]
<1>9. Goes(IF p < N THEN u ELSE v, y)
  BY <1>4, <1>8 DEF Optimise
<1>10. Steady(x, y)
  <2>1. {"fresh", "vreq"} \subseteq DOMAIN x
    BY <1>2 DEF Rewriters
  <2> QED
    BY <2>1, StagesSteady
<1>11. /\ y.dead = x.dead /\ y.dec = x.dec /\ y.cap = x.cap /\ y.cs = x.cs /\ y.func = x.func
       /\ y.cc = x.cc /\ y.capacity = x.capacity /\ y.passes = x.passes
       /\ y.genOrderCount = x.genOrderCount /\ y.order = x.order
       /\ y.capInstrCount = IF x.passes THEN Taken(x, c) ELSE x.capInstrCount
  <2>1. CASE x.passes
    <3> DEFINE z == optPassCopy(x, p)
    <3>1. y = z
      BY <2>1 DEF optPass
    <3>2. /\ z.dead = x.dead /\ z.dec = x.dec /\ z.cap = x.cap /\ z.cs = x.cs
          /\ z.func = x.func /\ z.cc = x.cc /\ z.capacity = x.capacity /\ z.passes = x.passes
          /\ z.genOrderCount = x.genOrderCount /\ z.order = x.order
          /\ z.capInstrCount = Taken(x, c)
      BY <1>2 DEF Rewriters, optPassCopy
    <3> HIDE DEF z, y
    <3> QED
      BY <2>1, <3>1, <3>2
  <2>2. CASE ~x.passes
    BY <2>2 DEF optPass
  <2> QED
    BY <2>1, <2>2
<1> HIDE DEF y
<1>12. Ready(y) /\ Trace(y) = Trace(x) /\ \A n : Room(y, n) = Room(x, n)
  BY <1>5, <1>11, ReadyStays
<1>13. CASE p < N
  <2>1. Resumes(w, u) /\ u.phase = "optimise" /\ u.pos = p + 1 /\ Goes(u, y)
    BY <1>1, <1>9, <1>13, FrameResumes DEF Frames
  <2> HIDE DEF u
  <2>2. u.pos # 1 /\ u.pos - 1 = p
    <3> HIDE DEF p, N
    <3> QED
      BY <1>2, <2>1
  <2>3. y.capInstrCount = Room(y, N) + (IF y.passes /\ u.pos # 1 THEN Room(y, u.pos - 1) ELSE 0)
    <3>1. CASE x.passes
      BY <1>7, <1>11, <1>12, <2>2, <3>1
    <3>2. CASE ~x.passes
      BY <1>5, <1>11, <1>12, <3>2
    <3> QED
      BY <3>1, <3>2
  <2>4. Promised(u, y)
    BY <1>5, <1>11, <1>12, <2>1, <2>3 DEF Promised
  <2> QED
    BY <1>10, <2>1, <2>4 DEF Fulfils
<1>14. CASE ~(p < N)
  <2>1. Resumes(w, v) /\ v.phase = "generate" /\ v.pos = 1 /\ Goes(v, y)
    BY <1>9, <1>14, FrameResumes DEF Frames
  <2> HIDE DEF v
  <2>2. v.pos - 1 = 0
    BY <2>1
  <2>3. Promised(v, y)
    BY <1>5, <1>11, <1>12, <2>1, <2>2 DEF Promised
  <2> QED
    BY <1>10, <2>1, <2>3 DEF Fulfils
<1> QED
  BY <1>13, <1>14

\* Generating a block: there is room for its code, and the last one gives the
\* address.
LEMMA GenerateFulfils ==
  ASSUME NEW w \in Frames, NEW x, Tables(x), InProgress(w, x), Promised(w, x),
         GenerateBlock(w, x)
  PROVE  Fulfils(w, x)
<1> DEFINE N == Len(Trace(x))
           p == w.pos
           c == x.capBB[p].count
           o == OutUpTo(Trace(x))
           out == Trace(x)[p].out
           y == generate(x, p)
<1>1. w.phase = "generate"
  BY DEF GenerateBlock
<1>2. /\ x \in Rewriters /\ x.func \in Functions /\ x.cap /\ Fitting(x)
      /\ p \in 1 .. N /\ N \in Nat \ {0} /\ Follows(x, N) /\ Generated(x, p - 1)
      /\ w.call = "rewrite"
  BY <1>1, PromisedFacts
<1>3. /\ o[p] = o[p - 1] + out /\ o[p] <= x.capacity["code"] /\ out \in Nat
      /\ o[p - 1] \in Nat /\ o[0] = 0 /\ N <= GENORDER_MAX
  <2>1. /\ o \in [0 .. N -> Nat] /\ o[0] = 0 /\ \A k \in 0 .. N : o[k] <= o[N]
        /\ o[p] = o[p - 1] + out /\ out \in Nat /\ o[N] <= x.capacity["code"]
        /\ N <= GENORDER_MAX
    BY <1>2, FittingFacts
  <2>2. x.capacity["code"] \in Nat
    BY <1>2 DEF Rewriters, Capacities
  <2>3. p \in 0 .. N /\ p - 1 \in 0 .. N /\ N \in 0 .. N
    <3> HIDE DEF N, p
    <3> QED
      BY <1>2
  <2> DEFINE K == x.capacity["code"]
  <2>4. o[p] <= o[N] /\ o[p] \in Nat /\ o[N] \in Nat /\ o[p - 1] \in Nat /\ o[N] <= K /\ K \in Nat
    <3> HIDE DEF N, p, o, out
    <3> QED
      BY <2>1, <2>2, <2>3
  <2>5. o[p] <= K
    <3> HIDE DEF N, p, o, out, K
    <3> QED
      BY <2>4
  <2> QED
    BY <2>1, <2>4, <2>5
<1>4. Ready(x) /\ x.genOrderCount = p - 1 /\ x.order \subseteq 1 .. N
  BY <1>1 DEF Promised
<1>5. /\ y.genOrderCount = x.genOrderCount + 1 /\ y.order = x.order \cup {p}
      /\ y.code.size = c + (IF p = 1 THEN -Hints(x) ELSE x.code.size)
  <2> DEFINE z == intoOrder(x, p)
  <2>1. /\ z.genOrderCount = x.genOrderCount + 1 /\ z.order = x.order \cup {p}
        /\ z.code = x.code /\ "code" \in DOMAIN z
    <3> HIDE DEF p
    <3> QED
      BY <1>2 DEF Rewriters, intoOrder
  <2> DEFINE k == [ func |-> x.func, static |-> x.cc.static, blocks |-> p,
                    size |-> c + (IF p = 1 THEN -Hints(x) ELSE z.code.size),
                    stale |-> FALSE, callees |-> x.calls ]
  <2>2. y = [z EXCEPT !.code = k]
    BY DEF generate
  <2>3. k.size = c + (IF p = 1 THEN -Hints(x) ELSE z.code.size)
    OBVIOUS
  <2> HIDE DEF c, p, k, z, y
  <2> QED
    BY <2>1, <2>2, <2>3
<1>6. y.code.size = o[p]
  <2>1. Hints(x) \in Nat
    BY DEF Hints
  <2>2. c = out + (IF p = 1 THEN Hints(x) ELSE 0)
    BY <1>2 DEF Follows
  <2>3. CASE p = 1
    <3>1. p - 1 = 0
      BY <2>3
    <3>2. y.code.size = c + -Hints(x) /\ c = out + Hints(x)
      BY <1>5, <2>2, <2>3
    <3>3. o[p] = 0 + out
      BY <1>3, <3>1
    <3> HIDE DEF c, out, p, o, y
    <3> QED
      BY <1>3, <2>1, <3>2, <3>3
  <2>4. CASE p # 1
    <3>1. p - 1 > 0
      <4> HIDE DEF p, N
      <4> QED
        BY <1>2, <2>4
    <3>2. x.code.size = o[p - 1]
      BY <1>2, <3>1 DEF Generated
    <3>3. y.code.size = c + x.code.size /\ c = out + 0
      BY <1>5, <2>2, <2>4
    <3> HIDE DEF c, out, p, o, y
    <3> QED
      BY <1>3, <3>2, <3>3
  <2> QED
    BY <2>3, <2>4
<1>7. ~Overfull(x, p)
  <2>1. x.cs
    BY <1>4 DEF Ready
  <2>2. ~(x.genOrderCount >= GENORDER_MAX)
    <3>1. GENORDER_MAX \in Nat
      BY RewriterAssumption
    <3> HIDE DEF p, N
    <3> QED
      BY <1>2, <1>3, <1>4, <3>1
  <2>3. ~(y.code.size > x.capacity["code"])
    <3>1. x.capacity["code"] \in Nat /\ o[p] \in Nat
      <4>1. o[p - 1] + out \in Nat
        <5> HIDE DEF o, p, out
        <5> QED
          BY <1>3
      <4> QED
        BY <1>2, <1>3, <4>1 DEF Rewriters, Capacities
    <3> HIDE DEF o, p, y
    <3> QED
      BY <1>3, <1>6, <3>1
  <2> QED
    BY <2>1, <2>2, <2>3 DEF Overfull
<1>8. Code[x.func].supported /\ Len(x.capBB) = N
  BY <1>2 DEF Fitting, Follows
<1> DEFINE v == [w EXCEPT !.pos = p + 1]
           z == link(y)
<1>9. IF p < N THEN Goes(v, y) ELSE Ends(w, z)
  <2>1. x.capBBCount = N
    BY <1>2, FittingFacts DEF Follows
  <2>2. Stale(x) = {}
    <3> HIDE DEF N, p
    <3> QED
      BY <1>2, <1>4, <2>1 DEF Stale
  <2>3. p = N => ~(p < N)
    BY <1>2
  <2> QED
    BY <1>7, <1>8, <2>2, <2>3 DEF GenerateBlock
<1>10. Steady(x, y) /\ Steady(x, z)
  <2>1. {"fresh", "vreq"} \subseteq DOMAIN x
    BY <1>2 DEF Rewriters
  <2> QED
    BY <2>1, StagesSteady
<1>11. CASE p < N
  <2>1. Resumes(w, v) /\ v.phase = "generate" /\ v.pos = p + 1
    BY <1>1, FrameResumes DEF Frames
  <2>2. /\ y.dead = x.dead /\ y.dec = x.dec /\ y.cap = x.cap /\ y.cs = x.cs /\ y.func = x.func
        /\ y.cc = x.cc /\ y.capacity = x.capacity /\ y.passes = x.passes
    <3> HIDE DEF p
    <3> QED
      BY <1>2 DEF Rewriters, generate, intoOrder
  <2> HIDE DEF v, y
  <2>3. Ready(y) /\ Trace(y) = Trace(x)
    BY <1>4, <2>2, ReadyStays
  <2>4. y.genOrderCount = v.pos - 1
    <3> HIDE DEF p, N
    <3> QED
      BY <1>2, <1>4, <1>5, <2>1
  <2>5. y.order \subseteq 1 .. N
    BY <1>2, <1>4, <1>5
  <2>6. Promised(v, y)
    BY <2>1, <2>3, <2>4, <2>5 DEF Promised
  <2> QED
    BY <1>9, <1>10, <1>11, <2>1, <2>6 DEF Fulfils
<1>12. CASE ~(p < N)
  <2>1. z.addr = "code"
    <3>1. "addr" \in DOMAIN y
      <4> HIDE DEF p
      <4> QED
        BY <1>2 DEF Rewriters, generate, intoOrder
    <3> HIDE DEF y
    <3> QED
      BY <3>1 DEF link
  <2> HIDE DEF z
  <2> QED
    BY <1>9, <1>10, <1>12, <2>1 DEF Fulfils
<1> QED
  BY <1>11, <1>12

----------------------------------------------------------------------------
(***************************************************************************)
(* The start of a rewriting whose needs fit                                *)
(***************************************************************************)

\* After a function was set, tables are empty.
Clean(x) ==
  x.fresh /\ ~x.dead => /\ x.func \in Functions /\ x.dec /\ x.cap
                        /\ x.decBB = << >> /\ x.decInstrCount = 0 /\ x.genOrderCount = 0
                        /\ x.order = {}

\* A rewriting is promised what it needs if its function was set just before.
LEMMA StartPromised ==
  ASSUME NEW x, Tables(x), Clean(x), ~x.dead, x.cc # NoConfig, Sufficient(x), NEW call,
         NEW r
  PROVE  Promised(Frame(r, call, TRUE), resetCapturing(x))
<1> DEFINE k == x.cc.parCount
           y == resetCapturing(x)
           w == Frame(r, call, TRUE)
           B == BlocksOf(Trace(x))
<1>1. /\ x \in Rewriters /\ x.func \in Functions /\ x.dec /\ x.cap /\ x.cs
      /\ x.decBB = << >> /\ x.decInstrCount = 0 /\ x.genOrderCount = 0 /\ x.order = {}
      /\ x.ePool + k <= PoolSize
  BY DEF Tables, Clean, Sufficient
<1>2. Ready(x)
  BY <1>1 DEF Ready, Fitting, Sufficient
<1> DEFINE e == x.ePool + k
           hints == Hints(x)
<1>3. PICK jccs \in SUBSET Nat, placed \in SUBSET Nat :
        y = [x EXCEPT !.capBBCount = 1, !.jccs = jccs, !.placed = placed, !.es = TRUE, !.capBB = << >>,
                      !.capInstrCount = hints, !.calls = {}, !.ePool = e, !.fresh = FALSE]
  <2> DEFINE u == [x EXCEPT !.capBBCount = 0]
             a == getCaptureBBs(u, 1)
             c == [a EXCEPT !.es = TRUE, !.capBB = << >>, !.capInstrCount = hints,
                            !.calls = {}, !.ePool = @ + k, !.fresh = FALSE]
  <2>1. u \in Rewriters /\ u.capBBCount = 0
    BY <1>1 DEF Rewriters
  <2>2. PICK js \in SUBSET Nat, ps \in SUBSET Nat :
          a = [u EXCEPT !.capBBCount = 1, !.jccs = js, !.placed = ps]
    <3> HIDE DEF u
    <3>1. u.capBBCount + 1 = 1 /\ 1 \in Nat
      BY <2>1
    <3>2. \E i, l \in SUBSET Nat :
            a = [u EXCEPT !.capBBCount = u.capBBCount + 1, !.jccs = i, !.placed = l]
      BY <2>1, <3>1, AskedPlaces
    <3> QED
      BY <3>1, <3>2
  <2>3. a = [x EXCEPT !.capBBCount = 1, !.jccs = js, !.placed = ps] /\ a.ePool = x.ePool
    BY <1>1, <2>2 DEF Rewriters
  <2> HIDE DEF a, hints
  <2>4. c = [x EXCEPT !.capBBCount = 1, !.jccs = js, !.placed = ps, !.es = TRUE, !.capBB = << >>,
                      !.capInstrCount = hints, !.calls = {}, !.ePool = e, !.fresh = FALSE]
        /\ c.ePool = e
    BY <1>1, <2>3 DEF Rewriters
  <2>5. ~(e > PoolSize)
    <3>1. e \in Int /\ PoolSize \in Nat
      BY <1>1, RewriterAssumption DEF Rewriters, Configs
    <3> HIDE DEF e
    <3>2. e <= PoolSize
      BY <1>1 DEF e
    <3> QED
      BY <3>1, <3>2
  <2>6. x.func # NoFunc
    BY <1>1, RewriterAssumption
  <2>7. y = IF x.func = NoFunc \/ ~x.cap \/ c.ePool > PoolSize THEN Dead(x) ELSE c
    BY DEF resetCapturing, a, u, hints
  <2> HIDE DEF e, c, y
  <2>8. y = c
    BY <1>1, <2>4, <2>5, <2>6, <2>7
  <2> QED
    BY <2>4, <2>8
<1>4. /\ y.dead = x.dead /\ y.dec = x.dec /\ y.cap = x.cap /\ y.cs = x.cs /\ y.func = x.func
      /\ y.cc = x.cc /\ y.capacity = x.capacity /\ y.passes = x.passes
      /\ y.genOrderCount = 0 /\ y.order = {} /\ y.capBBCount = 1 /\ y.capInstrCount = Hints(x)
      /\ y.decBB = << >> /\ y.decInstrCount = 0
  <2> HIDE DEF e, hints, y
  <2>1. y.capInstrCount = hints
    BY <1>1, <1>3 DEF Rewriters
  <2> QED
    BY <1>1, <1>3, <2>1 DEF Rewriters, hints
<1> HIDE DEF e, hints
<1> HIDE DEF y
<1>5. Ready(y) /\ Trace(y) = Trace(x) /\ \A n : Room(y, n) = Room(x, n)
  BY <1>2, <1>4, ReadyStays
<1>6. Trace(x) \in Seq(TraceBlocks) /\ OutUpTo(Trace(x))[0] = 0
  BY <1>1, TraceFacts, OutFacts
<1>7. DecodedFits(y)
  <2>1. IsFiniteSet(B)
    BY <1>6, BlocksFinite
  <2>2. \A b \in B : Length(b) \in Nat
    <3> SUFFICES ASSUME NEW b \in B
                 PROVE  Length(b) \in Nat
      OBVIOUS
    <3>1. PICK j \in 1 .. Len(Trace(x)) :
            \E i \in 1 .. Len(Trace(x)[j].dec) : b = Trace(x)[j].dec[i]
      BY <1>6, BlocksFinite
    <3>2. PICK i \in 1 .. Len(Trace(x)[j].dec) : b = Trace(x)[j].dec[i]
      BY <3>1
    <3>3. b \in Functions \X Nat /\ b[2] \in DOMAIN Code[b[1]].blocks
      BY <1>1, <3>2, TraceFacts
    <3> QED
      BY <3>3, LengthFacts
  <2>3. PICK h : SumsOf(h, B) /\ h[B] = FoldSet(LAMBDA b, n : n + Length(b), 0, B)
    <3> HIDE DEF B
    <3> QED
      BY <2>1, <2>2, SetSums
  <2>4. h[B] <= x.capacity["decInstr"]
    <3>1. Blocks(x) = B
      BY DEF Blocks, BlocksOf
    <3>2. Needs(x)["decInstr"] = FoldSet(LAMBDA b, n : n + Length(b), 0, Blocks(x))
      BY DEF Needs
    <3>3. Needs(x)["decInstr"] <= x.capacity["decInstr"]
      BY <1>2 DEF Ready, Fitting, Capacities
    <3> HIDE DEF B
    <3>4. Needs(x)["decInstr"] = h[B]
      BY <2>3, <3>1, <3>2
    <3> QED
      BY <3>3, <3>4
  <2>5. Len(y.decBB) = 0 /\ 1 .. 0 = {}
    BY <1>4
  <2>6. DecodedBlocks(y) = {}
    BY <2>5 DEF DecodedBlocks
  <2>7. Cardinality({}) = 0
    BY FS_EmptySet
  <2>8. DecodedOf(y, B, h)
    <3> HIDE DEF B
    <3> QED
      BY <1>4, <2>3, <2>4, <2>5, <2>6, <2>7 DEF DecodedOf, SumsOf
  <2> HIDE DEF B
  <2> QED
    BY <1>5, <2>8 DEF DecodedFits, B
<1>8. w.phase = "capture" /\ w.pos - 1 = 0
  BY DEF Frame
<1>9. Room(x, 0) = Hints(x)
  <2>1. Hints(x) + 0 = Hints(x)
    BY DEF Hints
  <2> QED
    BY <1>6, <2>1 DEF Room
<1> HIDE DEF w
<1>10. Promised(w, y)
  BY <1>4, <1>5, <1>7, <1>8, <1>9 DEF Promised
<1> QED
  BY <1>10 DEF w, y

----------------------------------------------------------------------------
(***************************************************************************)
(* The invariant                                                           *)
(***************************************************************************)

\* A rewriter on which a rewriting started is not fresh; one that was promised what
\* it needs has that, and is the only one.
FInv ==
  /\ returned = "code" /\ Clean(rw[Client]) /\ rw[Client].vreq = VR_None
  /\ \A i \in 1 .. Len(frames) :
       /\ rw[frames[i].r].fresh => rw[frames[i].r].dead
       /\ frames[i].promised => /\ Len(frames) = 1 /\ frames[i].r = Client
                                /\ Promised(frames[i], rw[Client])

\* A step of the innermost rewriting.
LEMMA MoveKeeps ==
  ASSUME IInv, TInv, FInv, Alive, frames # << >>,
         LET w == Head(frames)
         IN IF w.promised THEN Fulfils(w, rw[w.r]) ELSE Moves(w)
  PROVE  FInv'
<1> DEFINE w == Head(frames)
           x == rw[w.r]
           n == Len(frames)
<1>1. /\ n \in Nat /\ 1 \in 1 .. n /\ w = frames[1] /\ w \in Frames
      /\ w.r \in 1 .. Len(rw) /\ Len(rw) \in Nat /\ Client \in 1 .. Len(rw)
      /\ \A i \in 1 .. n : frames[i] \in Frames /\ frames[i].r \in 1 .. Len(rw)
  BY InnermostFacts, ClientOk
<1>2. PICK S : frames \in Seq(S)
  BY DEF IInv, Framed
<1>3. \A i \in 1 .. n : ~rw[frames[i].r].fresh
  BY <1>1 DEF FInv, Alive, IInv, Listed
<1>4. \A i \in 1 .. n : i # 1 => ~frames[i].promised
  BY <1>1 DEF FInv
<1>5. ASSUME NEW y, Steady(x, y), rw' = [rw EXCEPT ![w.r] = y]
      PROVE  /\ Clean(rw'[Client]) /\ rw'[Client].vreq = VR_None
             /\ rw'[w.r] = y /\ \A i \in 1 .. n : ~rw'[frames[i].r].fresh
  <2>1. \A q \in 1 .. Len(rw) : rw'[q] = IF q = w.r THEN y ELSE rw[q]
    <3> HIDE DEF w
    <3> QED
      BY <1>1, <1>5, ReplaceFacts
  <2>2. ~x.fresh
    BY <1>1, <1>3
  <2>3. ~y.fresh /\ y.vreq = x.vreq
    BY <1>5, <2>2 DEF Steady
  <2>4. Clean(rw[Client]) /\ rw[Client].vreq = VR_None
    BY DEF FInv
  <2> HIDE DEF w, n
  <2> QED
    BY <1>1, <1>3, <2>1, <2>3, <2>4 DEF Clean, x
<1>6. CASE w.promised
  <2>1. n = 1 /\ w.r = Client
    BY <1>1, <1>6 DEF FInv
  <2>2. PICK y : /\ Steady(x, y)
                 /\ \/ \E v : Resumes(w, v) /\ Promised(v, y) /\ Goes(v, y)
                    \/ Ends(w, y) /\ (w.call = "rewrite" => y.addr = "code")
    BY <1>6 DEF Fulfils
  <2>3. rw' = [rw EXCEPT ![w.r] = y]
    BY <2>2 DEF Goes, Ends, Resumes
  <2>4. /\ Clean(rw'[Client]) /\ rw'[Client].vreq = VR_None /\ rw'[Client] = y
        /\ \A i \in 1 .. n : ~rw'[frames[i].r].fresh
    BY <1>5, <2>1, <2>2, <2>3
  <2>5. CASE \E v : Resumes(w, v) /\ Promised(v, y) /\ Goes(v, y)
    <3>1. PICK v : Resumes(w, v) /\ Promised(v, y) /\ Goes(v, y)
      BY <2>5
    <3>2. frames' = [frames EXCEPT ![1] = v] /\ returned' = "code"
      BY <3>1 DEF Goes, FInv
    <3>3. Len(frames') = 1 /\ frames'[1] = v
      BY <1>1, <1>2, <2>1, <3>2
    <3>4. \A i \in 1 .. Len(frames') : i = 1
      BY <3>3
    <3>5. v.r = Client /\ ~y.fresh
      BY <1>1, <2>1, <2>4, <3>1 DEF Resumes
    <3> QED
      BY <2>4, <3>1, <3>2, <3>3, <3>4, <3>5 DEF FInv
  <2>6. CASE Ends(w, y) /\ (w.call = "rewrite" => y.addr = "code")
    <3>1. frames' = Tail(frames) /\ returned' = "code"
      BY <1>6, <2>6 DEF Ends, FInv
    <3>2. Len(frames') = 0
      BY <1>2, <2>1, <3>1
    <3>3. 1 .. Len(frames') = {}
      BY <3>2
    <3> QED
      BY <2>4, <3>1, <3>3 DEF FInv
  <2> QED
    BY <2>2, <2>5, <2>6
<1>7. CASE ~w.promised
  <2>1. \A i \in 1 .. n : ~frames[i].promised
    BY <1>1, <1>4, <1>7
  <2>2. PICK y : Steady(x, y) /\ ((\E v : Resumes(w, v) /\ Goes(v, y)) \/ Ends(w, y))
    BY <1>7 DEF Moves
  <2>3. rw' = [rw EXCEPT ![w.r] = y]
    BY <2>2 DEF Goes, Ends, Resumes
  <2>4. /\ Clean(rw'[Client]) /\ rw'[Client].vreq = VR_None /\ rw'[w.r] = y
        /\ \A i \in 1 .. n : ~rw'[frames[i].r].fresh
    BY <1>5, <2>2, <2>3
  <2>5. CASE \E v : Resumes(w, v) /\ Goes(v, y)
    <3>1. PICK v : Resumes(w, v) /\ Goes(v, y)
      BY <2>5
    <3>2. frames' = [frames EXCEPT ![1] = v] /\ returned' = "code"
      BY <3>1 DEF Goes, FInv
    <3>3. Len(frames') = n /\ \A i \in 1 .. n : frames'[i] = IF i = 1 THEN v ELSE frames[i]
      BY <1>1, <1>2, <3>2
    <3>4. \A i \in 1 .. n : frames'[i].r = frames[i].r /\ ~frames'[i].promised
      BY <1>1, <1>7, <2>1, <3>1, <3>3 DEF Resumes
    <3> QED
      BY <2>4, <3>2, <3>3, <3>4 DEF FInv
  <2>6. CASE Ends(w, y)
    <3>1. frames' = Tail(frames) /\ returned' = "code"
      BY <1>7, <2>6 DEF Ends, FInv
    <3>2. /\ Len(frames') = n - 1
          /\ \A i \in 1 .. n - 1 : frames'[i] = frames[i + 1] /\ i + 1 \in 1 .. n
      BY <1>1, <1>2, <3>1
    <3>3. \A i \in 1 .. n - 1 : ~rw'[frames'[i].r].fresh /\ ~frames'[i].promised
      BY <2>1, <2>4, <3>2
    <3> QED
      BY <2>4, <3>1, <3>2, <3>3 DEF FInv
  <2> QED
    BY <2>2, <2>5, <2>6
<1> QED
  BY <1>6, <1>7

\* Every step of a rewriting.
LEMMA RewritingFresh ==
  ASSUME IInv, TInv, FInv, Rewriting
  PROVE  FInv'
<1> DEFINE w == Head(frames)
           x == rw[w.r]
           t == Trace(x)[w.pos]
           m == Len(rw) + 1
           y == [x EXCEPT !.next = m]
           z == resetCapturing(newVariant(x, t.kernel))
           u == Frame(m, "rewrite", FALSE)
           Made == rw' = Append([rw EXCEPT ![w.r] = y], z) /\ frames' = << u >> \o frames
                   /\ returned' = returned
<1>1. frames # << >> /\ Alive
  BY DEF Rewriting
<1>2. /\ Len(frames) \in Nat /\ 1 \in 1 .. Len(frames) /\ w = frames[1]
      /\ w \in Frames /\ w.r \in 1 .. Len(rw) /\ Tables(x) /\ InProgress(w, x)
      /\ Len(rw) \in Nat /\ Client \in 1 .. Len(rw)
      /\ \A i \in 1 .. Len(frames) : frames[i] \in Frames /\ frames[i].r \in 1 .. Len(rw)
  BY <1>1, InnermostFacts, ClientOk
<1>3. \/ EmulateBlock(w, x, t) \/ CaptureBlock(w, x, t) \/ Redirect(w, x, t.kernel)
      \/ Vectorize(w, x) \/ Optimise(w, x) \/ GenerateBlock(w, x)
  BY DEF Rewriting
<1>4. Redirect(w, x, t.kernel) =>
        /\ w.phase = "redirect"
        /\ \/ \E q \in Variants(w.r, t.kernel) : Captured(w, redirect(x, t.kernel, rw[q]))
           \/ Made
  BY DEF Redirect
<1>5. w.promised => /\ Promised(w, x) /\ x.vreq = VR_None
                    /\ w.phase \in {"capture", "optimise", "generate"}
  BY <1>2 DEF FInv, Promised
<1>6. CASE w.promised
  <2>1. EmulateBlock(w, x, t) \/ CaptureBlock(w, x, t) \/ Optimise(w, x) \/ GenerateBlock(w, x)
    BY <1>3, <1>4, <1>5, <1>6 DEF Vectorize
  <2>2. Fulfils(w, x)
    BY <1>2, <1>5, <1>6, <2>1, EmulateFulfils, CaptureFulfils, OptimiseFulfils, GenerateFulfils
  <2> QED
    BY <1>1, <1>6, <2>2, MoveKeeps
<1>7. CASE ~w.promised /\ ~Made
  <2>1. Moves(w)
    <3> HIDE DEF Made, w
    <3> QED
      BY <1>2, <1>3, <1>4, <1>7, StepMoves
  <2> QED
    BY <1>1, <1>7, <2>1, MoveKeeps
<1>8. CASE ~w.promised /\ Made
  <2>1. \A i \in 1 .. Len(frames) : ~frames[i].promised /\ ~rw[frames[i].r].fresh
    <3>1. \A i \in 1 .. Len(frames) : ~rw[frames[i].r].fresh
      <4> HIDE DEF w, x
      <4> QED
        BY <1>1, <1>2 DEF FInv, Alive, IInv, Listed
    <3>2. ~frames[1].promised
      BY <1>2, <1>8
    <3>3. \A i \in 1 .. Len(frames) : frames[i].promised => i = 1
      <4> HIDE DEF w, x
      <4> QED
        BY <1>2 DEF FInv
    <3> QED
      BY <3>1, <3>2, <3>3
  <2>2. {"fresh", "vreq"} \subseteq DOMAIN x /\ ~x.fresh
    BY <1>2, <2>1 DEF Tables, Rewriters
  <2>3. ~y.fresh /\ y.vreq = x.vreq
    <3>1. Steady(x, y)
      <4> HIDE DEF m
      <4> QED
        BY <2>2, FieldsSteady
    <3> QED
      BY <2>2, <3>1 DEF Steady
  <2>4. z.fresh => z.dead
    <3> DEFINE a == newVariant(x, t.kernel)
    <3>1. "fresh" \in DOMAIN a /\ "dead" \in DOMAIN a
      BY DEF newVariant, setFunction, initRewriter, allocRewriter
    <3>2. z = resetCapturing(a)
      OBVIOUS
    <3> HIDE DEF a, z
    <3> QED
      BY <3>1, <3>2, ResetFresh
  <2>5. u.r = m /\ ~u.promised
    BY DEF Frame
  <2> HIDE DEF y, z, u, w
  <2>6. /\ rw'[m] = z /\ \A q \in 1 .. Len(rw) : rw'[q] = IF q = w.r THEN y ELSE rw[q]
    BY <1>2, <1>8, AppendFacts
  <2>7. /\ Len(frames') = Len(frames) + 1
        /\ \A i \in 1 .. Len(frames) + 1 : frames'[i] = IF i = 1 THEN u ELSE frames[i - 1]
    BY <1>8, StartFacts, Zenon
  <2>8. Clean(rw'[Client]) /\ rw'[Client].vreq = VR_None /\ returned' = "code"
    <3>1. Clean(rw[Client]) /\ rw[Client].vreq = VR_None /\ Clean(y)
      BY <2>3 DEF FInv, Clean
    <3>2. returned' = "code"
      BY <1>8 DEF FInv
    <3> QED
      BY <1>2, <2>3, <2>6, <3>1, <3>2 DEF x
  <2>9. ASSUME NEW i \in 1 .. Len(frames')
        PROVE  (rw'[frames'[i].r].fresh => rw'[frames'[i].r].dead) /\ ~frames'[i].promised
    <3>1. CASE i = 1
      <4>1. frames'[i] = u
        BY <2>7, <3>1
      <4> QED
        BY <2>4, <2>5, <2>6, <4>1
    <3>2. CASE i # 1
      <4> DEFINE k == i - 1
      <4>1. k \in 1 .. Len(frames) /\ frames'[i] = frames[k]
        BY <1>2, <2>7, <3>2
      <4> HIDE DEF k
      <4> QED
        BY <1>2, <2>1, <2>3, <2>6, <4>1
    <3> QED
      BY <3>1, <3>2
  <2> QED
    BY <2>8, <2>9 DEF FInv
<1> QED
  BY <1>6, <1>7, <1>8

\* A call of the API, which may start a rewriting on the client's rewriter.
LEMMA IdleFresh ==
  ASSUME IInv, FInv, Idle, NEW r \in {Client, DefaultRewriter}, NEW y,
         r = Client => Clean(y) /\ y.vreq = VR_None,
         rw' = [rw EXCEPT ![r] = y], returned' = returned,
         \/ frames' = << >>
         \/ /\ r = Client /\ (y.fresh => y.dead)
            /\ \E u : /\ u.r = Client /\ (u.promised => Promised(u, y))
                      /\ frames' = << u >>
  PROVE  FInv'
<1>1. Client \in 1 .. Len(rw) /\ DefaultRewriter \in 1 .. Len(rw) /\ Client # DefaultRewriter
  BY ClientOk DEF Client, DefaultRewriter
<1>2. rw'[Client] = IF r = Client THEN y ELSE rw[Client]
  BY <1>1, ReplaceFacts
<1>3. Clean(rw'[Client]) /\ rw'[Client].vreq = VR_None /\ returned' = "code"
  BY <1>2 DEF FInv
<1>4. CASE frames' = << >>
  <2>1. 1 .. Len(frames') = {}
    BY <1>4
  <2> QED
    BY <1>3, <2>1 DEF FInv
<1>5. CASE /\ r = Client /\ (y.fresh => y.dead)
           /\ \E u : /\ u.r = Client /\ (u.promised => Promised(u, y))
                     /\ frames' = << u >>
  <2>1. PICK u : u.r = Client /\ (u.promised => Promised(u, y)) /\ frames' = << u >>
    BY <1>5
  <2>2. Len(frames') = 1 /\ frames'[1] = u /\ \A i \in 1 .. Len(frames') : i = 1
    BY <2>1
  <2> QED
    BY <1>2, <1>3, <1>5, <2>1, <2>2 DEF FInv
<1> QED
  BY <1>4, <1>5

\* The calls on rewriter x keep it clean, and make it so when they set a function.
LEMMA CallsClean ==
  ASSUME NEW x, Tables(x), Clean(x), x.vreq = VR_None
  PROVE  /\ \A c : \A y \in {setDecodingCapacity(x, c), setCaptureCapacity(x, c),
                             [x EXCEPT !.cc = c], [x EXCEPT !.vectorsize = c],
                             [x EXCEPT !.addr = c], Dead(x)} :
              Clean(y) /\ y.vreq = VR_None
         /\ \A f \in Functions : \A y \in {setFunction(x, f), decodePrint(x, f)} :
              Clean(y) /\ y.vreq = VR_None
<1>1. x \in Rewriters /\ {"fresh", "vreq"} \subseteq DOMAIN x
  BY DEF Tables, Rewriters
<1>2. ASSUME NEW c
      PROVE  /\ \A y \in {[x EXCEPT !.cc = c], [x EXCEPT !.vectorsize = c],
                          [x EXCEPT !.addr = c]} :
                  Clean(y) /\ y.vreq = VR_None
  BY <1>1 DEF Rewriters, Clean
<1>3. Clean(Dead(x)) /\ Dead(x).vreq = VR_None
  BY <1>1 DEF Rewriters, Clean, Dead
<1>4. ASSUME NEW c
      PROVE  /\ \A y \in {setDecodingCapacity(x, c), setCaptureCapacity(x, c)} :
                  Clean(y) /\ y.vreq = VR_None
  BY <1>1 DEF Rewriters, Clean, setDecodingCapacity, setCaptureCapacity
<1>5. ASSUME NEW f \in Functions
      PROVE  Clean(setFunction(x, f)) /\ setFunction(x, f).vreq = VR_None
  <2> DEFINE y == initRewriter(x)
             z == setFunction(x, f)
  <2>1. /\ y.dec /\ y.cap /\ y.decBB = << >> /\ y.decInstrCount = 0 /\ y.genOrderCount = 0
        /\ y.order = {} /\ y.vreq = VR_None /\ DOMAIN y = DOMAIN x
    BY <1>1 DEF initRewriter, Rewriters
  <2>2. z = [y EXCEPT !.func = f, !.cc = cc_new, !.es = FALSE, !.fresh = TRUE]
    BY DEF setFunction
  <2> HIDE DEF y, z
  <2>3. /\ z.dec = y.dec /\ z.cap = y.cap /\ z.decBB = y.decBB
        /\ z.decInstrCount = y.decInstrCount /\ z.genOrderCount = y.genOrderCount
        /\ z.order = y.order /\ z.vreq = y.vreq /\ z.func = f
    BY <1>1, <2>1, <2>2 DEF Rewriters
  <2> QED
    BY <2>1, <2>3 DEF Clean, z
<1>6. ASSUME NEW f \in Functions
      PROVE  Clean(decodePrint(x, f)) /\ decodePrint(x, f).vreq = VR_None
  <2> DEFINE s == << >>
             b == << f, 1 >>
             z == [x EXCEPT !.decBB = s]
             y == decode(z, b)
  <2> HIDE DEF s, b
  <2>1. {"fresh", "vreq"} \subseteq DOMAIN z /\ z.vreq = VR_None
    BY <1>1 DEF Rewriters
  <2> HIDE DEF z
  <2>2. Steady(z, y)
    BY <2>1, EmulateSteady
  <2>3. {"fresh", "vreq"} \subseteq DOMAIN y /\ y.vreq = VR_None
    BY <2>1, <2>2 DEF Steady
  <2>4. decodePrint(x, f) = [y EXCEPT !.fresh = FALSE]
    BY DEF decodePrint, y, z, s, b
  <2> HIDE DEF y
  <2> QED
    BY <2>3, <2>4 DEF Clean
<1> QED
  BY <1>2, <1>3, <1>4, <1>5, <1>6

\* Every call of the API.
LEMMA CallFresh ==
  ASSUME IInv, TInv, FInv, API
  PROVE  FInv'
<1> DEFINE x == rw[Client]
<1>1. Idle => Tables(x) /\ Clean(x) /\ x.vreq = VR_None /\ ~x.dead
  BY IdleFacts, ClientOk DEF FInv, Idle, Alive, IInv, Listed
<1>2. ASSUME NEW y, Idle => Clean(y) /\ y.vreq = VR_None, Change(y)
      PROVE  FInv'
  <2>1. /\ Idle /\ rw' = [rw EXCEPT ![Client] = y] /\ frames' = << >> /\ returned' = returned
    BY <1>2 DEF Change, Idle
  <2> QED
    BY <1>2, <2>1, IdleFresh
<1>3. ASSUME NEW call, Opens(call)
      PROVE  FInv'
  <2> DEFINE y == resetCapturing(x)
             p == Sufficient(x)
             u == Frame(Client, call, p)
  <2>1. Idle /\ rw' = [rw EXCEPT ![Client] = y] /\ frames' = << u >> /\ returned' = returned
        /\ x.cc # NoConfig
    BY <1>3 DEF Opens
  <2>2. u.r = Client /\ u.promised = p
    BY DEF Frame
  <2>3. u.promised => Promised(u, y)
    <3> SUFFICES ASSUME p
                 PROVE  Promised(u, y)
      BY <2>2
    <3>1. u = Frame(Client, call, TRUE)
      BY DEF Frame
    <3> HIDE DEF u, x
    <3>2. Promised(Frame(Client, call, TRUE), y)
      BY <1>1, <2>1, StartPromised
    <3> QED
      BY <3>1, <3>2
  <2>4. Steady(x, y)
    <3>1. {"fresh", "vreq"} \subseteq DOMAIN x
      BY <1>1, <2>1 DEF Tables, Rewriters
    <3> QED
      BY <3>1, StagesSteady
  <2>5. y.fresh => y.dead
    <3>1. {"fresh", "dead"} \subseteq DOMAIN x
      BY <1>1, <2>1 DEF Tables, Rewriters
    <3> QED
      BY <3>1, ResetFresh
  <2>6. Clean(y) /\ y.vreq = VR_None
    <3>1. y.vreq = VR_None
      BY <1>1, <2>1, <2>4 DEF Steady
    <3> HIDE DEF y
    <3> QED
      BY <2>5, <3>1 DEF Clean
  <2> HIDE DEF y, u
  <2> QED
    BY <2>1, <2>2, <2>3, <2>5, <2>6, IdleFresh
<1> HIDE DEF x
<1>4. CASE dbrew_set_decoding_capacity
  BY <1>1, <1>2, <1>4, CallsClean DEF dbrew_set_decoding_capacity, x
<1>5. CASE dbrew_set_capture_capacity
  BY <1>1, <1>2, <1>5, CallsClean DEF dbrew_set_capture_capacity, x
<1>6. CASE dbrew_set_function
  BY <1>1, <1>2, <1>6, CallsClean, RewriterAssumption DEF dbrew_set_function, x
<1>7. CASE dbrew_set_vectorsize
  <2>1. PICK s \in {16, 32} : Change([x EXCEPT !.vectorsize = Least(s, MaxVectorBytes)])
    BY <1>7 DEF dbrew_set_vectorsize, x
  <2> DEFINE n == Least(s, MaxVectorBytes)
  <2> HIDE DEF n
  <2> QED
    BY <1>1, <1>2, <2>1, CallsClean DEF n
<1>8. CASE dbrew_decode_print
  BY <1>1, <1>2, <1>8, CallsClean, RewriterAssumption DEF dbrew_decode_print, x
<1>9. ASSUME NEW cc, Configure(cc)
      PROVE  FInv'
  BY <1>1, <1>2, <1>9, CallsClean DEF Configure, x
<1>10. CASE Change(Dead(x)) \/ Change([x EXCEPT !.addr = "func"])
  BY <1>1, <1>2, <1>10, CallsClean
<1>11. CASE dbrew_emulate \/ dbrew_rewrite
  BY <1>3, <1>10, <1>11 DEF dbrew_emulate, dbrew_rewrite, x
<1>12. CASE dbrew_rewrite_func
  <2>1. PICK f \in Shared :
          /\ Idle /\ frames' = frames /\ returned' = returned
          /\ rw' = [rw EXCEPT ![DefaultRewriter] = setFunction(rw[DefaultRewriter], f)]
    BY <1>12 DEF dbrew_rewrite_func
  <2> DEFINE y == setFunction(rw[DefaultRewriter], f)
  <2>2. frames' = << >> /\ DefaultRewriter # Client
    BY <2>1 DEF Idle, DefaultRewriter, Client
  <2> HIDE DEF y
  <2> QED
    BY <2>1, <2>2, IdleFresh DEF y
<1>13. CASE \/ dbrew_config_reset \/ dbrew_config_staticpar \/ dbrew_config_parcount
            \/ dbrew_config_function_setname \/ dbrew_config_function_setsize
            \/ dbrew_config_set_memrange
  BY <1>9, <1>13
     DEF dbrew_config_reset, dbrew_config_staticpar, dbrew_config_parcount,
         dbrew_config_function_setname, dbrew_config_function_setsize,
         dbrew_config_set_memrange
<1> QED
  BY <1>4, <1>5, <1>6, <1>7, <1>8, <1>10, <1>11, <1>12, <1>13 DEF API, Unconfigured, x

LEMMA FreshInvariant == Spec => [](IInv /\ TInv /\ FInv)
<1>1. Init => FInv
  <2> SUFFICES ASSUME Init
               PROVE  FInv
    OBVIOUS
  <2>1. rw[Client] = allocRewriter /\ 1 .. Len(frames) = {} /\ returned = "code"
    BY DEF Init, Client
  <2>2. ~allocRewriter.fresh /\ allocRewriter.vreq = VR_None
    BY DEF allocRewriter
  <2> QED
    BY <2>1, <2>2 DEF FInv, Clean
<1>2. IInv /\ TInv /\ FInv /\ [Next]_vars => FInv'
  <2> SUFFICES ASSUME IInv, TInv, FInv, [Next]_vars
               PROVE  FInv'
    OBVIOUS
  <2>1. CASE API
    BY <2>1, CallFresh
  <2>2. CASE Rewriting
    BY <2>2, RewritingFresh
  <2>3. CASE UNCHANGED vars
    BY <2>3 DEF vars, FInv
  <2> QED
    BY <2>1, <2>2, <2>3 DEF Next
<1> QED
  BY <1>1, <1>2, TablesInvariant, PTL DEF Spec

\* After a function is set, whatever calls and failed rewritings came before, and
\* whatever configuration follows, a rewriting whose needs fit into the capacities
\* neither ends the process nor gives up: for any functions and capacities. Its
\* blocks are each decoded once, there is room for copies of all it captures, and
\* for the code of all its blocks.
\* dbrew_set_function, initRewriter, resetCapturing, expr_newNode.
THEOREM StartsFresh == Spec => []FreshStart
<1>1. ASSUME IInv, FInv
      PROVE  FreshStart
  <2>1. DOMAIN frames = 1 .. Len(frames)
    BY <1>1 DEF IInv, Framed
  <2> QED
    BY <1>1, <2>1 DEF FInv, FreshStart, Promised, Ready
<1>2. IInv /\ FInv => FreshStart
  BY <1>1
<1> QED
  BY <1>2, FreshInvariant, PTL
=============================================================================
