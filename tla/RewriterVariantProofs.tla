----------------------- MODULE RewriterVariantProofs -----------------------
(***************************************************************************)
(* Variants of kernels: proofs for all functions, as long as no kernel is  *)
(* run on vectors within itself, and for any calls of the API.             *)
(***************************************************************************)
EXTENDS RewriterProofs, FiniteSetTheorems

----------------------------------------------------------------------------
(***************************************************************************)
(* The invariant                                                           *)
(***************************************************************************)

\* The rewriters behind each one in a list of them, which one without circles has.
Links(after, list) ==
  /\ after \in [0 .. Len(list) -> SUBSET (3 .. Len(list))] /\ after[0] = {}
  /\ \A r \in 1 .. Len(list) :
       /\ after[r] = IF list[r].next = 0 THEN {} ELSE {list[r].next} \cup after[list[r].next]
       /\ r \notin after[r]
Linked(after) == Links(after, rw)

\* Variants are all in the client's list, each for something else.
Distinct(after) ==
  /\ \A q \in 3 .. Len(rw) : rw[q].cs /\ q \in after[Client]
  /\ \A p, q \in 3 .. Len(rw) : rw[p].func = rw[q].func /\ rw[p].vreq = rw[q].vreq => p = q

\* What a rewriter has calls to, in its code or what it captures.
Asked(x) == x.calls \cup x.code.callees

\* Behind rewriter r is a finished variant for callee c.
Serves(x, c) == x.func = c.func /\ x.vreq = c.vreq /\ x.addr = "code" /\ ~x.dead
Served(after, r, c) ==
  c.vreq = VR_None \/ \E q \in after[r] : Serves(rw[q], c) /\ ~BeingRewritten(q)
AllServed(after) == \A r \in 1 .. Len(rw) : \A c \in Asked(rw[r]) : Served(after, r, c)

\* A rewriting waits for that of the next rewriter in the list, for a kernel it has;
\* behind the innermost one are the variants that are finished.
HasKernel(x, f) == \E t \in Range(Trace(x)) : t.kernel.func = f
Nested(after) ==
  /\ \A i \in 1 .. Len(frames) : frames[i].r # DefaultRewriter
  /\ \A i \in 1 .. Len(frames) - 1 :
       /\ rw[frames[i + 1].r].next = frames[i].r
       /\ HasKernel(rw[frames[i + 1].r], rw[frames[i].r].func)
  /\ frames # << >> =>
       \A q \in 3 .. Len(rw) : BeingRewritten(q) <=> q \notin after[frames[1].r]

Serving(after) == Linked(after) /\ Distinct(after) /\ AllServed(after) /\ Nested(after)

VInv == \E after : Serving(after)

----------------------------------------------------------------------------
(***************************************************************************)
(* The list of rewriters                                                   *)
(***************************************************************************)

\* The rewriters behind each one are those that Related gives: where they differ
\* first, counted from the end of the list, what is behind them is the same.
LEMMA RelatedIs ==
  ASSUME IInv, TInv, NEW after, Linked(after)
  PROVE  Related = after
<1> DEFINE N == Len(rw)
           Behind(g, r) == IF r = 0 \/ rw[r].next = 0 THEN {} ELSE {rw[r].next} \cup g[rw[r].next]
           Equation(g) == g = [r \in 0 .. N |-> Behind(g, r)]
           g == Related
<1>1. N \in Nat /\ \A r \in 1 .. N : rw[r].next \in {0} \cup (3 .. N)
  BY DEF IInv, TInv, Listed
<1>2. Equation(after)
  <2>1. \A r \in 0 .. N : after[r] = Behind(after, r)
    <3>1. \A r \in 0 .. N : r = 0 \/ r \in 1 .. N
      BY <1>1
    <3> QED
      BY <3>1 DEF Linked, Links
  <2> HIDE DEF Behind
  <2> QED
    BY <2>1 DEF Linked, Links
<1>3. Related = CHOOSE h : Equation(h)
  BY DEF Related
<1>4. Equation(g)
  <2> HIDE DEF Equation
  <2> QED
    BY <1>2, <1>3
<1> DEFINE Wrong == { r \in 0 .. N : g[r] # after[r] }
           Sizes == { Cardinality(after[r]) : r \in Wrong }
<1>5. Wrong = {}
  <2> SUFFICES ASSUME Wrong # {}
               PROVE  FALSE
    OBVIOUS
  <2>1. \A r \in 0 .. N : IsFiniteSet(after[r]) /\ Cardinality(after[r]) \in Nat
    <3>1. IsFiniteSet(3 .. N)
      BY <1>1, FS_Interval
    <3>2. \A r \in 0 .. N : after[r] \subseteq 3 .. N
      BY DEF Linked, Links
    <3> QED
      BY <3>1, <3>2, FS_Subset, FS_CardinalityType
  <2>2. Sizes \subseteq Nat /\ Sizes # {}
    BY <2>1
  <2>3. PICK r \in Wrong : \A q \in Wrong : Cardinality(after[r]) <= Cardinality(after[q])
    <3> HIDE DEF Wrong
    <3>1. PICK s \in Sizes : \A t \in Sizes : s <= t
      <4> HIDE DEF Sizes
      <4> QED
        BY <2>2, LeastNatural
    <3> QED
      BY <3>1
  <2>4. r # 0 /\ rw[r].next # 0
    <3>1. g[r] = Behind(g, r) /\ after[r] = Behind(after, r)
      <4> HIDE DEF Behind, g
      <4> QED
        BY <1>2, <1>4, <2>3
    <3> QED
      BY <2>3, <3>1
  <2> DEFINE q == rw[r].next
  <2>5. q \in 0 .. N /\ r \in 1 .. N /\ q \in 1 .. N
    BY <1>1, <2>3, <2>4
  <2>6. after[r] = after[q] \cup {q} /\ q \notin after[q]
    BY <2>4, <2>5 DEF Linked, Links
  <2>7. g[r] = g[q] \cup {q}
    <3>1. g[r] = Behind(g, r)
      <4> HIDE DEF Behind, g
      <4> QED
        BY <1>4, <2>3
    <3> QED
      BY <2>4, <3>1
  <2>8. Cardinality(after[r]) = Cardinality(after[q]) + 1
    BY <2>1, <2>5, <2>6, FS_AddElement
  <2>9. q \notin Wrong
    <3> DEFINE m == Cardinality(after[q])
               n == Cardinality(after[r])
    <3>1. m \in Nat /\ n = m + 1
      BY <2>1, <2>5, <2>8
    <3> HIDE DEF m, n
    <3>2. ~(n <= m)
      BY <3>1
    <3> HIDE DEF Wrong
    <3> QED
      BY <2>3, <3>2 DEF m, n
  <2> HIDE DEF g
  <2> QED
    BY <2>3, <2>5, <2>6, <2>7, <2>9
<1>6. \A r \in 0 .. N : g[r] = after[r]
  BY <1>5
<1>7. DOMAIN g = 0 .. N
  <2> HIDE DEF Behind, g
  <2> QED
    BY <1>4
<1>8. g = [r \in 0 .. N |-> g[r]]
  <2> HIDE DEF Behind, g
  <2> QED
    BY <1>4
<1>9. after = [r \in 0 .. N |-> after[r]]
  BY DEF Linked, Links
<1> HIDE DEF g
<1>10. g = after
  BY <1>6, <1>8, <1>9
<1> QED
  BY <1>10 DEF g

LEMMA SameLinks ==
  ASSUME NEW s, NEW t, NEW after, Links(after, s), Len(t) = Len(s),
         \A q \in 1 .. Len(s) : t[q].next = s[q].next
  PROVE  Links(after, t)
<1>1. \A r \in 1 .. Len(t) :
        /\ after[r] = IF t[r].next = 0 THEN {} ELSE {t[r].next} \cup after[t[r].next]
        /\ r \notin after[r]
  <2> TAKE r \in 1 .. Len(t)
  <2>1. /\ after[r] = IF s[r].next = 0 THEN {} ELSE {s[r].next} \cup after[s[r].next]
        /\ r \notin after[r] /\ t[r].next = s[r].next
    BY DEF Links
  <2> QED
    BY <2>1
<1> QED
  BY <1>1 DEF Links

\* A rewriter n is put behind r: it comes behind all those that r is behind, too.
Inserted(after, r, f, s, t) ==
  /\ Links(f, t)
  /\ \A q \in 1 .. Len(s) : after[q] \subseteq f[q]
  /\ f[Len(s) + 1] = after[r]
  /\ \A q \in 1 .. Len(s) : q = r \/ r \in after[q] => Len(s) + 1 \in f[q]

LEMMA InsertLinks ==
  ASSUME NEW s, NEW t, NEW after, Links(after, s), NEW r \in 1 .. Len(s),
         Len(s) \in Nat, Len(s) >= 2,
         \A q \in 1 .. Len(s) : s[q].next \in {0} \cup (3 .. Len(s)),
         Len(t) = Len(s) + 1, t[Len(s) + 1].next = s[r].next, t[r].next = Len(s) + 1,
         \A q \in 1 .. Len(s) : q # r => t[q].next = s[q].next
  PROVE  \E f : Inserted(after, r, f, s, t)
<1> DEFINE N == Len(s)
           n == N + 1
           Reaches(q) == q = r \/ r \in after[q]
           F == [q \in 0 .. n |-> IF q = n THEN after[r]
                                  ELSE IF Reaches(q) THEN after[q] \cup {n} ELSE after[q]]
<1>1. N \in Nat /\ N >= 2 /\ \A q \in 1 .. N : s[q].next \in {0} \cup (3 .. N)
  OBVIOUS
<1>2. /\ n \in Nat /\ n \in 3 .. n /\ n # 0 /\ n \notin 1 .. N /\ n \notin 3 .. N
      /\ 0 .. n = (0 .. N) \cup {n} /\ 1 .. n = (1 .. N) \cup {n} /\ 3 .. N \subseteq 3 .. n
      /\ 0 .. N = (1 .. N) \cup {0} /\ 3 .. N \subseteq 1 .. N /\ 0 \notin 1 .. N /\ n \notin 0 .. N
  BY <1>1
<1>3. /\ after \in [0 .. N -> SUBSET (3 .. N)] /\ after[0] = {}
      /\ \A q \in 1 .. N :
           /\ after[q] = IF s[q].next = 0 THEN {} ELSE {s[q].next} \cup after[s[q].next]
           /\ q \notin after[q]
  BY DEF Links
<1>4. /\ Len(t) = n /\ t[r].next = n /\ t[n].next = s[r].next
      /\ r \in 1 .. N /\ \A q \in 1 .. N : q # r => t[q].next = s[q].next
  OBVIOUS
<1> HIDE DEF n, N
<1> PICK f : f = F
  OBVIOUS
<1>5. f \in [0 .. n -> SUBSET (3 .. n)]
  <2>1. \A q \in 0 .. N : after[q] \in SUBSET (3 .. n) /\ after[q] \cup {n} \in SUBSET (3 .. n)
    BY <1>2, <1>3
  <2>2. r \in 0 .. N
    BY <1>2, <1>4
  <2> QED
    BY <1>2, <2>1, <2>2
<1>6. f[0] = {}
  BY <1>2, <1>3
<1>7. /\ f[n] = after[r]
      /\ \A q \in 1 .. N : f[q] = IF Reaches(q) THEN after[q] \cup {n} ELSE after[q]
  BY <1>2
<1> HIDE DEF F
<1>8. ASSUME NEW q \in 1 .. n
      PROVE  /\ f[q] = IF t[q].next = 0 THEN {} ELSE {t[q].next} \cup f[t[q].next]
             /\ q \notin f[q]
  <2> DEFINE k == t[q].next
  <2>1. CASE q = n
    <3>1. k = s[r].next /\ q \notin f[q]
      BY <1>2, <1>3, <1>4, <1>7, <2>1
    <3>2. CASE k # 0
      <4>1. k \in 1 .. N /\ k \in after[r] /\ k # r /\ after[k] \subseteq after[r]
        <5>1. k \in 3 .. N /\ after[r] = {k} \cup after[k]
          BY <1>1, <1>3, <1>4, <3>1, <3>2
        <5> QED
          BY <1>2, <1>3, <1>4, <5>1
      <4>2. ~Reaches(k)
        BY <1>3, <1>4, <4>1
      <4>3. f[k] = after[k] /\ f[q] = after[r]
        BY <1>7, <2>1, <4>1, <4>2
      <4>4. after[r] = {k} \cup after[k]
        BY <1>3, <1>4, <3>1, <3>2
      <4> QED
        BY <3>1, <3>2, <4>3, <4>4
    <3> QED
      <4>1. CASE k = 0
        BY <1>3, <1>4, <1>7, <2>1, <3>1, <4>1
      <4> QED
        BY <3>2, <4>1
  <2>2. CASE q = r
    <3>1. k = n /\ f[q] = after[r] \cup {n} /\ f[k] = after[r]
      BY <1>4, <1>7, <2>2
    <3>2. n # 0 /\ n # r /\ r \notin after[r]
      BY <1>2, <1>3, <1>4
    <3> QED
      BY <2>2, <3>1, <3>2
  <2>3. CASE q # n /\ q # r
    <3>1. q \in 1 .. N /\ k = s[q].next
      BY <1>2, <1>4, <2>3
    <3>2. q \notin f[q]
      <4>1. q \notin after[q] /\ (f[q] = after[q] \/ f[q] = after[q] \cup {n})
        BY <1>3, <1>7, <3>1
      <4> QED
        BY <2>3, <4>1
    <3>3. CASE k = 0
      BY <1>3, <1>7, <2>3, <3>1, <3>3
    <3>4. CASE k # 0
      <4>1. k \in 1 .. N /\ after[q] = {k} \cup after[k]
        BY <1>1, <1>2, <1>3, <3>1, <3>4
      <4>2. Reaches(q) <=> Reaches(k)
        BY <2>3, <4>1
      <4> QED
        BY <1>7, <3>1, <3>2, <3>4, <4>1, <4>2
    <3> QED
      BY <3>3, <3>4
  <2> QED
    BY <2>1, <2>2, <2>3
<1>9. Links(f, t)
  <2>1. Len(t) = n
    BY <1>4
  <2> QED
    BY <1>5, <1>6, <1>8, <2>1 DEF Links
<1>10. \A q \in 1 .. N : after[q] \subseteq f[q] /\ (Reaches(q) => n \in f[q])
  <2> QED
    BY <1>7
<1>11. Inserted(after, r, f, s, t)
  BY <1>7, <1>9, <1>10 DEF n, N, Inserted
<1> QED
  BY <1>11

----------------------------------------------------------------------------
(***************************************************************************)
(* What the operations on a rewriter keep                                  *)
(***************************************************************************)

\* What others know of a rewriter.
Fields == {"next", "func", "vreq", "cs", "calls", "code"}

\* The list stays, and no calls are added.
CallsStay(x, y) == y.next = x.next /\ Asked(y) \subseteq Asked(x)

\* What the variant is for and the storage for code stay, too.
Kept(x, y) ==
  /\ Fields \subseteq DOMAIN y /\ CallsStay(x, y)
  /\ y.func = x.func /\ y.vreq = x.vreq /\ (x.cs => y.cs)

LEMMA KeptTwice ==
  ASSUME NEW x, NEW y, NEW z, Kept(x, y), Kept(y, z)
  PROVE  Kept(x, z)
BY DEF Kept, CallsStay

\* Fields others do not know of.
LEMMA FieldsKept ==
  ASSUME NEW x, Fields \subseteq DOMAIN x
  PROVE  /\ Kept(x, x) /\ Kept(x, Dead(x)) /\ Kept(x, [x EXCEPT !.addr = "func"])
         /\ \A i, j, k : /\ Kept(x, [x EXCEPT !.cc = i])
                         /\ Kept(x, [x EXCEPT !.capBBCount = i, !.capBB = j])
                         /\ Kept(x, [x EXCEPT !.decBB = i, !.decInstrCount = j])
                         /\ Kept(x, [x EXCEPT !.capInstrCount = i, !.capBB = j])
                         /\ Kept(x, [x EXCEPT !.capBB = i, !.capInstrCount = j, !.jccs = k])
                         /\ Kept(x, [x EXCEPT !.capBBCount = i, !.jccs = j, !.placed = k])
                         /\ Kept(x, [x EXCEPT !.genOrderCount = i, !.order = j, !.ordered = k])
                         /\ Kept(x, [x EXCEPT !.addr = i, !.passes = j])
BY DEF Kept, CallsStay, Asked, Fields, Dead

\* Empty tables, and storage if there is room for code.
LEMMA InitKept ==
  ASSUME NEW x, Fields \subseteq DOMAIN x
  PROVE  Kept(x, initRewriter(x))
BY DEF initRewriter, Kept, CallsStay, Asked, Fields

\* Decoding a block, and emulating it.
LEMMA EmulateKept ==
  ASSUME NEW x, Fields \subseteq DOMAIN x, NEW b
  PROVE  Kept(x, decode(x, b)) /\ Kept(x, emulateBlock(x, b))
<1> DEFINE u == IF x.dec THEN x ELSE initRewriter(x)
           cc == cc_get(u.cc)
           v == [u EXCEPT !.cc = cc]
           n == Least(Length(b), v.capacity["decInstr"] - v.decInstrCount)
           decBB == Append(v.decBB, [ block |-> b, count |-> n ])
           count == v.decInstrCount + n
           z == [v EXCEPT !.decBB = decBB, !.decInstrCount = count]
           y == decode(x, b)
<1>1. Kept(x, u)
  BY FieldsKept, InitKept
<1>2. Kept(u, v)
  <2> HIDE DEF u, cc
  <2> QED
    BY <1>1, FieldsKept DEF Kept
<1>3. Kept(x, v)
  BY <1>1, <1>2, KeptTwice
<1>4. y = v \/ y = Dead(v) \/ y = z
  BY DEF decode
<1> HIDE DEF u, v, n, decBB, count
<1>5. Kept(v, v) /\ Kept(v, Dead(v)) /\ Kept(v, z)
  <2>1. Fields \subseteq DOMAIN v
    BY <1>3 DEF Kept
  <2>2. Kept(v, v) /\ Kept(v, Dead(v))
    BY <2>1, FieldsKept
  <2>3. Kept(v, z)
    BY <2>1 DEF Kept, CallsStay, Asked, Fields
  <2> QED
    BY <2>2, <2>3
<1> HIDE DEF y, z
<1>6. Kept(x, y)
  BY <1>3, <1>4, <1>5, KeptTwice
<1>7. Kept(y, y) /\ Kept(y, Dead(y))
  BY <1>6, FieldsKept DEF Kept
<1>8. emulateBlock(x, b) = y \/ emulateBlock(x, b) = Dead(y)
  BY DEF emulateBlock, y
<1> QED
  BY <1>6, <1>7, <1>8, KeptTwice DEF y

\* What is captured, and copied.
LEMMA CaptureKept ==
  ASSUME NEW x, Fields \subseteq DOMAIN x
  PROVE  /\ \A n : /\ Kept(x, getCaptureBBs(x, n))
                   /\ Kept(x, [getCaptureBBs(x, n) EXCEPT !.capBBCount = 0, !.capBB = << >>])
         /\ \A t : Kept(x, captureBlock(x, t))
         /\ \A i : Kept(x, optPass(x, i))
         /\ Kept(x, vecPass(x))
<1>1. \A i : Kept(x, optPassCopy(x, i))
  BY FieldsKept DEF optPassCopy
<1>2. \A n : Kept(x, getCaptureBBs(x, n))
  BY FieldsKept DEF getCaptureBBs
<1>3. ASSUME NEW n
      PROVE  Kept(x, [getCaptureBBs(x, n) EXCEPT !.capBBCount = 0, !.capBB = << >>])
  <2> DEFINE y == getCaptureBBs(x, n)
             z == [y EXCEPT !.capBBCount = 0, !.capBB = << >>]
  <2>1. Kept(x, y) /\ Fields \subseteq DOMAIN y
    BY <1>2 DEF Kept
  <2> HIDE DEF y
  <2>2. Kept(y, z)
    BY <2>1, FieldsKept
  <2> HIDE DEF z
  <2>3. Kept(x, z)
    BY <2>1, <2>2, KeptTwice
  <2> QED
    BY <2>3 DEF y, z
<1>4. ASSUME NEW t
      PROVE  Kept(x, captureBlock(x, t))
  <2> DEFINE y == getCaptureBBs(x, t.new)
             s == Append(y.capBB, [ instr |-> IF y.capBB = << >> THEN 0 ELSE x.capInstrCount,
                                    count |-> IF y.capBB = << >> THEN t.out + Hints(x)
                                              ELSE t.out ])
             i == y.capInstrCount + t.out
             j == y.jccs \cup ({t.jcc} \ {0})
             z == [y EXCEPT !.capBB = s, !.capInstrCount = i, !.jccs = j]
  <2>1. Kept(x, y) /\ Fields \subseteq DOMAIN y
    BY <1>2 DEF Kept
  <2>2. captureBlock(x, t) = z
    BY DEF captureBlock
  <2> HIDE DEF y, s, i, j
  <2>3. Kept(y, z)
    BY <2>1, FieldsKept
  <2> HIDE DEF z
  <2> QED
    BY <2>1, <2>2, <2>3, KeptTwice
<1> QED
  BY <1>1, <1>2, <1>3, <1>4, FieldsKept DEF optPass, vecPass

\* Code has no other calls than those captured.
LEMMA GenerateKept ==
  ASSUME NEW x, Fields \subseteq DOMAIN x
  PROVE  \A i : /\ Kept(x, generate(x, i)) /\ Kept(x, link(generate(x, i)))
                /\ Kept(x, [intoOrder(x, i) EXCEPT !.code = NoCode])
<1> SUFFICES ASSUME NEW i
             PROVE  /\ Kept(x, generate(x, i)) /\ Kept(x, link(generate(x, i)))
                    /\ Kept(x, [intoOrder(x, i) EXCEPT !.code = NoCode])
  OBVIOUS
<1> DEFINE z == intoOrder(x, i)
<1>1. Kept(x, z) /\ Fields \subseteq DOMAIN z /\ z.calls = x.calls
  <2>1. Kept(x, z)
    BY FieldsKept DEF intoOrder
  <2>2. z.calls = x.calls
    BY DEF intoOrder, Fields
  <2> QED
    BY <2>1, <2>2 DEF Kept
<1>2. ASSUME NEW size
      PROVE  LET y == [z EXCEPT !.code = [ func |-> x.func, static |-> x.cc.static,
                                           blocks |-> i, size |-> size, stale |-> FALSE,
                                           callees |-> x.calls ]]
             IN Kept(z, y) /\ Kept(z, link(y))
  <2> DEFINE code == [ func |-> x.func, static |-> x.cc.static, blocks |-> i,
                       size |-> size, stale |-> FALSE, callees |-> x.calls ]
             y == [z EXCEPT !.code = code]
  <2>1. y.code = code /\ code.callees = x.calls
    BY <1>1 DEF Fields
  <2>2. Kept(z, y)
    <3> HIDE DEF z, code
    <3> QED
      BY <1>1, <2>1 DEF Kept, CallsStay, Asked, Fields
  <2>3. Kept(z, link(y))
    <3> DEFINE c == [code EXCEPT !.stale = Stale(y) # {}]
               placed == y.placed \cup DOMAIN y.capBB
               passes == y.passes /\ y.genOrderCount < GENORDER_MAX
               u == [y EXCEPT !.placed = placed, !.code = c, !.addr = "code",
                              !.passes = passes]
    <3>1. c.callees = x.calls
      OBVIOUS
    <3>2. Fields \subseteq DOMAIN y
      BY <1>1
    <3>3. link(y) = u
      <4>1. [y EXCEPT !.placed = placed].code = code
        BY <2>1, <3>2 DEF Fields
      <4>2. link(y) = [y EXCEPT !.placed = placed, !.code.stale = Stale(y) # {},
                                !.addr = "code", !.passes = passes]
        BY DEF link
      <4> HIDE DEF y, code, placed, passes
      <4> QED
        BY <4>1, <4>2
    <3> HIDE DEF z, code, c, placed, passes
    <3>4. /\ Fields \subseteq DOMAIN u /\ u.next = z.next /\ u.func = z.func
          /\ u.vreq = z.vreq /\ u.cs = z.cs /\ u.calls = z.calls /\ u.code = c
      BY <1>1, <3>2 DEF Fields
    <3> HIDE DEF u
    <3>5. Kept(z, u)
      BY <1>1, <3>1, <3>4 DEF Kept, CallsStay, Asked
    <3> QED
      BY <3>3, <3>5
  <2> QED
    BY <2>2, <2>3
<1>3. \E size : generate(x, i) = [z EXCEPT !.code = [ func |-> x.func, static |-> x.cc.static,
                                                     blocks |-> i, size |-> size,
                                                     stale |-> FALSE, callees |-> x.calls ]]
  BY DEF generate
<1>4. Kept(z, [z EXCEPT !.code = NoCode])
  <2> HIDE DEF z
  <2> QED
    BY <1>1 DEF NoCode, Kept, CallsStay, Asked, Fields
<1> HIDE DEF z
<1>5. Kept(z, generate(x, i)) /\ Kept(z, link(generate(x, i)))
  BY <1>2, <1>3
<1> QED
  BY <1>1, <1>4, <1>5, KeptTwice DEF z

\* The start of capturing forgets calls, but not those of the code.
LEMMA ResetKept ==
  ASSUME NEW x, Fields \subseteq DOMAIN x
  PROVE  Kept(x, resetCapturing(x))
<1> DEFINE n == x.cc.parCount
           u == [x EXCEPT !.capBBCount = 0]
           z == getCaptureBBs(u, 1)
           y == [z EXCEPT !.es = TRUE, !.capBB = << >>, !.capInstrCount = Hints(x),
                          !.calls = {}, !.ePool = @ + n, !.fresh = FALSE]
<1>1. Kept(x, u)
  BY DEF Kept, CallsStay, Asked, Fields
<1>2. Kept(u, z)
  <2> HIDE DEF u
  <2> QED
    BY <1>1, CaptureKept DEF Kept
<1>3. Kept(z, y)
  <2> HIDE DEF z
  <2> QED
    BY <1>2 DEF Kept, CallsStay, Asked, Fields
<1>4. resetCapturing(x) = y \/ resetCapturing(x) = Dead(x)
  BY DEF resetCapturing
<1> HIDE DEF u, z, y
<1>5. Kept(x, y)
  BY <1>1, <1>2, <1>3, KeptTwice
<1> QED
  BY <1>4, <1>5, FieldsKept

\* Calls of the API.
LEMMA CallsKept ==
  ASSUME NEW x, Fields \subseteq DOMAIN x
  PROVE  /\ \A f : CallsStay(x, setFunction(x, f)) /\ CallsStay(x, decodePrint(x, f))
         /\ \A c : /\ CallsStay(x, setDecodingCapacity(x, c))
                   /\ CallsStay(x, setCaptureCapacity(x, c))
                   /\ CallsStay(x, [x EXCEPT !.vectorsize = c])
<1>1. ASSUME NEW f
      PROVE  CallsStay(x, setFunction(x, f))
  <2> DEFINE y == initRewriter(x)
  <2>1. Fields \subseteq DOMAIN y /\ CallsStay(x, y)
    BY InitKept DEF Kept
  <2> HIDE DEF y
  <2>2. CallsStay(y, [y EXCEPT !.func = f, !.cc = cc_new, !.es = FALSE, !.fresh = TRUE])
    BY <2>1 DEF CallsStay, Asked, Fields
  <2> QED
    BY <2>1, <2>2 DEF setFunction, CallsStay, y
<1>2. ASSUME NEW f
      PROVE  CallsStay(x, decodePrint(x, f))
  <2> DEFINE z == [x EXCEPT !.decBB = << >>]
             b == << f, 1 >>
             y == decode(z, b)
  <2>1. Fields \subseteq DOMAIN z /\ CallsStay(x, z)
    BY DEF CallsStay, Asked, Fields
  <2> HIDE DEF z, b
  <2>2. Fields \subseteq DOMAIN y /\ CallsStay(z, y)
    BY <2>1, EmulateKept DEF Kept
  <2> HIDE DEF y
  <2>3. CallsStay(y, [y EXCEPT !.fresh = FALSE])
    BY <2>2 DEF CallsStay, Asked, Fields
  <2> QED
    BY <2>1, <2>2, <2>3 DEF decodePrint, CallsStay, y, z, b
<1>3. ASSUME NEW c
      PROVE  /\ CallsStay(x, setDecodingCapacity(x, c))
             /\ CallsStay(x, setCaptureCapacity(x, c))
             /\ CallsStay(x, [x EXCEPT !.vectorsize = c])
  BY DEF setDecodingCapacity, setCaptureCapacity, NoCode, CallsStay, Asked, Fields
<1> QED
  BY <1>1, <1>2, <1>3

----------------------------------------------------------------------------
(***************************************************************************)
(* Steps of the innermost rewriting, but for a new variant                 *)
(***************************************************************************)

\* The rewriter of w becomes y: its calls are those from before, or are served.
Becomes(after, w, y) ==
  LET x == rw[w.r]
  IN /\ Fields \subseteq DOMAIN y
     /\ y.next = x.next /\ y.func = x.func /\ y.vreq = x.vreq /\ (x.cs => y.cs)
     /\ \A c \in Asked(y) : c \in Asked(x) \/ Served(after, w.r, c)

Proceeds(after, w) ==
  \E y : /\ Becomes(after, w, y)
         /\ (\E v : v.r = w.r /\ Goes(v, y)) \/ Ends(w, y)

LEMMA KeptBecomes ==
  ASSUME NEW after, NEW w, NEW y, NEW z, Kept(y, z), y = rw[w.r] \/ Becomes(after, w, y)
  PROVE  Becomes(after, w, z)
BY DEF Kept, CallsStay, Becomes

\* All ways in which a step may end.
LEMMA OutcomeProceeds ==
  ASSUME NEW after, NEW w \in Frames, NEW y, Becomes(after, w, y),
         \/ Captured(w, y) \/ Stops(w, y) \/ Dies(w, y) \/ Ends(w, y)
         \/ \E v : v.r = w.r /\ Goes(v, y)
  PROVE  Proceeds(after, w)
<1>1. \A p, k, n : /\ [w EXCEPT !.phase = p, !.pos = k, !.emulated = n].r = w.r
                   /\ [w EXCEPT !.phase = p, !.pos = k].r = w.r
  BY DEF Frames
<1>2. CASE Captured(w, y)
  <2>1. Ends(w, y) \/ \E v : v.r = w.r /\ Goes(v, y)
    <3> DEFINE n == w.pos + 1
               p == IF y.vreq = VR_None THEN "optimise" ELSE "vectorize"
               u == [w EXCEPT !.phase = "capture", !.pos = n, !.emulated = 0]
               v == [w EXCEPT !.phase = p, !.pos = 1]
    <3>1. Goes(u, y) \/ Ends(w, y) \/ Goes(v, y)
      BY <1>2 DEF Captured
    <3>2. u.r = w.r /\ v.r = w.r
      BY <1>1
    <3> HIDE DEF u, v
    <3> QED
      BY <3>1, <3>2
  <2> QED
    BY <2>1 DEF Proceeds
<1>3. Fields \subseteq DOMAIN y
  BY DEF Becomes
<1>4. CASE Stops(w, y)
  <2> DEFINE z == IF w.call = "emulate" THEN y ELSE [y EXCEPT !.addr = "func"]
  <2>1. Kept(y, z)
    BY <1>3, FieldsKept
  <2>2. Ends(w, z)
    BY <1>4 DEF Stops
  <2> HIDE DEF z
  <2>3. Becomes(after, w, z)
    BY <2>1, KeptBecomes
  <2> QED
    BY <2>2, <2>3 DEF Proceeds
<1>5. CASE Dies(w, y)
  <2>1. Becomes(after, w, Dead(y))
    BY <1>3, FieldsKept, KeptBecomes
  <2> QED
    BY <1>5, <2>1 DEF Proceeds, Dies
<1> QED
  BY <1>2, <1>4, <1>5 DEF Proceeds

\* A call that is redirected to a variant is served by it.
LEMMA RedirectBecomes ==
  ASSUME IInv, TInv, Alive, frames # << >>, NEW after, Serving(after),
         NEW kernel, NEW q \in Variants(Head(frames).r, kernel)
  PROVE  Becomes(after, Head(frames), redirect(rw[Head(frames).r], kernel, rw[q]))
<1> DEFINE w == Head(frames)
           x == rw[w.r]
           c == [ func |-> kernel.func,
                  vreq |-> IF rw[q].addr = "func" THEN VR_None ELSE vreqOf(x, kernel) ]
           calls == x.calls \cup {c}
           z == [x EXCEPT !.calls = calls]
           y == redirect(x, kernel, rw[q])
<1>1. w = frames[1] /\ w.r \in 1 .. Len(rw) /\ Tables(x) /\ Len(rw) \in Nat
  BY InnermostFacts
<1>2. Fields \subseteq DOMAIN x
  BY <1>1 DEF Tables, Rewriters, Fields
<1>3. q \in after[w.r] /\ rw[q].vreq = vreqOf(x, kernel) /\ rw[q].func = kernel.func
  BY RelatedIs DEF Serving, Variants
<1>4. q \in 3 .. Len(rw) /\ q \in 1 .. Len(rw)
  <2>1. after[w.r] \subseteq 3 .. Len(rw)
    BY <1>1 DEF Serving, Linked, Links
  <2> QED
    BY <1>1, <1>3, <2>1
<1>5. ~rw[q].dead /\ rw[q].addr \in {"null", "func", "code"}
  BY <1>4 DEF Alive, IInv, Listed, TInv, Tables, Rewriters
<1>6. ~BeingRewritten(q)
  BY <1>1, <1>3, <1>4 DEF Serving, Nested
<1>7. CASE rw[q].addr = "null"
  <2>1. y = Dead(x)
    BY <1>7 DEF redirect
  <2> QED
    BY <1>2, <2>1, FieldsKept, KeptBecomes
<1>8. CASE rw[q].addr # "null"
  <2>1. y = z
    BY <1>8 DEF redirect
  <2>2. Served(after, w.r, c)
    <3>1. CASE rw[q].addr = "func"
      BY <3>1 DEF Served
    <3>2. CASE rw[q].addr = "code"
      <4>1. Serves(rw[q], c)
        BY <1>3, <1>5, <3>2 DEF Serves
      <4> QED
        BY <1>3, <1>6, <4>1 DEF Served
    <3> QED
      BY <1>5, <1>8, <3>1, <3>2
  <2> HIDE DEF c
  <2>3. /\ Fields \subseteq DOMAIN z /\ z.next = x.next /\ z.func = x.func /\ z.vreq = x.vreq
        /\ (x.cs => z.cs) /\ z.calls = calls /\ z.code = x.code
    BY <1>2 DEF Fields
  <2> HIDE DEF z
  <2>4. \A d \in Asked(z) : d \in Asked(x) \/ d = c
    BY <2>3 DEF Asked
  <2> QED
    BY <2>1, <2>2, <2>3, <2>4 DEF Becomes
<1> QED
  BY <1>7, <1>8

\* Every step that makes no new variant.
LEMMA StepProceeds ==
  ASSUME IInv, TInv, Alive, frames # << >>, NEW after, Serving(after),
         LET w == Head(frames)
             x == rw[w.r]
             t == Trace(x)[w.pos]
         IN \/ EmulateBlock(w, x, t) \/ CaptureBlock(w, x, t)
            \/ \E q \in Variants(w.r, t.kernel) : Captured(w, redirect(x, t.kernel, rw[q]))
            \/ Vectorize(w, x) \/ Optimise(w, x) \/ GenerateBlock(w, x)
  PROVE  Proceeds(after, Head(frames))
<1> DEFINE w == Head(frames)
           x == rw[w.r]
           t == Trace(x)[w.pos]
<1> SUFFICES Proceeds(after, w)
  OBVIOUS
<1>1. w \in Frames /\ Tables(x)
  BY InnermostFacts
<1>2. Fields \subseteq DOMAIN x
  BY <1>1 DEF Tables, Rewriters, Fields
<1>3. ASSUME NEW y, Kept(x, y),
             \/ Captured(w, y) \/ Stops(w, y) \/ Dies(w, y) \/ Ends(w, y)
             \/ \E v : v.r = w.r /\ Goes(v, y)
      PROVE  Proceeds(after, w)
  <2>1. Becomes(after, w, y)
    BY <1>3, KeptBecomes
  <2> HIDE DEF w, x
  <2> QED
    BY <1>1, <1>3, <2>1, OutcomeProceeds
<1>4. /\ \A n : [w EXCEPT !.emulated = n].r = w.r
      /\ \A p, n : /\ [w EXCEPT !.phase = p].r = w.r /\ [w EXCEPT !.pos = n].r = w.r
                   /\ [w EXCEPT !.phase = p, !.pos = n].r = w.r
  BY <1>1 DEF Frames
<1>5. CASE \E q \in Variants(w.r, t.kernel) : Captured(w, redirect(x, t.kernel, rw[q]))
  <2>1. PICK q \in Variants(w.r, t.kernel) : Captured(w, redirect(x, t.kernel, rw[q]))
    BY <1>5
  <2> DEFINE y == redirect(x, t.kernel, rw[q])
  <2>2. Becomes(after, w, y)
    BY RedirectBecomes
  <2> HIDE DEF w, x, t
  <2> QED
    BY <1>1, <2>1, <2>2, OutcomeProceeds
<1> HIDE DEF w, x
<1>6. CASE EmulateBlock(w, x, t)
  <2> DEFINE n == w.emulated + 1
             y == emulateBlock(x, t.dec[n])
             v == [w EXCEPT !.emulated = n]
  <2>1. Kept(x, y)
    BY <1>2, EmulateKept
  <2>2. Goes(v, y) /\ v.r = w.r
    BY <1>4, <1>6 DEF EmulateBlock
  <2> HIDE DEF y, v
  <2> QED
    BY <1>3, <2>1, <2>2
<1>7. CASE CaptureBlock(w, x, t)
  <2> DEFINE y(n) == [getCaptureBBs(x, n) EXCEPT !.capBBCount = 0, !.capBB = << >>]
             z == captureBlock(x, t)
             v == [w EXCEPT !.phase = "redirect"]
  <2>1. Kept(x, x) /\ (\A n : Kept(x, y(n))) /\ Kept(x, z)
    BY <1>2, FieldsKept, CaptureKept
  <2>2. Dies(w, x) \/ (\E n : Stops(w, y(n))) \/ Captured(w, z) \/ Goes(v, z)
    BY <1>7 DEF CaptureBlock
  <2>3. v.r = w.r
    BY <1>4
  <2> HIDE DEF y, z, v
  <2> QED
    BY <1>3, <2>1, <2>2, <2>3
<1>8. CASE Vectorize(w, x)
  <2> DEFINE y == vecPass(x)
             v == [w EXCEPT !.phase = "optimise"]
  <2>1. Kept(x, x) /\ Kept(x, y)
    BY <1>2, FieldsKept, CaptureKept
  <2>2. Dies(w, x) \/ Stops(w, y) \/ Goes(v, y)
    BY <1>8 DEF Vectorize
  <2>3. v.r = w.r
    BY <1>4
  <2> HIDE DEF y, v
  <2> QED
    BY <1>3, <2>1, <2>2, <2>3
<1>9. CASE Optimise(w, x)
  <2> DEFINE n == w.pos + 1
             y == optPass(x, w.pos)
             u == [w EXCEPT !.pos = n]
             v == [w EXCEPT !.phase = "generate", !.pos = 1]
  <2>1. Kept(x, y)
    BY <1>2, CaptureKept
  <2>2. Stops(w, y) \/ Goes(u, y) \/ Goes(v, y)
    BY <1>9 DEF Optimise
  <2>3. u.r = w.r /\ v.r = w.r
    BY <1>4
  <2> HIDE DEF y, u, v
  <2> QED
    BY <1>3, <2>1, <2>2, <2>3
<1>10. CASE GenerateBlock(w, x)
  <2> DEFINE n == w.pos + 1
             y == generate(x, w.pos)
             z == link(y)
             u == [intoOrder(x, w.pos) EXCEPT !.code = NoCode]
             v == [w EXCEPT !.pos = n]
  <2>1. Kept(x, x) /\ Kept(x, y) /\ Kept(x, z) /\ Kept(x, u)
    BY <1>2, FieldsKept, GenerateKept
  <2>2. Dies(w, x) \/ Stops(w, u) \/ Goes(v, y) \/ Ends(w, z)
    BY <1>10 DEF GenerateBlock
  <2>3. v.r = w.r
    BY <1>4
  <2> HIDE DEF y, z, u, v
  <2> QED
    BY <1>3, <2>1, <2>2, <2>3
<1> QED
  BY <1>5, <1>6, <1>7, <1>8, <1>9, <1>10 DEF w, x

----------------------------------------------------------------------------
(***************************************************************************)
(* All rewriters                                                           *)
(***************************************************************************)

\* A rewriter y in place of r, in the same list, serves all that are served, if
\* variants are what they were, and those that others call were not it.
LEMMA ReplaceServes ==
  ASSUME IInv, TInv, NEW after, Serving(after), NEW r \in 1 .. Len(rw), NEW y,
         rw' = [rw EXCEPT ![r] = y], y.next = rw[r].next,
         \A c \in Asked(y) : c \in Asked(rw[r]) \/ Served(after, r, c),
         r \in 3 .. Len(rw) => /\ y.func = rw[r].func /\ y.vreq = rw[r].vreq /\ y.cs
                               /\ BeingRewritten(r),
         \A q \in 3 .. Len(rw) : BeingRewritten(q)' => BeingRewritten(q)
  PROVE  Linked(after)' /\ Distinct(after)' /\ AllServed(after)'
<1>1. /\ Len(rw') = Len(rw) /\ Len(rw) \in Nat
      /\ \A q \in 1 .. Len(rw) : rw'[q] = IF q = r THEN y ELSE rw[q]
  BY ReplaceFacts
<1>2. \A q \in 3 .. Len(rw) : q \in 1 .. Len(rw)
  BY <1>1
<1>3. \A q \in 1 .. Len(rw) : rw'[q].next = rw[q].next
  BY <1>1
<1>4. Linked(after)'
  <2>1. Links(after, rw)
    BY DEF Serving, Linked
  <2>2. Links(after, rw')
    BY <1>1, <1>3, <2>1, SameLinks
  <2> QED
    BY <2>2 DEF Linked
<1>5. \A q \in 3 .. Len(rw) : /\ rw'[q].func = rw[q].func /\ rw'[q].vreq = rw[q].vreq
                              /\ rw'[q].cs
  BY <1>1, <1>2 DEF Serving, Distinct
<1>6. Distinct(after)'
  BY <1>1, <1>5 DEF Serving, Distinct
<1>7. ASSUME NEW p \in 1 .. Len(rw), NEW c, Served(after, p, c)
      PROVE  Served(after, p, c)'
  <2>1. CASE c.vreq = VR_None
    BY <2>1 DEF Served
  <2>2. CASE \E q \in after[p] : Serves(rw[q], c) /\ ~BeingRewritten(q)
    <3>1. PICK q \in after[p] : Serves(rw[q], c) /\ ~BeingRewritten(q)
      BY <2>2
    <3>2. q \in 3 .. Len(rw)
      <4>1. after[p] \subseteq 3 .. Len(rw)
        BY <1>1 DEF Serving, Linked, Links
      <4> QED
        BY <3>1, <4>1
    <3>3. rw'[q] = rw[q] /\ ~BeingRewritten(q)'
      BY <1>1, <1>2, <3>1, <3>2
    <3> QED
      BY <3>1, <3>3 DEF Served
  <2> QED
    BY <1>7, <2>1, <2>2 DEF Served
<1>8. ASSUME NEW p \in 1 .. Len(rw), NEW c \in Asked(rw'[p])
      PROVE  Served(after, p, c)'
  <2>1. \A d \in Asked(rw[p]) : Served(after, p, d)
    BY DEF Serving, AllServed
  <2>2. CASE p = r
    <3>1. Served(after, p, c)
      BY <1>1, <1>8, <2>1, <2>2
    <3> QED
      BY <1>7, <3>1
  <2>3. CASE p # r
    <3>1. Served(after, p, c)
      BY <1>1, <1>8, <2>1, <2>3
    <3> QED
      BY <1>7, <3>1
  <2> QED
    BY <2>2, <2>3
<1>9. AllServed(after)'
  BY <1>1, <1>8 DEF AllServed
<1> QED
  BY <1>4, <1>6, <1>9

\* A step of the innermost rewriting that makes no variant.
LEMMA StepServes ==
  ASSUME IInv, TInv, frames # << >>, NEW after, Serving(after),
         Proceeds(after, Head(frames))
  PROVE  Serving(after)'
<1> DEFINE w == Head(frames)
           r == w.r
<1>1. /\ Len(frames) \in Nat /\ 1 \in 1 .. Len(frames) /\ w = frames[1]
      /\ r \in 1 .. Len(rw) /\ Len(rw) \in Nat
      /\ \A i \in 1 .. Len(frames) :
           frames[i].r \in 1 .. Len(rw) /\ (i # 1 => frames[i].r # r)
      /\ \A q \in 1 .. Len(rw) : BeingRewritten(q) <=>
           \E i \in 1 .. Len(frames) : frames[i].r = q
  BY InnermostFacts
<1>2. PICK y : /\ Becomes(after, w, y)
               /\ (\E v : v.r = r /\ Goes(v, y)) \/ Ends(w, y)
  BY DEF Proceeds
<1>3. rw' = [rw EXCEPT ![r] = y]
  BY <1>2 DEF Goes, Ends
<1>4. PICK S : frames \in Seq(S)
  BY DEF IInv, Framed
<1> HIDE DEF w, r
<1>5. /\ Len(rw') = Len(rw)
      /\ \A q \in 1 .. Len(rw) : rw'[q] = IF q = r THEN y ELSE rw[q]
  BY <1>1, <1>3, ReplaceFacts
<1>6. /\ y.next = rw[r].next /\ y.func = rw[r].func /\ y.vreq = rw[r].vreq
      /\ (rw[r].cs => y.cs)
      /\ \A c \in Asked(y) : c \in Asked(rw[r]) \/ Served(after, r, c)
  BY <1>2 DEF Becomes, r
<1>7. r \in 3 .. Len(rw) => y.cs
  BY <1>6 DEF Serving, Distinct
<1>8. BeingRewritten(r)
  BY <1>1 DEF r
<1>9. ASSUME \A q \in 3 .. Len(rw) : BeingRewritten(q)' => BeingRewritten(q)
      PROVE  Linked(after)' /\ Distinct(after)' /\ AllServed(after)'
  BY <1>1, <1>3, <1>6, <1>7, <1>8, <1>9, ReplaceServes
<1>10. /\ \A i \in 1 .. Len(frames) : frames[i].r # DefaultRewriter
       /\ \A i \in 1 .. Len(frames) - 1 :
            /\ rw[frames[i + 1].r].next = frames[i].r
            /\ HasKernel(rw[frames[i + 1].r], rw[frames[i].r].func)
       /\ \A q \in 3 .. Len(rw) : BeingRewritten(q) <=> q \notin after[r]
  BY <1>1 DEF Serving, Nested, r
<1>11. ASSUME NEW i \in 1 .. Len(frames) - 1
       PROVE  /\ rw'[frames[i + 1].r].next = frames[i].r
              /\ HasKernel(rw'[frames[i + 1].r], rw'[frames[i].r].func)
  <2> DEFINE k == i + 1
  <2>1. i \in 1 .. Len(frames) /\ k \in 1 .. Len(frames) /\ k # 1
    BY <1>1
  <2>2. rw[frames[k].r].next = frames[i].r /\ HasKernel(rw[frames[k].r], rw[frames[i].r].func)
    BY <1>10
  <2> HIDE DEF k
  <2>3. rw'[frames[k].r] = rw[frames[k].r] /\ rw'[frames[i].r].func = rw[frames[i].r].func
    BY <1>1, <1>5, <1>6, <2>1
  <2> QED
    BY <2>2, <2>3 DEF k
<1>12. CASE \E v : v.r = r /\ Goes(v, y)
  <2>1. PICK v : v.r = r /\ Goes(v, y)
    BY <1>12
  <2>2. frames' = [frames EXCEPT ![1] = v]
    BY <2>1 DEF Goes
  <2>3. /\ Len(frames') = Len(frames) /\ DOMAIN frames' = 1 .. Len(frames)
        /\ \A i \in 1 .. Len(frames) : frames'[i] = IF i = 1 THEN v ELSE frames[i]
    BY <1>4, <2>2
  <2>4. \A i \in 1 .. Len(frames) : frames'[i].r = frames[i].r
    BY <1>1, <2>1, <2>3 DEF r
  <2>5. \A q \in 1 .. Len(rw) : BeingRewritten(q)' <=> BeingRewritten(q)
    BY <1>1, <2>3, <2>4 DEF BeingRewritten
  <2>6. \A q \in 3 .. Len(rw) : q \in 1 .. Len(rw)
    BY <1>1
  <2>7. Nested(after)'
    <3>1. \A i \in 1 .. Len(frames) - 1 : i \in 1 .. Len(frames) /\ i + 1 \in 1 .. Len(frames)
      BY <1>1
    <3>2. \A i \in 1 .. Len(frames') : frames'[i].r # DefaultRewriter
      BY <1>10, <2>3, <2>4
    <3>3. \A i \in 1 .. Len(frames') - 1 :
            /\ rw'[frames'[i + 1].r].next = frames'[i].r
            /\ HasKernel(rw'[frames'[i + 1].r], rw'[frames'[i].r].func)
      BY <1>11, <2>3, <2>4, <3>1
    <3>4. \A q \in 3 .. Len(rw') : BeingRewritten(q)' <=> q \notin after[frames'[1].r]
      BY <1>1, <1>5, <1>10, <2>4, <2>5, <2>6 DEF r
    <3> QED
      BY <3>2, <3>3, <3>4 DEF Nested, HasKernel, Trace
  <2> QED
    BY <1>9, <2>5, <2>6, <2>7 DEF Serving
<1>13. CASE Ends(w, y)
  <2>1. frames' = Tail(frames)
    BY <1>13 DEF Ends
  <2>2. /\ Len(frames') = Len(frames) - 1 /\ DOMAIN frames' = 1 .. Len(frames) - 1
        /\ \A i \in 1 .. Len(frames) - 1 : frames'[i] = frames[i + 1]
    BY <1>1, <1>4, <2>1
  <2>3. \A i \in 1 .. Len(frames') :
          /\ i + 1 \in 1 .. Len(frames) /\ i + 1 # 1 /\ frames'[i] = frames[i + 1]
    BY <1>1, <2>2
  <2>4. \A q \in 1 .. Len(rw) : BeingRewritten(q)' <=> BeingRewritten(q) /\ q # r
    <3>1. ASSUME NEW q \in 1 .. Len(rw), BeingRewritten(q), q # r
          PROVE  BeingRewritten(q)'
      <4>1. PICK i \in 1 .. Len(frames) : frames[i].r = q
        BY <1>1, <3>1
      <4>2. i - 1 \in 1 .. Len(frames) - 1 /\ (i - 1) + 1 = i
        BY <1>1, <3>1, <4>1 DEF r
      <4> QED
        BY <2>2, <4>1, <4>2 DEF BeingRewritten
    <3>2. ASSUME NEW q \in 1 .. Len(rw), BeingRewritten(q)'
          PROVE  BeingRewritten(q) /\ q # r
      <4>1. PICK i \in 1 .. Len(frames') : frames'[i].r = q
        BY <2>2, <3>2 DEF BeingRewritten
      <4> DEFINE k == i + 1
      <4>2. k \in 1 .. Len(frames) /\ k # 1 /\ frames[k].r = q
        BY <2>3, <4>1
      <4> HIDE DEF k
      <4> QED
        BY <1>1, <4>2
    <3> QED
      BY <3>1, <3>2
  <2>5. \A q \in 3 .. Len(rw) : q \in 1 .. Len(rw)
    BY <1>1
  <2>6. Nested(after)'
    <3>1. \A i \in 1 .. Len(frames') : frames'[i].r # DefaultRewriter
      BY <1>10, <2>3
    <3>2. ASSUME NEW i \in 1 .. Len(frames') - 1
          PROVE  /\ rw'[frames'[i + 1].r].next = frames'[i].r
                 /\ HasKernel(rw'[frames'[i + 1].r], rw'[frames'[i].r].func)
      <4> DEFINE k == i + 1
      <4>1. /\ i \in 1 .. Len(frames') /\ k \in 1 .. Len(frames') /\ k \in 1 .. Len(frames) - 1
        BY <1>1, <2>2
      <4>2. frames'[i] = frames[k] /\ frames'[k] = frames[k + 1]
        BY <2>3, <4>1
      <4>3. /\ rw'[frames[k + 1].r].next = frames[k].r
            /\ HasKernel(rw'[frames[k + 1].r], rw'[frames[k].r].func)
        BY <1>11, <4>1
      <4> QED
        BY <4>2, <4>3
    <3>3. ASSUME frames' # << >>, NEW q \in 3 .. Len(rw')
          PROVE  BeingRewritten(q)' <=> q \notin after[frames'[1].r]
      <4>1. 1 \in 1 .. Len(frames) - 1 /\ 1 + 1 = 2
        <5>1. Len(frames') # 0
          BY <1>4, <2>1, <3>3
        <5> QED
          BY <1>1, <2>2, <5>1
      <4> DEFINE s == frames[2].r
      <4>2. rw[s].next = r /\ frames'[1].r = s /\ s \in 1 .. Len(rw)
        <5>1. 2 \in 1 .. Len(frames)
          BY <1>1, <4>1
        <5>2. rw[frames[1 + 1].r].next = frames[1].r /\ frames'[1] = frames[1 + 1]
          BY <1>10, <2>2, <4>1
        <5> QED
          BY <1>1, <4>1, <5>1, <5>2 DEF r
      <4> HIDE DEF s
      <4>3. after[s] = {r} \cup after[r]
        <5>1. r # 0
          BY <1>1
        <5> QED
          BY <4>2, <5>1 DEF Serving, Linked, Links
      <4> QED
        BY <1>5, <1>10, <2>4, <2>5, <3>3, <4>2, <4>3
    <3> QED
      BY <3>1, <3>2, <3>3 DEF Nested, HasKernel, Trace
  <2> QED
    BY <1>9, <2>4, <2>5, <2>6 DEF Serving
<1> QED
  BY <1>2, <1>12, <1>13

\* A call of the API, which may start a rewriting on the client's rewriter.
LEMMA IdleServes ==
  ASSUME IInv, TInv, Idle, NEW after, Serving(after),
         NEW r \in {Client, DefaultRewriter}, NEW y, CallsStay(rw[r], y),
         rw' = [rw EXCEPT ![r] = y],
         frames' = << >> \/ \E u : u.r = Client /\ frames' = << u >>
  PROVE  Serving(after)'
<1>1. r \in 1 .. Len(rw) /\ Len(rw) \in Nat /\ r \notin 3 .. Len(rw)
  BY IdleFacts DEF IInv, Listed, Client, DefaultRewriter
<1>2. Len(rw') = Len(rw)
  BY <1>1, ReplaceFacts
<1>3. \A q : BeingRewritten(q)' => q = Client
  <2>1. CASE frames' = << >>
    BY <2>1 DEF BeingRewritten
  <2>2. CASE \E u : u.r = Client /\ frames' = << u >>
    BY <2>2 DEF BeingRewritten
  <2> QED
    BY <2>1, <2>2
<1>4. \A q \in 3 .. Len(rw) : ~BeingRewritten(q)'
  BY <1>1, <1>3 DEF Client
<1>5. /\ y.next = rw[r].next
      /\ \A c \in Asked(y) : c \in Asked(rw[r]) \/ Served(after, r, c)
  BY DEF CallsStay
<1>6. Linked(after)' /\ Distinct(after)' /\ AllServed(after)'
  BY <1>1, <1>4, <1>5, ReplaceServes
<1>7. Nested(after)'
  <2>1. CASE frames' = << >>
    <3>1. Len(frames') = 0
      BY <2>1
    <3> QED
      BY <2>1, <3>1 DEF Nested
  <2>2. CASE \E u : u.r = Client /\ frames' = << u >>
    <3>1. PICK u : u.r = Client /\ frames' = << u >>
      BY <2>2
    <3>2. Len(frames') = 1 /\ frames'[1] = u
      BY <3>1
    <3>3. \A q \in 3 .. Len(rw') : ~BeingRewritten(q)' /\ q \in after[Client]
      BY <1>2, <1>4 DEF Serving, Distinct
    <3>4. \A i \in 1 .. Len(frames') : frames'[i].r # DefaultRewriter
      BY <3>1, <3>2 DEF Client, DefaultRewriter
    <3>5. 1 .. Len(frames') - 1 = {}
      BY <3>2
    <3> QED
      BY <3>1, <3>2, <3>3, <3>4, <3>5 DEF Nested
  <2> QED
    BY <2>1, <2>2
<1> QED
  BY <1>6, <1>7 DEF Serving

\* Every call of the API.
LEMMA CallServes ==
  ASSUME IInv, TInv, NEW after, Serving(after), API
  PROVE  Serving(after)'
<1> DEFINE x == rw[Client]
<1>1. Idle => Fields \subseteq DOMAIN x
  BY IdleFacts DEF Tables, Rewriters, Fields
<1>2. ASSUME NEW y, Idle => CallsStay(x, y), Change(y)
      PROVE  Serving(after)'
  <2>1. /\ Idle /\ rw' = [rw EXCEPT ![Client] = y] /\ frames' = << >>
    BY <1>2 DEF Change, Idle
  <2> QED
    BY <1>2, <2>1, IdleServes
<1>3. ASSUME NEW call, Opens(call)
      PROVE  Serving(after)'
  <2> DEFINE y == resetCapturing(x)
             u == Frame(Client, call, Sufficient(x))
  <2>1. Idle /\ rw' = [rw EXCEPT ![Client] = y] /\ frames' = << u >>
    BY <1>3 DEF Opens
  <2>2. u.r = Client
    BY DEF Frame
  <2>3. CallsStay(x, y)
    BY <1>1, <2>1, ResetKept DEF Kept
  <2> HIDE DEF y, u
  <2> QED
    BY <2>1, <2>2, <2>3, IdleServes
<1> HIDE DEF x
<1>4. CASE dbrew_set_decoding_capacity
  BY <1>1, <1>2, <1>4, CallsKept DEF dbrew_set_decoding_capacity, x
<1>5. CASE dbrew_set_capture_capacity
  BY <1>1, <1>2, <1>5, CallsKept DEF dbrew_set_capture_capacity, x
<1>6. CASE dbrew_set_function
  BY <1>1, <1>2, <1>6, CallsKept DEF dbrew_set_function, x
<1>7. CASE dbrew_set_vectorsize
  <2>1. PICK s \in {16, 32} : Change([x EXCEPT !.vectorsize = Least(s, MaxVectorBytes)])
    BY <1>7 DEF dbrew_set_vectorsize, x
  <2> DEFINE n == Least(s, MaxVectorBytes)
  <2> HIDE DEF n
  <2> QED
    BY <1>1, <1>2, <2>1, CallsKept DEF n
<1>8. CASE dbrew_decode_print
  BY <1>1, <1>2, <1>8, CallsKept DEF dbrew_decode_print, x
<1>9. ASSUME NEW cc, Configure(cc)
      PROVE  Serving(after)'
  BY <1>1, <1>2, <1>9, FieldsKept DEF Configure, Kept, x
<1>10. CASE Change(Dead(x)) \/ Change([x EXCEPT !.addr = "func"])
  BY <1>1, <1>2, <1>10, FieldsKept DEF Kept
<1>11. CASE dbrew_emulate \/ dbrew_rewrite
  BY <1>3, <1>10, <1>11 DEF dbrew_emulate, dbrew_rewrite, x
<1>12. CASE dbrew_rewrite_func
  <2>1. PICK f \in Shared :
          /\ Idle /\ frames' = frames
          /\ rw' = [rw EXCEPT ![DefaultRewriter] = setFunction(rw[DefaultRewriter], f)]
    BY <1>12 DEF dbrew_rewrite_func
  <2> DEFINE y == setFunction(rw[DefaultRewriter], f)
  <2>2. Fields \subseteq DOMAIN rw[DefaultRewriter]
    BY <2>1, IdleFacts DEF Tables, Rewriters, Fields
  <2>3. CallsStay(rw[DefaultRewriter], y)
    BY <2>2, CallsKept
  <2>4. frames' = << >>
    BY <2>1 DEF Idle
  <2> HIDE DEF y
  <2> QED
    BY <2>1, <2>3, <2>4, IdleServes DEF y
<1>13. CASE \/ dbrew_config_reset \/ dbrew_config_staticpar \/ dbrew_config_parcount
            \/ dbrew_config_function_setname \/ dbrew_config_function_setsize
            \/ dbrew_config_set_memrange
  BY <1>9, <1>13
     DEF dbrew_config_reset, dbrew_config_staticpar, dbrew_config_parcount,
         dbrew_config_function_setname, dbrew_config_function_setsize,
         dbrew_config_set_memrange
<1> QED
  BY <1>4, <1>5, <1>6, <1>7, <1>8, <1>10, <1>11, <1>12, <1>13 DEF API, Unconfigured, x

----------------------------------------------------------------------------
(***************************************************************************)
(* A new variant                                                           *)
(***************************************************************************)

\* It is what was asked for, has storage for code, and calls nothing.
LEMMA VariantFacts ==
  ASSUME NEW x, Tables(x), NEW kernel, kernel.func \in Functions
  PROVE  LET z == resetCapturing(newVariant(x, kernel))
         IN /\ z.next = x.next /\ z.func = kernel.func /\ z.vreq = vreqOf(x, kernel)
            /\ z.cs /\ Asked(z) = {}
<1> DEFINE next == x.next
           a == [allocRewriter EXCEPT !.next = next]
           b == initRewriter(a)
           f == kernel.func
           c == [b EXCEPT !.func = f, !.cc = cc_new, !.es = FALSE, !.fresh = TRUE]
           vreq == vreqOf(x, kernel)
           cc == [c.cc EXCEPT !.parCount = ParCount(kernel.params)]
           d == [c EXCEPT !.vreq = vreq, !.cc = cc]
           z == resetCapturing(d)
<1>1. newVariant(x, kernel) = d
  BY DEF newVariant, setFunction
<1>2. next \in Nat
  BY DEF Tables, Rewriters
<1>3. Fields \subseteq DOMAIN a /\ a.next = next /\ Asked(a) = {}
  <2> HIDE DEF next
  <2> QED
    BY DEF allocRewriter, NoCode, Fields, Asked
<1>4. Tables(a)
  BY <1>2, NewTables, FieldTables
<1> HIDE DEF next, a
<1>5. Kept(a, b) /\ b.cs
  BY <1>3, <1>4, InitKept, InitTables
<1> HIDE DEF b, f, vreq
<1>6. Fields \subseteq DOMAIN b /\ b.next = next /\ Asked(b) = {}
  BY <1>3, <1>5 DEF Kept, CallsStay
<1>7. /\ Fields \subseteq DOMAIN c /\ c.next = next /\ Asked(c) = {} /\ c.func = f
      /\ c.cs = b.cs
  BY <1>6 DEF Fields, Asked
<1> HIDE DEF c, cc
<1>8. /\ Fields \subseteq DOMAIN d /\ d.next = next /\ Asked(d) = {} /\ d.func = f
      /\ d.cs = c.cs /\ d.vreq = vreq
  BY <1>7 DEF Fields, Asked
<1> HIDE DEF d
<1>9. Kept(d, z)
  BY <1>8, ResetKept
<1> HIDE DEF z
<1>10. z.next = next /\ z.func = f /\ z.vreq = vreq /\ z.cs /\ Asked(z) = {}
  BY <1>5, <1>7, <1>8, <1>9 DEF Kept, CallsStay
<1> QED
  BY <1>1, <1>10 DEF next, f, vreq, z

\* No rewriting that goes on is one of a kernel that the innermost one has: the
\* functions from there on would each have a kernel among them.
LEMMA NotInProgress ==
  ASSUME IInv, TInv, Alive, frames # << >>, NEW after, Serving(after),
         NEW f \in Functions, HasKernel(rw[frames[1].r], f),
         NEW i \in 1 .. Len(frames)
  PROVE  rw[frames[i].r].func # f
<1> DEFINE g(j) == rw[frames[j].r].func
           S == { g(j) : j \in 1 .. i }
<1> SUFFICES ASSUME g(i) = f
             PROVE  FALSE
  OBVIOUS
<1>1. /\ Len(frames) \in Nat /\ 1 \in 1 .. Len(frames)
      /\ \A j \in 1 .. Len(frames) :
           frames[j].r \in 1 .. Len(rw) /\ InProgress(frames[j], rw[frames[j].r])
  BY InnermostFacts
<1>2. i \in Nat /\ i \in 1 .. i /\ \A j \in 1 .. i : j \in 1 .. Len(frames)
  BY <1>1
<1>3. \A j \in 1 .. i : g(j) \in Functions /\ rw[frames[j].r] \in Rewriters
  BY <1>1, <1>2, SMTT(30) DEF Alive, IInv, Listed, InProgress, TInv, Tables
<1>4. S \in SUBSET Functions /\ S # {}
  BY <1>2, <1>3
<1>5. f \in S
  BY <1>2
<1>6. PICK h \in S : \A s \in BOOLEAN : \A t \in Range(Code[h].trace[s]) : t.kernel.func \notin S
  <2> HIDE DEF S
  <2> QED
    BY <1>4, KernelAssumption
<1>7. PICK j \in 1 .. i : h = g(j)
  OBVIOUS
<1> DEFINE x == rw[frames[j].r]
<1>8. x.cc.static \in BOOLEAN /\ x.func = h
  BY <1>3, <1>7 DEF Rewriters, Configs
<1>9. \E e \in S : HasKernel(x, e)
  <2>1. CASE j = 1
    BY <1>5, <2>1
  <2>2. CASE j # 1
    <3> DEFINE k == j - 1
    <3>1. k \in 1 .. Len(frames) - 1 /\ k \in 1 .. i /\ k + 1 = j
      BY <1>1, <1>2, <2>2
    <3>2. HasKernel(rw[frames[k + 1].r], g(k))
      BY <3>1 DEF Serving, Nested
    <3>3. g(k) \in S
      BY <3>1
    <3> QED
      BY <3>1, <3>2, <3>3
  <2> QED
    BY <2>1, <2>2
<1> HIDE DEF S, x
<1> QED
  BY <1>6, <1>8, <1>9 DEF HasKernel, Trace

\* A new variant, behind the innermost rewriter and before all that is behind it.
LEMMA VariantServes ==
  ASSUME IInv, TInv, Alive, frames # << >>, NEW after, Serving(after), NEW kernel,
         kernel.func \in Functions, kernel.params \in Params,
         HasKernel(rw[Head(frames).r], kernel.func), Variants(Head(frames).r, kernel) = {},
         rw' = Append([rw EXCEPT ![Head(frames).r].next = Len(rw) + 1],
                      resetCapturing(newVariant(rw[Head(frames).r], kernel))),
         frames' = << Frame(Len(rw) + 1, "rewrite", FALSE) >> \o frames
  PROVE  VInv'
<1> DEFINE w == Head(frames)
           r == w.r
           x == rw[r]
           N == Len(rw)
           n == N + 1
           y == [x EXCEPT !.next = n]
           z == resetCapturing(newVariant(x, kernel))
           u == Frame(n, "rewrite", FALSE)
<1>1. /\ Len(frames) \in Nat /\ w = frames[1] /\ 1 \in 1 .. Len(frames)
      /\ r \in 1 .. N /\ N \in Nat /\ Tables(x)
      /\ \A i \in 1 .. Len(frames) :
           frames[i].r \in 1 .. N /\ (i # 1 => frames[i].r # r)
      /\ \A q \in 1 .. N : BeingRewritten(q) <=>
           \E i \in 1 .. Len(frames) : frames[i].r = q
  BY InnermostFacts
<1>2. N >= 2 /\ \A q \in 1 .. N : rw[q].next \in {0} \cup (3 .. N)
  BY DEF IInv, TInv, Listed
<1>3. rw' = Append([rw EXCEPT ![r] = y], z) /\ frames' = << u >> \o frames
  OBVIOUS
<1>4. /\ n \in 3 .. n /\ n \notin 1 .. N /\ n \notin 3 .. N /\ n # DefaultRewriter
      /\ \A q \in 1 .. n : q = n \/ q \in 1 .. N
      /\ \A q \in 3 .. n : q = n \/ q \in 3 .. N
      /\ \A q \in 3 .. N : q \in 1 .. N
  <2>1. N \in Nat /\ N >= 2
    BY <1>1, <1>2
  <2> HIDE DEF N
  <2> QED
    BY <2>1 DEF DefaultRewriter
<1>5. /\ z.next = x.next /\ z.func = kernel.func /\ z.vreq = vreqOf(x, kernel)
      /\ z.cs /\ Asked(z) = {}
  BY <1>1, VariantFacts
<1>6. /\ y.next = n /\ y.func = x.func /\ y.vreq = x.vreq /\ y.cs = x.cs /\ y.cc = x.cc
      /\ Asked(y) = Asked(x) /\ y.addr = x.addr /\ y.dead = x.dead
  <2> HIDE DEF x, n
  <2> QED
    BY <1>1 DEF Tables, Rewriters, Asked
<1>7. u.r = n
  BY DEF Frame
<1>8. w = frames[1] /\ HasKernel(x, kernel.func) /\ Variants(r, kernel) = {}
  BY <1>1
<1> HIDE DEF w, r, x, y, z, u
<1>9. /\ Len(rw') = Len(rw) + 1 /\ rw'[Len(rw) + 1] = z
      /\ \A q \in 1 .. Len(rw) : rw'[q] = IF q = r THEN y ELSE rw[q]
  <2>1. r \in 1 .. Len(rw)
    BY <1>1
  <2> HIDE DEF N, n
  <2> QED
    BY <1>3, <2>1, AppendFacts
<1>10. /\ Len(frames') = Len(frames) + 1 /\ DOMAIN frames' = 1 .. Len(frames) + 1
       /\ \A i \in 1 .. Len(frames) + 1 : frames'[i] = IF i = 1 THEN u ELSE frames[i - 1]
  BY <1>3, StartFacts, Zenon
<1>11. PICK f : /\ Links(f, rw')
                /\ \A q \in 1 .. N : after[q] \subseteq f[q]
                /\ f[n] = after[r]
                /\ \A q \in 1 .. N : q = r \/ r \in after[q] => n \in f[q]
  <2>1. /\ r \in 1 .. Len(rw) /\ z.next = rw[r].next /\ Len(rw') = Len(rw) + 1
        /\ rw'[Len(rw) + 1] = z /\ rw'[r].next = Len(rw) + 1
        /\ \A q \in 1 .. Len(rw) : q # r => rw'[q].next = rw[q].next
    BY <1>1, <1>5, <1>6, <1>9 DEF x
  <2>2. Linked(after)
    BY DEF Serving
  <2> HIDE DEF n, N
  <2>3. \E f : /\ Links(f, rw')
               /\ \A q \in 1 .. Len(rw) : after[q] \subseteq f[q]
               /\ f[Len(rw) + 1] = after[r]
               /\ \A q \in 1 .. Len(rw) : q = r \/ r \in after[q] => Len(rw) + 1 \in f[q]
    <3> PICK p : p = r
      OBVIOUS
    <3> PICK a : a = rw
      OBVIOUS
    <3> PICK b : b = rw'
      OBVIOUS
    <3>1. /\ p \in 1 .. Len(a) /\ b[Len(a) + 1].next = a[p].next /\ Len(b) = Len(a) + 1
          /\ b[p].next = Len(a) + 1
          /\ \A q \in 1 .. Len(a) : q # p => b[q].next = a[q].next
      BY <2>1
    <3>2. /\ Links(after, a) /\ Len(a) \in Nat /\ Len(a) >= 2
          /\ \A q \in 1 .. Len(a) : a[q].next \in {0} \cup (3 .. Len(a))
      BY <1>1, <1>2, <2>2 DEF Linked, N
    <3>3. \E f : Inserted(after, p, f, a, b)
      BY <3>1, <3>2, InsertLinks, Zenon
    <3> QED
      BY <3>3 DEF Inserted
  <2> QED
    BY <2>3 DEF n, N
<1>12. Len(rw') = n /\ rw'[n] = z /\ \A q \in 1 .. N : rw'[q] = IF q = r THEN y ELSE rw[q]
  BY <1>9
<1> HIDE DEF n, N
<1>13. \A q \in 1 .. N : /\ rw'[q].func = rw[q].func /\ rw'[q].vreq = rw[q].vreq
                         /\ rw'[q].cs = rw[q].cs /\ rw'[q].cc = rw[q].cc
                         /\ Asked(rw'[q]) = Asked(rw[q])
                         /\ rw'[q].addr = rw[q].addr /\ rw'[q].dead = rw[q].dead
                         /\ q # r => rw'[q].next = rw[q].next
  BY <1>6, <1>12 DEF x
<1>14. \A i \in 1 .. Len(frames) + 1 :
         i = 1 \/ (i # 1 /\ i - 1 \in 1 .. Len(frames) /\ frames'[i] = frames[i - 1])
  BY <1>1, <1>10
<1>15. frames'[1] = u
  <2>1. \A i \in 1 .. Len(frames) + 1 : i = 1 => frames'[i] = u
    BY <1>10
  <2>2. 1 \in 1 .. Len(frames) + 1
    BY <1>1
  <2> QED
    BY <2>1, <2>2, Zenon
<1>16. \A q \in 1 .. n : BeingRewritten(q)' <=> q = n \/ BeingRewritten(q)
  <2>1. ASSUME NEW q \in 1 .. n, BeingRewritten(q)'
        PROVE  q = n \/ BeingRewritten(q)
    <3>1. PICK i \in 1 .. Len(frames) + 1 : frames'[i].r = q
      BY <1>10, <2>1 DEF BeingRewritten
    <3>2. CASE i = 1
      BY <1>7, <1>15, <3>1, <3>2
    <3>3. CASE i # 1
      <4> DEFINE k == i - 1
      <4>1. k \in 1 .. Len(frames) /\ frames[k].r = q
        BY <1>14, <3>1, <3>3
      <4> HIDE DEF k
      <4> QED
        BY <1>1, <4>1
    <3> QED
      BY <3>2, <3>3
  <2>2. ASSUME NEW q \in 1 .. n, q = n
        PROVE  BeingRewritten(q)'
    <3>1. 1 \in DOMAIN frames'
      BY <1>1, <1>10
    <3> QED
      BY <1>7, <1>15, <2>2, <3>1 DEF BeingRewritten
  <2>3. ASSUME NEW q \in 1 .. N, BeingRewritten(q)
        PROVE  BeingRewritten(q)'
    <3>1. PICK i \in 1 .. Len(frames) : frames[i].r = q
      BY <1>1, <2>3
    <3> DEFINE k == i + 1
    <3>2. k \in 1 .. Len(frames) + 1 /\ k # 1 /\ k - 1 = i
      BY <1>1
    <3> HIDE DEF k
    <3>3. frames'[k].r = q
      BY <1>10, <3>1, <3>2
    <3> QED
      BY <1>10, <3>2, <3>3 DEF BeingRewritten
  <2> QED
    BY <1>4, <2>1, <2>2, <2>3
<1>17. /\ \A q \in 3 .. N : /\ rw[q].cs /\ q \in after[Client]
                            /\ BeingRewritten(q) <=> q \notin after[r]
       /\ \A p, q \in 3 .. N : rw[p].func = rw[q].func /\ rw[p].vreq = rw[q].vreq => p = q
       /\ \A i \in 1 .. Len(frames) : frames[i].r # DefaultRewriter
       /\ \A i \in 1 .. Len(frames) - 1 :
            /\ rw[frames[i + 1].r].next = frames[i].r
            /\ HasKernel(rw[frames[i + 1].r], rw[frames[i].r].func)
       /\ after \in [0 .. N -> SUBSET (3 .. N)] /\ r \notin after[r]
  BY <1>1, <1>8 DEF Serving, Distinct, Nested, Linked, Links, N, r
<1>18. Client \in 1 .. N /\ (r = Client \/ r \in 3 .. N)
  <2>1. r # DefaultRewriter
    BY <1>1, <1>17 DEF r
  <2> QED
    BY <1>1, <1>2, <2>1 DEF Client, DefaultRewriter
<1>19. ASSUME NEW q \in 3 .. N, rw[q].func = kernel.func, rw[q].vreq = vreqOf(x, kernel)
       PROVE  FALSE
  <2>1. q \notin after[r]
    <3>1. Related = after
      BY RelatedIs DEF Serving
    <3>2. q \in Related[r] => q \in Variants(r, kernel)
      BY <1>19 DEF Variants, x
    <3> QED
      BY <1>8, <3>1, <3>2
  <2>2. PICK i \in 1 .. Len(frames) : frames[i].r = q
    BY <1>1, <1>4, <1>17, <2>1
  <2>3. HasKernel(rw[frames[1].r], kernel.func)
    BY <1>8 DEF x, r
  <2> QED
    BY <1>19, <2>2, <2>3, NotInProgress
<1>20. Distinct(f)'
  <2>1. ASSUME NEW q \in 3 .. n
        PROVE  rw'[q].cs /\ q \in f[Client]
    <3>1. CASE q = n
      <4>1. Client = r \/ r \in after[Client]
        BY <1>17, <1>18
      <4> QED
        BY <1>5, <1>11, <1>12, <1>18, <3>1, <4>1
    <3>2. CASE q \in 3 .. N
      BY <1>4, <1>11, <1>13, <1>17, <1>18, <3>2
    <3> QED
      BY <1>4, <3>1, <3>2
  <2>2. ASSUME NEW p \in 3 .. n, NEW q \in 3 .. n,
               rw'[p].func = rw'[q].func, rw'[p].vreq = rw'[q].vreq
        PROVE  p = q
    <3>1. CASE p = n /\ q \in 3 .. N
      <4>1. rw'[p] = z /\ rw'[q].func = rw[q].func /\ rw'[q].vreq = rw[q].vreq
        BY <1>4, <1>12, <1>13, <3>1
      <4> QED
        BY <1>5, <1>19, <2>2, <3>1, <4>1
    <3>2. CASE q = n /\ p \in 3 .. N
      <4>1. rw'[q] = z /\ rw'[p].func = rw[p].func /\ rw'[p].vreq = rw[p].vreq
        BY <1>4, <1>12, <1>13, <3>2
      <4> QED
        BY <1>5, <1>19, <2>2, <3>2, <4>1
    <3>3. CASE p \in 3 .. N /\ q \in 3 .. N
      <4>1. rw[p].func = rw[q].func /\ rw[p].vreq = rw[q].vreq
        BY <1>4, <1>13, <2>2, <3>3
      <4> QED
        BY <1>17, <3>3, <4>1
    <3> QED
      BY <1>4, <3>1, <3>2, <3>3
  <2> QED
    BY <1>12, <2>1, <2>2 DEF Distinct
<1>21. ASSUME NEW p \in 1 .. n, NEW c \in Asked(rw'[p])
       PROVE  Served(f, p, c)'
  <2>1. p \in 1 .. N /\ c \in Asked(rw[p])
    BY <1>4, <1>5, <1>12, <1>13
  <2>2. Served(after, p, c)
    BY <2>1 DEF Serving, AllServed, N
  <2>3. CASE c.vreq = VR_None
    BY <2>3 DEF Served
  <2>4. CASE \E q \in after[p] : Serves(rw[q], c) /\ ~BeingRewritten(q)
    <3>1. PICK q \in after[p] : Serves(rw[q], c) /\ ~BeingRewritten(q)
      BY <2>4
    <3>2. q \in 3 .. N /\ q \in 1 .. N /\ q # n
      <4>1. after[p] \subseteq 3 .. N
        BY <1>1, <1>17, <2>1
      <4> QED
        BY <1>4, <3>1, <4>1
    <3>3. q \in f[p] /\ q \in 1 .. n
      <4>1. n = N + 1
        BY DEF n
      <4> QED
        BY <1>1, <1>11, <2>1, <3>1, <3>2, <4>1
    <3>4. Serves(rw'[q], c) /\ ~BeingRewritten(q)'
      BY <1>13, <1>16, <3>1, <3>2, <3>3 DEF Serves
    <3> QED
      BY <3>3, <3>4 DEF Served
  <2> QED
    BY <2>2, <2>3, <2>4 DEF Served
<1>22. AllServed(f)'
  BY <1>12, <1>21 DEF AllServed
<1>23. Nested(f)'
  <2>1. \A i \in 1 .. Len(frames) + 1 : frames'[i].r # DefaultRewriter
    <3>1. \A i \in 1 .. Len(frames) + 1 :
            frames'[i] = u \/ (i - 1 \in 1 .. Len(frames) /\ frames'[i] = frames[i - 1])
      BY <1>14, <1>15, Zenon
    <3> SUFFICES ASSUME NEW i \in 1 .. Len(frames) + 1
                 PROVE  frames'[i].r # DefaultRewriter
      OBVIOUS
    <3>2. CASE frames'[i] = u
      BY <1>4, <1>7, <3>2
    <3> DEFINE k == i - 1
    <3>3. CASE k \in 1 .. Len(frames) /\ frames'[i] = frames[k]
      <4> HIDE DEF k
      <4> QED
        BY <1>17, <3>3
    <3> QED
      BY <3>1, <3>2, <3>3
  <2>2. ASSUME NEW i \in 1 .. Len(frames)
        PROVE  /\ rw'[frames'[i + 1].r].next = frames'[i].r
               /\ HasKernel(rw'[frames'[i + 1].r], rw'[frames'[i].r].func)
    <3> DEFINE k == i + 1
    <3>1. k \in 1 .. Len(frames) + 1 /\ frames'[k] = frames[i]
      <4>1. k \in 1 .. Len(frames) + 1 /\ k # 1 /\ k - 1 = i
        BY <1>1
      <4> HIDE DEF k
      <4> QED
        BY <1>14, <4>1
    <3> HIDE DEF k
    <3>2. \A p \in 1 .. N : \A g : HasKernel(rw[p], g) => HasKernel(rw'[p], g)
      BY <1>13 DEF HasKernel, Trace
    <3>3. CASE i = 1
      <4>1. frames'[i].r = n /\ frames'[k].r = r
        BY <1>1, <1>7, <1>15, <3>1, <3>3 DEF r
      <4>2. rw'[r].next = n /\ rw'[n].func = kernel.func /\ HasKernel(rw'[r], kernel.func)
        BY <1>1, <1>5, <1>6, <1>8, <1>12, <3>2 DEF x
      <4> QED
        BY <4>1, <4>2 DEF k
    <3>4. CASE i # 1
      <4> DEFINE j == i - 1
      <4>1. /\ j \in 1 .. Len(frames) - 1 /\ j \in 1 .. Len(frames) /\ j + 1 = i
            /\ frames'[i] = frames[j]
        <5>1. /\ j \in 1 .. Len(frames) - 1 /\ j \in 1 .. Len(frames) /\ j + 1 = i
              /\ i \in 1 .. Len(frames) + 1
          BY <1>1, <3>4
        <5> QED
          BY <1>14, <3>4, <5>1
      <4> HIDE DEF j
      <4>2. rw[frames[i].r].next = frames[j].r /\ HasKernel(rw[frames[i].r], rw[frames[j].r].func)
        BY <1>17, <4>1
      <4>3. frames[i].r \in 1 .. N /\ frames[i].r # r /\ frames[j].r \in 1 .. N
        BY <1>1, <3>4, <4>1
      <4>4. /\ rw'[frames[i].r].next = frames[j].r
            /\ HasKernel(rw'[frames[i].r], rw'[frames[j].r].func)
        BY <1>13, <3>2, <4>2, <4>3
      <4> QED
        BY <3>1, <4>1, <4>4 DEF k
    <3> QED
      BY <3>3, <3>4
  <2>3. ASSUME NEW q \in 3 .. n
        PROVE  BeingRewritten(q)' <=> q \notin f[n]
    <3>1. n \in 1 .. n /\ \A k \in 3 .. N : k \in 1 .. n
      <4>1. n = N + 1
        BY DEF n
      <4> QED
        BY <1>1, <4>1
    <3>2. CASE q = n
      <4>1. after[r] \subseteq 3 .. N
        BY <1>1, <1>17
      <4> QED
        BY <1>4, <1>11, <1>16, <3>1, <3>2, <4>1
    <3>3. CASE q \in 3 .. N
      BY <1>4, <1>11, <1>16, <1>17, <3>1, <3>3
    <3> QED
      BY <1>4, <3>2, <3>3
  <2>4. /\ Len(frames') = Len(frames) + 1 /\ frames'[1].r = n
        /\ \A i \in 1 .. Len(frames') - 1 : i \in 1 .. Len(frames)
    <3>1. Len(frames') = Len(frames) + 1 /\ frames'[1].r = n
      BY <1>7, <1>10, <1>15, Zenon
    <3>2. \A i \in 1 .. Len(frames') - 1 : i \in 1 .. Len(frames)
      BY <1>1, <3>1
    <3> QED
      BY <3>1, <3>2
  <2>5. /\ \A i \in 1 .. Len(frames') : frames'[i].r # DefaultRewriter
        /\ \A i \in 1 .. Len(frames') - 1 :
             /\ rw'[frames'[i + 1].r].next = frames'[i].r
             /\ HasKernel(rw'[frames'[i + 1].r], rw'[frames'[i].r].func)
        /\ \A q \in 3 .. Len(rw') : BeingRewritten(q)' <=> q \notin f[frames'[1].r]
    BY <1>12, <2>1, <2>2, <2>3, <2>4
  <2> QED
    BY <2>5 DEF Nested, HasKernel, Trace
<1>24. Serving(f)'
  BY <1>11, <1>20, <1>22, <1>23 DEF Serving, Linked
<1> QED
  BY <1>24 DEF VInv

----------------------------------------------------------------------------
(***************************************************************************)
(* Variants serve in every behaviour                                       *)
(***************************************************************************)

\* Every step of a rewriting.
LEMMA RewritingServes ==
  ASSUME IInv, TInv, Rewriting, NEW after, Serving(after)
  PROVE  VInv'
<1> DEFINE w == Head(frames)
           x == rw[w.r]
           t == Trace(x)[w.pos]
<1>1. frames # << >> /\ Alive
  BY DEF Rewriting
<1>2. /\ w \in Frames /\ w.r \in 1 .. Len(rw) /\ Tables(x) /\ InProgress(w, x)
  BY <1>1, InnermostFacts
<1>3. ~x.dead
  BY <1>1, <1>2 DEF Alive, IInv, Listed
<1>4. \/ EmulateBlock(w, x, t) \/ CaptureBlock(w, x, t) \/ Redirect(w, x, t.kernel)
      \/ Vectorize(w, x) \/ Optimise(w, x) \/ GenerateBlock(w, x)
  BY DEF Rewriting
<1> DEFINE Made == /\ Variants(w.r, t.kernel) = {}
                   /\ rw' = Append([rw EXCEPT ![w.r].next = Len(rw) + 1],
                                   resetCapturing(newVariant(x, t.kernel)))
                   /\ frames' = << Frame(Len(rw) + 1, "rewrite", FALSE) >> \o frames
<1>5. CASE w.phase = "redirect" /\ Made
  <2>1. /\ x.func \in Functions /\ Redirecting(w, x)
    BY <1>2, <1>3, <1>5 DEF InProgress, Capturing, Generating
  <2>2. w.pos \in 1 .. Len(Trace(x))
    BY <1>2, <2>1, TraceFacts DEF Redirecting, Frames, Tables
  <2>3. t \in TraceBlocks /\ HasKernel(x, t.kernel.func)
    <3>1. Trace(x) \in Seq(TraceBlocks)
      BY <1>2, <2>1, TraceFacts DEF Tables
    <3>2. t \in TraceBlocks /\ t \in Range(Trace(x))
      <4> DEFINE s == Trace(x)
      <4> HIDE DEF s
      <4> QED
        BY <2>2, <3>1 DEF Range, s
    <3> QED
      BY <3>2 DEF HasKernel
  <2>4. t.kernel.func \in Functions /\ t.kernel.params \in Params
    BY <2>1, <2>3, BlockTypes DEF Redirecting
  <2> QED
    BY <1>1, <1>5, <2>3, <2>4, VariantServes
<1>6. CASE \/ EmulateBlock(w, x, t) \/ CaptureBlock(w, x, t)
           \/ \E q \in Variants(w.r, t.kernel) : Captured(w, redirect(x, t.kernel, rw[q]))
           \/ Vectorize(w, x) \/ Optimise(w, x) \/ GenerateBlock(w, x)
  <2>1. Serving(after)'
    BY <1>1, <1>6, StepProceeds, StepServes
  <2> QED
    BY <2>1 DEF VInv
<1>7. Redirect(w, x, t.kernel) =>
        \/ w.phase = "redirect" /\ Made
        \/ \E q \in Variants(w.r, t.kernel) : Captured(w, redirect(x, t.kernel, rw[q]))
  BY DEF Redirect
<1> HIDE DEF w, x, t, Made
<1> QED
  BY <1>4, <1>5, <1>6, <1>7

LEMMA VariantsInvariant == Spec => [](IInv /\ TInv /\ VInv)
<1>1. Init => VInv
  <2> SUFFICES ASSUME Init
               PROVE  VInv
    OBVIOUS
  <2> DEFINE a == allocRewriter
             F == [r \in 0 .. 2 |-> {}]
  <2>1. a.next = 0 /\ Asked(a) = {}
    BY DEF allocRewriter, NoCode, Asked
  <2>2. rw = << a, a >> /\ frames = << >>
    BY DEF Init
  <2> HIDE DEF a
  <2>3. /\ Len(rw) = 2 /\ Len(frames) = 0 /\ \A r \in 1 .. 2 : rw[r] = a
        /\ 3 .. 2 = {} /\ 1 .. 0 = {} /\ 1 .. 0 - 1 = {}
    BY <2>2
  <2> PICK f : f = F
    OBVIOUS
  <2>4. f \in [0 .. 2 -> SUBSET (3 .. 2)] /\ f[0] = {} /\ \A r \in 1 .. 2 : f[r] = {}
    OBVIOUS
  <2> HIDE DEF F
  <2>5. Linked(f)
    BY <2>1, <2>3, <2>4 DEF Linked, Links
  <2>6. Distinct(f) /\ AllServed(f)
    BY <2>1, <2>3 DEF Distinct, AllServed
  <2>7. Nested(f)
    BY <2>2, <2>3 DEF Nested
  <2> QED
    BY <2>5, <2>6, <2>7 DEF VInv, Serving
<1>2. IInv /\ TInv /\ VInv /\ [Next]_vars => VInv'
  <2>1. ASSUME UNCHANGED vars, NEW after, Serving(after)
        PROVE  Serving(after)'
    <3>1. rw' = rw /\ frames' = frames
      BY <2>1 DEF vars
    <3>2. \A q : BeingRewritten(q)' <=> BeingRewritten(q)
      BY <3>1 DEF BeingRewritten
    <3>3. Linked(after)' /\ Distinct(after)'
      BY <2>1, <3>1 DEF Serving, Linked, Distinct
    <3>4. AllServed(after)'
      BY <2>1, <3>1, <3>2 DEF Serving, AllServed, Served
    <3>5. Nested(after)'
      BY <2>1, <3>1, <3>2 DEF Serving, Nested
    <3> QED
      BY <3>3, <3>4, <3>5 DEF Serving
  <2>2. ASSUME IInv, TInv, NEW after, Serving(after), [Next]_vars
        PROVE  VInv'
    <3>1. CASE API
      <4>1. Serving(after)'
        BY <2>2, <3>1, CallServes
      <4> QED
        BY <4>1 DEF VInv
    <3>2. CASE Rewriting
      BY <2>2, <3>2, RewritingServes
    <3>3. CASE UNCHANGED vars
      <4>1. Serving(after)'
        BY <2>1, <2>2, <3>3
      <4> QED
        BY <4>1 DEF VInv
    <3> QED
      BY <2>2, <3>1, <3>2, <3>3 DEF Next
  <2> QED
    BY <2>2 DEF VInv
<1> QED
  BY <1>1, <1>2, TablesInvariant, PTL DEF Spec

\* Variants of kernels, for any functions, vector sizes and calls: the client's
\* rewriter has one at most for a kernel, its parameters and a vector size, and
\* code that it gives out calls only variants whose rewriting has succeeded. That
\* holds although a variant is made while its caller is captured, and failed
\* rewritings, of the caller or in it, leave variants in the list.
\* convertToVector, handleVectorCall, dbrew_rewrite.
THEOREM VariantsAreServed == Spec => []VariantsServe
<1>1. ASSUME IInv, TInv, VInv
      PROVE  VariantsServe
  <2>1. PICK after : Serving(after)
    BY <1>1 DEF VInv
  <2>2. Related = after
    BY <1>1, <2>1, RelatedIs DEF Serving
  <2>3. /\ DOMAIN rw = 1 .. Len(rw) /\ Len(rw) \in Nat
        /\ \A r \in 1 .. Len(rw) : after[r] \subseteq 3 .. Len(rw) /\ r \in 0 .. Len(rw)
    <3>1. DOMAIN rw = 1 .. Len(rw) /\ Len(rw) \in Nat
      BY <1>1 DEF IInv, Listed
    <3> QED
      BY <2>1, <3>1 DEF Serving, Linked, Links
  <2>4. ASSUME NEW r \in 1 .. Len(rw), NEW p \in after[r], NEW q \in after[r],
               rw[p].func = rw[q].func, rw[p].vreq = rw[q].vreq
        PROVE  p = q
    BY <2>1, <2>3, <2>4 DEF Serving, Distinct
  <2>5. ASSUME NEW r \in 1 .. Len(rw), NEW c \in rw[r].code.callees, c.vreq # VR_None
        PROVE  \E q \in after[r] : /\ rw[q].func = c.func /\ rw[q].vreq = c.vreq
                                   /\ rw[q].addr = "code" /\ Whole(rw[q].code, c.func)
    <3>1. c \in Asked(rw[r])
      BY DEF Asked
    <3>2. PICK q \in after[r] : Serves(rw[q], c) /\ ~BeingRewritten(q)
      BY <2>1, <2>5, <3>1 DEF Serving, AllServed, Served
    <3>3. q \in 3 .. Len(rw) /\ q \in 1 .. Len(rw)
      BY <2>3
    <3>4. rw[q].cs /\ CodeOk(rw[q])
      BY <1>1, <2>1, <3>2, <3>3 DEF Serving, Distinct, TInv
    <3> QED
      BY <3>2, <3>4 DEF Serves, CodeOk
  <2> QED
    BY <2>2, <2>3, <2>4, <2>5 DEF VariantsServe
<1>2. IInv /\ TInv /\ VInv => VariantsServe
  BY <1>1
<1> QED
  BY <1>2, VariantsInvariant, PTL
=============================================================================
