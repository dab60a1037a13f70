--------------------------- MODULE RewriterProofs ---------------------------
(***************************************************************************)
(* Every rewriter finds functions as its client configured them: for any   *)
(* functions, any number of ranges, and any calls and rewritings.          *)
(***************************************************************************)
EXTENDS Rewriter, SequenceTheorems, WellFoundedInduction, TLAPS

RangeTypes == {"MR_Function", "MR_ConstantData"}
Ranges     == [type : RangeTypes, start : Nat, size : Nat]
Configs    == [parCount : Int, static : BOOLEAN, ranges : Seq(Ranges),
               asked : [DOMAIN Start -> Int]]

\* What configuring keeps: functions are configured as far as asked for, a range
\* of a function has the length asked for, configured functions have a range,
\* and only one.
IsFunction(m) == m.type = "MR_Function"

LengthsAsked(cc) ==
  \A f \in DOMAIN Start : cc.asked[f] \in {-1, 0, Extent[f]}
RangesAsked(cc) ==
  \A k \in 1 .. Len(cc.ranges) : IsFunction(cc.ranges[k]) =>
    \E f \in DOMAIN Start : /\ cc.ranges[k].start = Start[f]
                            /\ cc.asked[f] # -1 /\ cc.ranges[k].size = cc.asked[f]
AskedHaveRange(cc) ==
  \A f \in DOMAIN Start : cc.asked[f] # -1 =>
    \E k \in 1 .. Len(cc.ranges) : IsFunction(cc.ranges[k]) /\ cc.ranges[k].start = Start[f]
OneRange(cc) ==
  \A k, l \in 1 .. Len(cc.ranges) :
    /\ IsFunction(cc.ranges[k]) /\ IsFunction(cc.ranges[l])
    /\ cc.ranges[k].start = cc.ranges[l].start
    => k = l

Configured(cc) ==
  /\ cc \in Configs
  /\ LengthsAsked(cc) /\ RangesAsked(cc) /\ AskedHaveRange(cc) /\ OneRange(cc)

----------------------------------------------------------------------------
(***************************************************************************)
(* Configurations                                                          *)
(***************************************************************************)

\* A nonempty set of positions in a sequence has a least one.
LEMMA LeastPosition ==
  ASSUME NEW n \in Nat, NEW S, S \subseteq 1 .. n, S # {}
  PROVE  Min(S) \in S
<1> DEFINE Below == OpToRel(<, Nat)
<1>1. IsWellFoundedOn(Below, Nat)
  BY NatLessThanWellFounded
<1>2. \A y, x \in Nat : y < x => << y, x >> \in Below
  BY DEF OpToRel
<1>3. S \subseteq Nat
  OBVIOUS
<1> HIDE DEF Below
<1>4. PICK x \in S : \A y \in S : ~(<< y, x >> \in Below)
  BY <1>1, <1>3, WFMin
<1>5. \A y \in S : ~(y < x)
  BY <1>2, <1>3, <1>4
<1>6. \A y \in S : x <= y
  BY <1>3, <1>5
<1> QED
  BY <1>6 DEF Min

\* The starts of functions differ, and functions do not overlap.
LEMMA Apart ==
  ASSUME NEW f \in DOMAIN Start, NEW g \in DOMAIN Start, NEW addr \in Nat,
         addr >= Start[f], addr < Start[f] + Extent[f],
         addr >= Start[g], addr < Start[g] + Extent[g]
  PROVE  f = g
BY ConfigurationAssumption

\* The range found is one that fits, if one fits.
LEMMA FindFacts ==
  ASSUME NEW cc, Configured(cc), NEW addr \in Nat
  PROVE  LET k == mrc_find(cc, addr)
         IN \/ /\ k \in 1 .. Len(cc.ranges)
               /\ IsFunction(cc.ranges[k]) /\ Covers(cc.ranges[k], addr)
            \/ /\ k = 0
               /\ \A j \in 1 .. Len(cc.ranges) :
                    ~(IsFunction(cc.ranges[j]) /\ Covers(cc.ranges[j], addr))
<1> DEFINE I == { i \in 1 .. Len(cc.ranges) :
                    IsFunction(cc.ranges[i]) /\ Covers(cc.ranges[i], addr) }
<1>1. mrc_find(cc, addr) = IF I # {} THEN Min(I) ELSE 0
  BY DEF mrc_find, SelectInSeq, IsFunction
<1>2. Len(cc.ranges) \in Nat
  BY DEF Configured, Configs
<1>3. I # {} => Min(I) \in I
  BY <1>2, LeastPosition
<1> QED
  BY <1>1, <1>3

\* A range of a function that covers an address in f is that of f.
LEMMA OwnRange ==
  ASSUME NEW cc, Configured(cc), NEW f \in DOMAIN Start,
         NEW addr \in Start[f] .. (Start[f] + Extent[f] - 1),
         NEW k \in 1 .. Len(cc.ranges), IsFunction(cc.ranges[k]),
         Covers(cc.ranges[k], addr)
  PROVE  /\ cc.ranges[k].start = Start[f] /\ cc.ranges[k].size = cc.asked[f]
         /\ cc.asked[f] # -1
         /\ addr = Start[f] \/ addr < Start[f] + cc.asked[f]
<1>1. PICK g \in DOMAIN Start : /\ cc.ranges[k].start = Start[g]
                                /\ cc.asked[g] # -1 /\ cc.ranges[k].size = cc.asked[g]
  BY DEF Configured, RangesAsked
<1>2. cc.asked[g] \in {0, Extent[g]} /\ cc.asked[g] \in Int
  BY <1>1 DEF Configured, Configs, LengthsAsked
<1>3. /\ Start[f] \in Nat /\ Extent[f] \in Nat \ {0}
      /\ Start[g] \in Nat /\ Extent[g] \in Nat \ {0} /\ addr \in Nat
  BY ConfigurationAssumption
<1>4. addr = Start[g] \/ (addr > Start[g] /\ addr < Start[g] + cc.asked[g])
  BY <1>1 DEF Covers
<1>5. addr >= Start[g] /\ addr < Start[g] + Extent[g]
  BY <1>2, <1>3, <1>4
<1>6. f = g
  BY <1>3, <1>5, Apart
<1> QED
  BY <1>1, <1>4, <1>6

\* Functions are found as configured, whatever the order of the ranges.
LEMMA ConfiguredFound ==
  ASSUME NEW cc, Configured(cc)
  PROVE  FoundAsAsked(cc)
<1> SUFFICES ASSUME NEW f \in DOMAIN Start,
                    NEW addr \in Start[f] .. (Start[f] + Extent[f] - 1)
             PROVE  LET k == mrc_find(cc, addr)
                    IN IF cc.asked[f] > addr - Start[f] \/ (cc.asked[f] = 0 /\ addr = Start[f])
                       THEN k # 0 /\ cc.ranges[k].start = Start[f]
                            /\ cc.ranges[k].size = cc.asked[f]
                       ELSE k = 0
  BY DEF FoundAsAsked
<1> DEFINE k == mrc_find(cc, addr)
<1>1. /\ Start[f] \in Nat /\ Extent[f] \in Nat \ {0} /\ addr \in Nat
      /\ cc.asked[f] \in {-1, 0, Extent[f]} /\ Len(cc.ranges) \in Nat
  BY ConfigurationAssumption DEF Configured, Configs, LengthsAsked
<1>2. k # 0 => /\ cc.ranges[k].start = Start[f] /\ cc.ranges[k].size = cc.asked[f]
               /\ cc.asked[f] # -1
               /\ addr = Start[f] \/ addr < Start[f] + cc.asked[f]
  BY <1>1, FindFacts, OwnRange
<1>3. ASSUME cc.asked[f] > addr - Start[f] \/ (cc.asked[f] = 0 /\ addr = Start[f])
      PROVE  k # 0
  <2>1. cc.asked[f] # -1
    BY <1>1, <1>3
  <2>2. PICK j \in 1 .. Len(cc.ranges) : /\ IsFunction(cc.ranges[j])
                                         /\ cc.ranges[j].start = Start[f]
    BY <2>1 DEF Configured, AskedHaveRange
  <2>3. PICK g \in DOMAIN Start : /\ cc.ranges[j].start = Start[g]
                                  /\ cc.ranges[j].size = cc.asked[g]
    BY <2>2 DEF Configured, RangesAsked
  <2>4. Start[f] = Start[g] /\ f = g
    <3>1. Start[f] = Start[g]
      BY <2>2, <2>3
    <3> QED
      BY <3>1, Apart, ConfigurationAssumption
  <2>5. Covers(cc.ranges[j], addr)
    BY <1>1, <1>3, <2>2, <2>3, <2>4 DEF Covers
  <2> QED
    BY <1>1, <2>2, <2>5, FindFacts
<1> QED
  BY <1>1, <1>2, <1>3

\* A new configuration, and none, has no ranges and nothing asked for.
LEMMA NewConfigured == Configured(cc_new) /\ Configured(NoConfig)
<1>1. << >> \in Seq(Ranges) /\ Len(<< >>) = 0
  OBVIOUS
<1>2. cc_new \in Configs /\ NoConfig \in Configs
  <2>1. cc_new \in Configs
    BY <1>1 DEF Configs, cc_new
  <2>2. [cc_new EXCEPT !.parCount = -2] \in Configs
    BY <2>1 DEF Configs
  <2> QED
    BY <2>1, <2>2 DEF NoConfig
<1>3. \A cc \in {cc_new, NoConfig} :
        cc.ranges = << >> /\ \A f \in DOMAIN Start : cc.asked[f] = -1
  BY DEF NoConfig, cc_new
<1> QED
  BY <1>1, <1>2, <1>3
     DEF Configured, LengthsAsked, RangesAsked, AskedHaveRange, OneRange

\* A configuration made on demand.
LEMMA GetConfigured ==
  ASSUME NEW cc, Configured(cc)
  PROVE  Configured(cc_get(cc))
BY NewConfigured DEF cc_get

\* The number of parameters, and which are static, do not matter.
LEMMA ParametersConfigured ==
  ASSUME NEW cc, Configured(cc)
  PROVE  /\ Configured([cc EXCEPT !.static = TRUE])
         /\ \A n \in Int : Configured([cc EXCEPT !.parCount = n])
<1>1. ASSUME NEW d \in Configs, d.ranges = cc.ranges, d.asked = cc.asked
      PROVE  Configured(d)
  BY <1>1 DEF Configured, LengthsAsked, RangesAsked, AskedHaveRange, OneRange
<1>2. cc \in Configs
  BY DEF Configured
<1>3. /\ [cc EXCEPT !.static = TRUE] \in Configs
      /\ [cc EXCEPT !.static = TRUE].ranges = cc.ranges
      /\ [cc EXCEPT !.static = TRUE].asked = cc.asked
  BY <1>2 DEF Configs
<1>4. \A n \in Int : /\ [cc EXCEPT !.parCount = n] \in Configs
                     /\ [cc EXCEPT !.parCount = n].ranges = cc.ranges
                     /\ [cc EXCEPT !.parCount = n].asked = cc.asked
  BY <1>2 DEF Configs
<1> QED
  BY <1>1, <1>3, <1>4

\* A range in front: the others move by one.
LEMMA PrependFacts ==
  ASSUME NEW s \in Seq(Ranges), NEW m \in Ranges
  PROVE  LET t == << m >> \o s
         IN /\ t \in Seq(Ranges) /\ Len(t) = Len(s) + 1 /\ t[1] = m
            /\ \A k \in 1 .. Len(s) : t[k + 1] = s[k]
            /\ \A k \in 1 .. Len(t) : k # 1 => k - 1 \in 1 .. Len(s) /\ t[k] = s[k - 1]
OBVIOUS

\* A range of data in front does not change which function is found.
LEMMA MemrangeConfigured ==
  ASSUME NEW cc, Configured(cc), NEW f \in DOMAIN Start
  PROVE  Configured(set_memrange(cc, f))
<1> DEFINE m == [type |-> "MR_ConstantData", start |-> Start[f], size |-> Extent[f]]
           t == << m >> \o cc.ranges
           d == [cc EXCEPT !.ranges = t]
<1>1. m \in Ranges /\ cc \in Configs /\ ~IsFunction(m)
  BY ConfigurationAssumption DEF Ranges, RangeTypes, Configured, IsFunction
<1>2. set_memrange(cc, f) = d
  BY DEF set_memrange, mrc_new
<1>3. cc.ranges \in Seq(Ranges) /\ Len(cc.ranges) \in Nat
  BY <1>1 DEF Configs
<1> HIDE DEF m
<1>4. /\ t \in Seq(Ranges) /\ Len(t) = Len(cc.ranges) + 1 /\ t[1] = m
      /\ \A k \in 1 .. Len(cc.ranges) : t[k + 1] = cc.ranges[k]
      /\ \A k \in 1 .. Len(t) :
           k # 1 => k - 1 \in 1 .. Len(cc.ranges) /\ t[k] = cc.ranges[k - 1]
  BY <1>1, <1>3, PrependFacts
<1> HIDE DEF t
<1>5. d \in Configs /\ d.asked = cc.asked /\ d.ranges = t
  BY <1>1, <1>4 DEF Configs
<1> HIDE DEF d
<1>6. \A k \in 1 .. Len(t) : IsFunction(t[k]) =>
        k - 1 \in 1 .. Len(cc.ranges) /\ t[k] = cc.ranges[k - 1]
  BY <1>1, <1>4
<1>7. AskedHaveRange(d)
  <2> SUFFICES ASSUME NEW g \in DOMAIN Start, cc.asked[g] # -1
               PROVE  \E k \in 1 .. Len(t) : IsFunction(t[k]) /\ t[k].start = Start[g]
    BY <1>5 DEF AskedHaveRange
  <2>1. PICK k \in 1 .. Len(cc.ranges) :
          IsFunction(cc.ranges[k]) /\ cc.ranges[k].start = Start[g]
    BY DEF Configured, AskedHaveRange
  <2>2. k + 1 \in 1 .. Len(t) /\ t[k + 1] = cc.ranges[k]
    BY <1>3, <1>4
  <2> QED
    BY <2>1, <2>2
<1>8. OneRange(d)
  <2> SUFFICES ASSUME NEW k \in 1 .. Len(t), NEW l \in 1 .. Len(t),
                      IsFunction(t[k]), IsFunction(t[l]), t[k].start = t[l].start
               PROVE  k = l
    BY <1>5 DEF OneRange
  <2> DEFINE i == k - 1
             j == l - 1
  <2>1. /\ i \in 1 .. Len(cc.ranges) /\ j \in 1 .. Len(cc.ranges)
        /\ t[k] = cc.ranges[i] /\ t[l] = cc.ranges[j]
    BY <1>6
  <2> HIDE DEF i, j
  <2>2. i = j
    BY <2>1 DEF Configured, OneRange
  <2> QED
    BY <2>2, <1>3, <1>4 DEF i, j
<1>9. RangesAsked(d)
  <2> SUFFICES ASSUME NEW k \in 1 .. Len(t), IsFunction(t[k])
               PROVE  \E g \in DOMAIN Start : /\ t[k].start = Start[g]
                                              /\ cc.asked[g] # -1 /\ t[k].size = cc.asked[g]
    BY <1>5 DEF RangesAsked
  <2> DEFINE i == k - 1
  <2>1. i \in 1 .. Len(cc.ranges) /\ t[k] = cc.ranges[i]
    BY <1>6
  <2> HIDE DEF i
  <2> QED
    BY <2>1 DEF Configured, RangesAsked
<1>10. LengthsAsked(d)
  BY <1>5 DEF Configured, LengthsAsked
<1> QED
  BY <1>2, <1>5, <1>7, <1>8, <1>9, <1>10 DEF Configured

\* Whether a function was configured shows where it starts.
LEMMA FoundAtStart ==
  ASSUME NEW cc, Configured(cc), NEW f \in DOMAIN Start
  PROVE  LET k == mrc_find(cc, Start[f])
         IN /\ k = 0 => cc.asked[f] = -1
            /\ k # 0 => /\ k \in 1 .. Len(cc.ranges) /\ IsFunction(cc.ranges[k])
                       /\ cc.ranges[k].start = Start[f] /\ cc.asked[f] # -1
<1>1. /\ Start[f] \in Nat /\ Extent[f] \in Nat \ {0}
      /\ Start[f] \in Start[f] .. (Start[f] + Extent[f] - 1)
  BY ConfigurationAssumption
<1>2. cc.asked[f] \in {-1, 0, Extent[f]}
  BY DEF Configured, LengthsAsked
<1>3. mrc_find(cc, Start[f]) = 0 => cc.asked[f] = -1
  BY <1>1, <1>2, ConfiguredFound DEF FoundAsAsked
<1>4. mrc_find(cc, Start[f]) # 0 =>
        /\ mrc_find(cc, Start[f]) \in 1 .. Len(cc.ranges)
        /\ IsFunction(cc.ranges[mrc_find(cc, Start[f])])
        /\ Covers(cc.ranges[mrc_find(cc, Start[f])], Start[f])
  BY <1>1, FindFacts
<1> QED
  BY <1>1, <1>3, <1>4, OwnRange

\* A function configured for the first time gets a range, of length 0.
LEMMA FirstConfigured ==
  ASSUME NEW cc, Configured(cc), NEW f \in DOMAIN Start, mrc_find(cc, Start[f]) = 0
  PROVE  Configured(function_setname(cc, f))
<1> DEFINE m == [type |-> "MR_Function", start |-> Start[f], size |-> 0]
           t == << m >> \o cc.ranges
           a == [cc.asked EXCEPT ![f] = 0]
           d == [[cc EXCEPT !.ranges = t] EXCEPT !.asked = a]
<1>1. /\ m \in Ranges /\ cc \in Configs /\ IsFunction(m)
      /\ m.start = Start[f] /\ m.size = 0
  BY ConfigurationAssumption DEF Ranges, RangeTypes, Configured, IsFunction
<1>2. cc.asked[f] = -1 /\ cc.asked \in [DOMAIN Start -> Int]
  BY <1>1, FoundAtStart DEF Configs
<1>3. function_setname(cc, f) = d
  <2>1. fc_get(cc, f) = [cc EXCEPT !.ranges = t]
    BY DEF fc_get, mrc_new
  <2>2. [cc EXCEPT !.ranges = t].asked = cc.asked
    BY <1>1 DEF Configs
  <2> QED
    BY <1>2, <2>1, <2>2 DEF function_setname
<1>4. cc.ranges \in Seq(Ranges) /\ Len(cc.ranges) \in Nat
  BY <1>1 DEF Configs
<1> HIDE DEF m
<1>5. /\ t \in Seq(Ranges) /\ Len(t) = Len(cc.ranges) + 1 /\ t[1] = m
      /\ \A k \in 1 .. Len(cc.ranges) : t[k + 1] = cc.ranges[k]
      /\ \A k \in 1 .. Len(t) :
           k # 1 => k - 1 \in 1 .. Len(cc.ranges) /\ t[k] = cc.ranges[k - 1]
  BY <1>1, <1>4, PrependFacts
<1> HIDE DEF t
<1>6. /\ a \in [DOMAIN Start -> Int] /\ a[f] = 0
      /\ \A g \in DOMAIN Start : g # f => a[g] = cc.asked[g]
  BY <1>2
<1> HIDE DEF a
<1>7. d \in Configs /\ d.asked = a /\ d.ranges = t
  BY <1>1, <1>5, <1>6 DEF Configs
<1> HIDE DEF d
<1>8. \A k \in 1 .. Len(cc.ranges) : IsFunction(cc.ranges[k]) =>
        \E g \in DOMAIN Start : /\ g # f /\ cc.ranges[k].start = Start[g] /\ Start[g] # Start[f]
                                /\ cc.asked[g] # -1 /\ cc.ranges[k].size = cc.asked[g]
  <2>1. \A g \in DOMAIN Start : Start[g] = Start[f] => g = f
    BY Apart, ConfigurationAssumption
  <2> QED
    BY <1>2, <2>1 DEF Configured, RangesAsked
<1>9. AskedHaveRange(d)
  <2> SUFFICES ASSUME NEW g \in DOMAIN Start, a[g] # -1
               PROVE  \E k \in 1 .. Len(t) : IsFunction(t[k]) /\ t[k].start = Start[g]
    BY <1>7 DEF AskedHaveRange
  <2>1. CASE g = f
    <3>1. 1 \in 1 .. Len(t) /\ IsFunction(t[1]) /\ t[1].start = Start[g]
      BY <1>1, <1>4, <1>5, <2>1
    <3> QED
      BY <3>1
  <2>2. CASE g # f
    <3>1. PICK k \in 1 .. Len(cc.ranges) :
            IsFunction(cc.ranges[k]) /\ cc.ranges[k].start = Start[g]
      BY <1>6, <2>2 DEF Configured, AskedHaveRange
    <3>2. k + 1 \in 1 .. Len(t) /\ t[k + 1] = cc.ranges[k]
      BY <1>4, <1>5
    <3> QED
      BY <3>1, <3>2
  <2> QED
    BY <2>1, <2>2
<1>10. \A k \in 1 .. Len(t) : IsFunction(t[k]) /\ k # 1 =>
         /\ k - 1 \in 1 .. Len(cc.ranges) /\ t[k] = cc.ranges[k - 1]
         /\ t[k].start # Start[f]
         /\ \E g \in DOMAIN Start : /\ t[k].start = Start[g]
                                  /\ a[g] # -1 /\ t[k].size = a[g]
  <2> SUFFICES ASSUME NEW k \in 1 .. Len(t), IsFunction(t[k]), k # 1
               PROVE  /\ k - 1 \in 1 .. Len(cc.ranges) /\ t[k] = cc.ranges[k - 1]
                      /\ t[k].start # Start[f]
                      /\ \E g \in DOMAIN Start : /\ t[k].start = Start[g]
                                               /\ a[g] # -1 /\ t[k].size = a[g]
    OBVIOUS
  <2> DEFINE i == k - 1
  <2>1. i \in 1 .. Len(cc.ranges) /\ t[k] = cc.ranges[i]
    BY <1>5
  <2> HIDE DEF i
  <2>2. PICK g \in DOMAIN Start :
          /\ g # f /\ cc.ranges[i].start = Start[g] /\ Start[g] # Start[f]
          /\ cc.asked[g] # -1 /\ cc.ranges[i].size = cc.asked[g]
    BY <1>8, <2>1
  <2> QED
    BY <1>6, <2>1, <2>2 DEF i
<1>11. OneRange(d)
  <2> SUFFICES ASSUME NEW k \in 1 .. Len(t), NEW l \in 1 .. Len(t),
                      IsFunction(t[k]), IsFunction(t[l]), t[k].start = t[l].start
               PROVE  k = l
    BY <1>7 DEF OneRange
  <2>1. CASE k = 1 \/ l = 1
    BY <1>1, <1>5, <1>10, <2>1
  <2>2. CASE k # 1 /\ l # 1
    <3> DEFINE i == k - 1
               j == l - 1
    <3>1. /\ i \in 1 .. Len(cc.ranges) /\ j \in 1 .. Len(cc.ranges)
          /\ t[k] = cc.ranges[i] /\ t[l] = cc.ranges[j]
      BY <1>10, <2>2
    <3> HIDE DEF i, j
    <3>2. i = j
      BY <3>1 DEF Configured, OneRange
    <3> QED
      BY <3>2, <1>4, <1>5 DEF i, j
  <2> QED
    BY <2>1, <2>2
<1>12. RangesAsked(d)
  BY <1>1, <1>5, <1>6, <1>7, <1>10 DEF RangesAsked
<1>13. LengthsAsked(d)
  BY <1>6, <1>7 DEF Configured, LengthsAsked
<1> QED
  BY <1>3, <1>7, <1>9, <1>11, <1>12, <1>13 DEF Configured

\* Naming a function that is configured changes nothing of its range.
LEMMA NameConfigured ==
  ASSUME NEW cc, Configured(cc), NEW f \in DOMAIN Start
  PROVE  Configured(function_setname(cc, f)) /\ function_setname(cc, f).asked[f] # -1
<1>1. cc \in Configs
  BY DEF Configured
<1>2. CASE mrc_find(cc, Start[f]) = 0
  <2>1. cc.asked[f] = -1
    BY <1>2, FoundAtStart
  <2>2. fc_get(cc, f).asked = cc.asked /\ "asked" \in DOMAIN fc_get(cc, f)
    BY <1>1, <1>2 DEF fc_get, mrc_new, Configs
  <2>3. function_setname(cc, f).asked[f] = 0
    BY <1>1, <2>1, <2>2 DEF function_setname, Configs
  <2> QED
    BY <1>2, <2>3, FirstConfigured
<1>3. CASE mrc_find(cc, Start[f]) # 0
  <2>1. cc.asked[f] # -1
    BY <1>3, FoundAtStart
  <2>2. fc_get(cc, f) = cc
    BY <1>3 DEF fc_get
  <2>3. [cc EXCEPT !.asked[f] = IF @ = -1 THEN 0 ELSE @] = cc
    BY <1>1, <2>1 DEF Configs
  <2> QED
    BY <2>1, <2>2, <2>3 DEF function_setname
<1> QED
  BY <1>2, <1>3

\* The length is given to the range of the function.
LEMMA SizeConfigured ==
  ASSUME NEW cc, Configured(cc), NEW f \in DOMAIN Start
  PROVE  Configured(function_setsize(cc, f))
<1> DEFINE e == function_setname(cc, f)
           k == mrc_find(e, Start[f])
           t == [e.ranges EXCEPT ![k] = [@ EXCEPT !.size = Extent[f]]]
           a == [e.asked EXCEPT ![f] = Extent[f]]
           d == [[e EXCEPT !.ranges = t] EXCEPT !.asked = a]
<1>1. Configured(e) /\ e.asked[f] # -1
  BY NameConfigured
<1>2. cc \in Configs /\ e \in Configs
  BY <1>1 DEF Configured
<1>3. function_setsize(cc, f) = d
  <2>1. fc_get(cc, f) \in Configs
    <3>1. [type |-> "MR_Function", start |-> Start[f], size |-> 0] \in Ranges
      BY ConfigurationAssumption DEF Ranges, RangeTypes
    <3>2. << [type |-> "MR_Function", start |-> Start[f], size |-> 0] >> \o cc.ranges
            \in Seq(Ranges)
      BY <1>2, <3>1 DEF Configs
    <3> QED
      BY <1>2, <3>2 DEF fc_get, mrc_new, Configs
  <2>2. e.ranges = fc_get(cc, f).ranges
    BY <2>1 DEF function_setname, Configs
  <2>3. mrc_find(fc_get(cc, f), Start[f]) = k
    BY <2>2 DEF mrc_find, SelectInSeq
  <2>4. function_setsize(cc, f) =
          [fc_get(cc, f) EXCEPT !.ranges = t, !.asked = [@ EXCEPT ![f] = Extent[f]]]
    BY <2>1, <2>2, <2>3 DEF function_setsize
  <2>5. a = [fc_get(cc, f).asked EXCEPT ![f] = Extent[f]]
    BY <2>1 DEF function_setname, Configs
  <2> QED
    BY <1>2, <2>1, <2>4, <2>5 DEF function_setname, Configs
<1>4. /\ k \in 1 .. Len(e.ranges) /\ IsFunction(e.ranges[k])
      /\ e.ranges[k].start = Start[f]
  BY <1>1, FoundAtStart
<1>5. /\ Extent[f] \in Nat \ {0}
      /\ \A g \in DOMAIN Start : Start[g] = Start[f] => g = f
  BY Apart, ConfigurationAssumption
<1> HIDE DEF e, k
<1>6. /\ t \in Seq(Ranges) /\ Len(t) = Len(e.ranges) /\ Len(t) \in Nat
      /\ \A j \in 1 .. Len(t) : /\ t[j].type = e.ranges[j].type
                                /\ t[j].start = e.ranges[j].start
                                /\ t[j].size = IF j = k THEN Extent[f] ELSE e.ranges[j].size
  <2>1. e.ranges \in Seq(Ranges) /\ Len(e.ranges) \in Nat
    BY <1>2 DEF Configs
  <2>2. \A j \in 1 .. Len(e.ranges) : e.ranges[j] \in Ranges
    BY <2>1
  <2> DEFINE m == [e.ranges[k] EXCEPT !.size = Extent[f]]
  <2>3. /\ m \in Ranges /\ m.type = e.ranges[k].type /\ m.start = e.ranges[k].start
        /\ m.size = Extent[f]
    BY <1>4, <1>5, <2>2 DEF Ranges
  <2>4. t = [e.ranges EXCEPT ![k] = m]
    OBVIOUS
  <2> HIDE DEF m, t
  <2>5. t \in Seq(Ranges) /\ Len(t) = Len(e.ranges)
    BY <1>4, <2>1, <2>3, <2>4
  <2>6. \A j \in 1 .. Len(t) : t[j] = IF j = k THEN m ELSE e.ranges[j]
    BY <1>4, <2>1, <2>4, <2>5
  <2> QED
    BY <2>1, <2>3, <2>5, <2>6
<1> HIDE DEF t
<1>7. /\ a \in [DOMAIN Start -> Int] /\ a[f] = Extent[f]
      /\ \A g \in DOMAIN Start : g # f => a[g] = e.asked[g]
  BY <1>2, <1>5 DEF Configs
<1> HIDE DEF a
<1>8. d \in Configs /\ d.asked = a /\ d.ranges = t
  BY <1>2, <1>6, <1>7 DEF Configs
<1> HIDE DEF d
<1>9. RangesAsked(d)
  <2> SUFFICES ASSUME NEW j \in 1 .. Len(t), IsFunction(t[j])
               PROVE  \E g \in DOMAIN Start : /\ t[j].start = Start[g]
                                              /\ a[g] # -1 /\ t[j].size = a[g]
    BY <1>8 DEF RangesAsked
  <2>1. CASE j = k
    BY <1>4, <1>5, <1>6, <1>7, <2>1
  <2>2. CASE j # k
    <3>1. IsFunction(e.ranges[j]) /\ e.ranges[j].start # Start[f]
      BY <1>1, <1>4, <1>6, <2>2 DEF IsFunction, Configured, OneRange
    <3>2. PICK g \in DOMAIN Start : /\ e.ranges[j].start = Start[g]
                                    /\ e.asked[g] # -1 /\ e.ranges[j].size = e.asked[g]
      BY <1>1, <1>6, <3>1 DEF Configured, RangesAsked
    <3> QED
      BY <1>6, <1>7, <2>2, <3>1, <3>2
  <2> QED
    BY <2>1, <2>2
<1>10. AskedHaveRange(d)
  <2> SUFFICES ASSUME NEW g \in DOMAIN Start, a[g] # -1
               PROVE  \E j \in 1 .. Len(t) : IsFunction(t[j]) /\ t[j].start = Start[g]
    BY <1>8 DEF AskedHaveRange
  <2>1. e.asked[g] # -1
    BY <1>1, <1>7
  <2> QED
    BY <1>1, <1>6, <2>1 DEF Configured, AskedHaveRange, IsFunction
<1>11. OneRange(d)
  BY <1>1, <1>6, <1>8 DEF Configured, OneRange, IsFunction
<1>12. LengthsAsked(d)
  BY <1>1, <1>7, <1>8 DEF Configured, LengthsAsked
<1> QED
  BY <1>3, <1>8, <1>9, <1>10, <1>11, <1>12 DEF Configured

----------------------------------------------------------------------------
(***************************************************************************)
(* Rewriters: only the calls that configure change a configuration         *)
(***************************************************************************)
Ok(x) == "cc" \in DOMAIN x /\ Configured(x.cc)

\* initRewriter leaves the configuration and the list of rewriters alone.
LEMMA InitKeeps ==
  ASSUME NEW x, Ok(x)
  PROVE  Ok(initRewriter(x)) /\ Ok(Dead(x))
BY DEF Ok, initRewriter, Dead

\* Setting a function starts a new configuration.
LEMMA SetFunctionConfigured ==
  ASSUME NEW x, Ok(x), NEW f
  PROVE  Ok(setFunction(x, f)) /\ setFunction(x, f).cc = cc_new
BY InitKeeps, NewConfigured DEF Ok, setFunction

\* Capacities have nothing to do with the configuration.
LEMMA CapacitiesKeep ==
  ASSUME NEW x, Ok(x), NEW c
  PROVE  Ok(setDecodingCapacity(x, c)) /\ Ok(setCaptureCapacity(x, c))
BY DEF Ok, setDecodingCapacity, setCaptureCapacity

\* Decoding makes a configuration at most, when the printer looks for a name.
LEMMA DecodeKeeps ==
  ASSUME NEW x, Ok(x), NEW b
  PROVE  Ok(decode(x, b))
<1> DEFINE y == IF x.dec THEN x ELSE initRewriter(x)
           z == [y EXCEPT !.cc = cc_get(@)]
<1>1. Ok(y)
  BY InitKeeps
<1> HIDE DEF y
<1>2. Ok(z)
  BY <1>1, GetConfigured DEF Ok
<1> HIDE DEF z
<1>3. \A n : Ok([z EXCEPT !.decBB = Append(@, [ block |-> b, count |-> n ]),
                        !.decInstrCount = @ + n])
  BY <1>2 DEF Ok
<1>4. Ok(Dead(z))
  BY <1>2, InitKeeps
<1> QED
  BY <1>2, <1>3, <1>4 DEF decode, y, z

\* So does emulating a block, which decodes it.
LEMMA EmulateKeeps ==
  ASSUME NEW x, Ok(x), NEW b, NEW f
  PROVE  Ok(emulateBlock(x, b)) /\ Ok(decodePrint(x, f))
<1>1. Ok(emulateBlock(x, b))
  BY DecodeKeeps, InitKeeps DEF emulateBlock
<1>2. Ok([x EXCEPT !.decBB = << >>])
  BY DEF Ok
<1>3. Ok(decode([x EXCEPT !.decBB = << >>], << f, 1 >>))
  BY <1>2, DecodeKeeps
<1> QED
  BY <1>1, <1>3 DEF decodePrint, Ok

\* Capturing and the passes leave the configuration alone.
LEMMA CaptureKeeps ==
  ASSUME NEW x, Ok(x), NEW t, NEW kernel, NEW variant
  PROVE  /\ Ok(resetCapturing(x)) /\ Ok(captureBlock(x, t))
         /\ Ok(redirect(x, kernel, variant))
<1>1. Ok(Dead(x))
  BY InitKeeps
<1> QED
  BY <1>1 DEF Ok, resetCapturing, captureBlock, getCaptureBBs, redirect

\* So does generating.
LEMMA GenerateKeeps ==
  ASSUME NEW x, Ok(x), NEW i
  PROVE  /\ Ok(optPass(x, i)) /\ Ok(vecPass(x))
         /\ Ok(generate(x, i)) /\ Ok(link(generate(x, i)))
BY DEF Ok, optPass, optPassCopy, vecPass, generate, intoOrder, link

\* The rewriter of a variant has a configuration of its own, without ranges.
LEMMA NewVariantConfigured ==
  ASSUME NEW x, Ok(x), NEW kernel
  PROVE  Ok(newVariant(x, kernel))
<1> DEFINE a == [allocRewriter EXCEPT !.next = x.next]
           y == setFunction(a, kernel.func)
<1>1. Ok(a)
  BY NewConfigured DEF Ok, allocRewriter
<1> HIDE DEF a
<1>2. Ok(y) /\ y.cc = cc_new
  BY <1>1, SetFunctionConfigured
<1>3. Configured([cc_new EXCEPT !.parCount = ParCount(kernel.params)])
  <2>1. ParCount(kernel.params) \in Int
    BY DEF ParCount
  <2> QED
    BY <2>1, NewConfigured, ParametersConfigured
<1> HIDE DEF y
<1>4. newVariant(x, kernel) = [y EXCEPT !.vreq = vreqOf(x, kernel),
                                        !.cc.parCount = ParCount(kernel.params)]
  BY DEF newVariant, y, a
<1> QED
  BY <1>2, <1>3, <1>4 DEF Ok

----------------------------------------------------------------------------
(***************************************************************************)
(* The rewriters, and the rewritings that go on                            *)
(***************************************************************************)
Listed(s) ==
  /\ \E S : s \in Seq(S)
  /\ Len(s) >= 2
  /\ \A r \in 1 .. Len(s) : Ok(s[r])

Framed(fs, n) ==
  /\ \E S : fs \in Seq(S)
  /\ \A i \in 1 .. Len(fs) : "r" \in DOMAIN fs[i] /\ fs[i].r \in 1 .. n

IInv == Listed(rw) /\ Framed(frames, Len(rw))

\* One rewriter that is replaced by one with a good configuration.
LEMMA PutKeeps ==
  ASSUME NEW s, Listed(s), NEW r \in 1 .. Len(s), NEW x, Ok(x)
  PROVE  Listed([s EXCEPT ![r] = x]) /\ Len([s EXCEPT ![r] = x]) = Len(s)
<1>1. PICK S : s \in Seq(S)
  BY DEF Listed
<1>2. s \in Seq(S \cup {x}) /\ x \in S \cup {x}
  BY <1>1
<1>3. /\ [s EXCEPT ![r] = x] \in Seq(S \cup {x})
      /\ Len([s EXCEPT ![r] = x]) = Len(s)
      /\ \A q \in 1 .. Len(s) : [s EXCEPT ![r] = x][q] = IF q = r THEN x ELSE s[q]
  BY <1>2
<1> QED
  BY <1>3 DEF Listed

\* One rewriter more, with a good configuration.
LEMMA AppendKeeps ==
  ASSUME NEW s, Listed(s), NEW x, Ok(x)
  PROVE  Listed(Append(s, x)) /\ Len(Append(s, x)) = Len(s) + 1
<1>1. PICK S : s \in Seq(S)
  BY DEF Listed
<1>2. s \in Seq(S \cup {x}) /\ x \in S \cup {x} /\ Len(s) \in Nat
  BY <1>1
<1>3. /\ Append(s, x) \in Seq(S \cup {x}) /\ Len(Append(s, x)) = Len(s) + 1
      /\ \A q \in 1 .. Len(s) + 1 : Append(s, x)[q] = IF q = Len(s) + 1 THEN x ELSE s[q]
  BY <1>2
<1> QED
  BY <1>2, <1>3 DEF Listed

\* The innermost rewriting may be replaced or end.
LEMMA FramesKeep ==
  ASSUME NEW fs, NEW n \in Nat, NEW m \in Nat, n <= m, Framed(fs, n),
         NEW w, "r" \in DOMAIN w, w.r \in 1 .. m
  PROVE  /\ Framed(fs, m) /\ Framed(<< w >>, m) /\ Framed(<< w >> \o fs, m)
         /\ fs # << >> => Framed([fs EXCEPT ![1] = w], m) /\ Framed(Tail(fs), m)
<1>1. PICK S : fs \in Seq(S)
  BY DEF Framed
<1>2. fs \in Seq(S \cup {w}) /\ w \in S \cup {w} /\ << w >> \in Seq(S \cup {w})
  BY <1>1
<1>3. Framed(fs, m) /\ Framed(<< w >>, m)
  <2>1. Framed(fs, m)
    BY <1>1 DEF Framed
  <2>2. \A i \in 1 .. Len(<< w >>) : << w >>[i] = w
    OBVIOUS
  <2>3. \E T : << w >> \in Seq(T)
    BY <1>2
  <2>4. Framed(<< w >>, m)
    BY <2>2, <2>3, Zenon DEF Framed
  <2> QED
    BY <2>1, <2>4
<1>4. Framed(<< w >> \o fs, m)
  <2>1. /\ << w >> \o fs \in Seq(S \cup {w}) /\ Len(<< w >> \o fs) = Len(fs) + 1
        /\ \A i \in 1 .. Len(fs) + 1 :
             (<< w >> \o fs)[i] = IF i = 1 THEN w ELSE fs[i - 1]
    BY <1>2
  <2>2. Len(fs) \in Nat
    BY <1>2
  <2> QED
    BY <1>3, <2>1, <2>2 DEF Framed
<1>5. ASSUME fs # << >>
      PROVE  Framed([fs EXCEPT ![1] = w], m) /\ Framed(Tail(fs), m)
  <2>1. /\ [fs EXCEPT ![1] = w] \in Seq(S \cup {w})
        /\ Len([fs EXCEPT ![1] = w]) = Len(fs)
        /\ \A i \in 1 .. Len(fs) : [fs EXCEPT ![1] = w][i] = IF i = 1 THEN w ELSE fs[i]
    BY <1>2, <1>5
  <2>2. /\ Tail(fs) \in Seq(S \cup {w}) /\ Len(Tail(fs)) = Len(fs) - 1
        /\ \A i \in 1 .. Len(Tail(fs)) : i + 1 \in 1 .. Len(fs) /\ Tail(fs)[i] = fs[i + 1]
    BY <1>2, <1>5
  <2> QED
    BY <1>3, <2>1, <2>2 DEF Framed
<1> QED
  BY <1>3, <1>4, <1>5

\* A step of the innermost rewriting, or its end, on a rewriter that is ok.
LEMMA StepKeeps ==
  ASSUME IInv, NEW w, "r" \in DOMAIN w, w.r \in 1 .. Len(rw), NEW x, Ok(x),
         frames # << >>, Goes(w, x) \/ Ends(w, x)
  PROVE  IInv'
<1>1. rw' = [rw EXCEPT ![w.r] = x] /\ Len(rw) \in Nat
  BY DEF Goes, Ends, IInv, Listed
<1>2. Listed(rw') /\ Len(rw') = Len(rw)
  BY <1>1, PutKeeps DEF IInv
<1>3. frames' = [frames EXCEPT ![1] = w] \/ frames' = Tail(frames)
  BY DEF Goes, Ends
<1>4. Framed(frames', Len(rw))
  <2> DEFINE n == Len(rw)
  <2>1. n \in Nat /\ n <= n /\ Framed(frames, n) /\ w.r \in 1 .. n
    BY <1>1 DEF IInv
  <2> HIDE DEF n
  <2>2. Framed([frames EXCEPT ![1] = w], n) /\ Framed(Tail(frames), n)
    BY <2>1, FramesKeep
  <2> QED
    BY <1>3, <2>2 DEF n
<1> QED
  BY <1>2, <1>4 DEF IInv

\* A rewriting that gives up.
LEMMA StopKeeps ==
  ASSUME IInv, NEW w, "r" \in DOMAIN w, w.r \in 1 .. Len(rw), NEW x, Ok(x),
         frames # << >>, Dies(w, x) \/ Stops(w, x) \/ Captured(w, x)
  PROVE  IInv'
<1>1. CASE Dies(w, x)
  BY <1>1, InitKeeps, StepKeeps DEF Dies
<1>2. CASE Stops(w, x)
  <2>1. Ok(IF w.call = "emulate" THEN x ELSE [x EXCEPT !.addr = "func"])
    BY DEF Ok
  <2> QED
    BY <1>2, <2>1, StepKeeps DEF Stops
<1>3. CASE Captured(w, x)
  <2> DEFINE u == [w EXCEPT !.phase = "capture", !.pos = @ + 1, !.emulated = 0]
             v == [w EXCEPT !.phase = IF x.vreq = VR_None THEN "optimise" ELSE "vectorize",
                            !.pos = 1]
  <2>1. "r" \in DOMAIN u /\ u.r = w.r /\ "r" \in DOMAIN v /\ v.r = w.r
    OBVIOUS
  <2>2. Goes(u, x) \/ Ends(w, x) \/ Goes(v, x)
    BY <1>3 DEF Captured
  <2> HIDE DEF u, v
  <2> QED
    BY <2>1, <2>2, StepKeeps
<1> QED
  BY <1>1, <1>2, <1>3

\* A call of the client.
LEMMA ChangeKeeps ==
  ASSUME IInv, NEW x, Ok(x), Change(x)
  PROVE  IInv'
<1>1. Client \in 1 .. Len(rw) /\ rw' = [rw EXCEPT ![Client] = x] /\ frames' = frames
  BY DEF Change, IInv, Listed, Client
<1> QED
  BY <1>1, PutKeeps DEF IInv

\* The client's rewriter and the default one are there.
LEMMA ClientOk ==
  ASSUME IInv
  PROVE  /\ Ok(rw[Client]) /\ Configured(rw[Client].cc) /\ Configured(Config)
         /\ Ok(rw[DefaultRewriter])
         /\ Len(rw) \in Nat /\ Client \in 1 .. Len(rw) /\ DefaultRewriter \in 1 .. Len(rw)
BY GetConfigured DEF IInv, Listed, Client, DefaultRewriter, Ok, Config

\* A call that only changes the configuration of the client's rewriter.
LEMMA ConfigureKeeps ==
  ASSUME IInv, NEW cc, Configured(cc), Configure(cc)
  PROVE  IInv'
<1>1. Ok([rw[Client] EXCEPT !.cc = cc])
  BY ClientOk DEF Ok
<1> QED
  BY <1>1, ChangeKeeps DEF Configure

\* Each of the configuring calls.
LEMMA ConfigKeeps ==
  ASSUME IInv,
         \/ dbrew_config_reset \/ dbrew_config_staticpar \/ dbrew_config_parcount
         \/ dbrew_config_function_setname \/ dbrew_config_function_setsize
         \/ dbrew_config_set_memrange
  PROVE  IInv'
<1>1. CASE dbrew_config_reset
  BY <1>1, NewConfigured, ConfigureKeeps DEF dbrew_config_reset
<1>2. CASE dbrew_config_staticpar
  BY <1>2, ClientOk, ParametersConfigured, ConfigureKeeps DEF dbrew_config_staticpar
<1>3. CASE dbrew_config_parcount
  <2>1. PICK n \in {1, 7} : Configure([Config EXCEPT !.parCount = n])
    BY <1>3 DEF dbrew_config_parcount
  <2>2. n \in Int
    OBVIOUS
  <2> QED
    BY <2>1, <2>2, ClientOk, ParametersConfigured, ConfigureKeeps
<1>4. CASE dbrew_config_function_setname
  BY <1>4, ClientOk, NameConfigured, ConfigureKeeps DEF dbrew_config_function_setname
<1>5. CASE dbrew_config_function_setsize
  BY <1>5, ClientOk, SizeConfigured, ConfigureKeeps DEF dbrew_config_function_setsize
<1>6. CASE dbrew_config_set_memrange
  BY <1>6, ClientOk, MemrangeConfigured, ConfigureKeeps DEF dbrew_config_set_memrange
<1> QED
  BY <1>1, <1>2, <1>3, <1>4, <1>5, <1>6

\* The start of a rewriting.
LEMMA OpensKeeps ==
  ASSUME IInv, NEW call, Opens(call)
  PROVE  IInv'
<1> DEFINE w == Frame(Client, call, Sufficient(rw[Client]))
<1>1. rw' = [rw EXCEPT ![Client] = resetCapturing(rw[Client])] /\ frames' = << w >>
  BY DEF Opens
<1>2. "r" \in DOMAIN w /\ w.r = Client
  BY DEF Frame
<1> HIDE DEF w
<1>3. Listed(rw') /\ Len(rw') = Len(rw)
  BY <1>1, ClientOk, CaptureKeeps, PutKeeps DEF IInv
<1>4. Framed(<< w >>, Len(rw))
  <2> DEFINE n == Len(rw)
  <2>1. n \in Nat /\ n <= n /\ Framed(frames, n) /\ w.r \in 1 .. n
    BY <1>2, ClientOk DEF IInv
  <2> HIDE DEF n
  <2>2. Framed(<< w >>, n)
    BY <1>2, <2>1, FramesKeep
  <2> QED
    BY <2>2 DEF n
<1> QED
  BY <1>1, <1>3, <1>4 DEF IInv

\* Every call of the API.
LEMMA CallKeeps ==
  ASSUME IInv, API
  PROVE  IInv'
<1>1. CASE dbrew_set_decoding_capacity
  BY <1>1, ClientOk, CapacitiesKeep, ChangeKeeps DEF dbrew_set_decoding_capacity
<1>2. CASE dbrew_set_capture_capacity
  BY <1>2, ClientOk, CapacitiesKeep, ChangeKeeps DEF dbrew_set_capture_capacity
<1>3. CASE dbrew_set_function
  BY <1>3, ClientOk, SetFunctionConfigured, ChangeKeeps DEF dbrew_set_function
<1>4. CASE dbrew_set_vectorsize
  <2>1. \A n : Ok([rw[Client] EXCEPT !.vectorsize = n])
    BY ClientOk DEF Ok
  <2> QED
    BY <1>4, <2>1, ChangeKeeps DEF dbrew_set_vectorsize
<1>5. CASE dbrew_decode_print
  BY <1>5, ClientOk, EmulateKeeps, ChangeKeeps DEF dbrew_decode_print
<1>6. CASE Unconfigured \/ (Rejected(rw[Client]) /\ Change(Dead(rw[Client])))
  BY <1>6, ClientOk, InitKeeps, ChangeKeeps DEF Unconfigured
<1>7. CASE dbrew_emulate
  BY <1>6, <1>7, OpensKeeps DEF dbrew_emulate
<1>8. CASE dbrew_rewrite
  <2>1. Ok([rw[Client] EXCEPT !.addr = "func"])
    BY ClientOk DEF Ok
  <2> QED
    BY <1>8, <2>1, ChangeKeeps, OpensKeeps DEF dbrew_rewrite
<1>9. CASE dbrew_rewrite_func
  <2>1. PICK f \in Shared :
          /\ rw' = [rw EXCEPT ![DefaultRewriter] = setFunction(rw[DefaultRewriter], f)]
          /\ frames' = frames
    BY <1>9 DEF dbrew_rewrite_func
  <2>2. Listed(rw') /\ Len(rw') = Len(rw)
    BY <2>1, ClientOk, SetFunctionConfigured, PutKeeps DEF IInv
  <2> QED
    BY <2>1, <2>2 DEF IInv
<1> QED
  BY <1>1, <1>2, <1>3, <1>4, <1>5, <1>6, <1>7, <1>8, <1>9, ConfigKeeps DEF API

\* Redirecting a call of the vector API, with a new rewriter or without.
LEMMA RedirectKeeps ==
  ASSUME IInv, NEW w, "r" \in DOMAIN w, w.r \in 1 .. Len(rw), NEW kernel, frames # << >>,
         Redirect(w, rw[w.r], kernel)
  PROVE  IInv'
<1>1. Ok(rw[w.r]) /\ Len(rw) \in Nat
  BY DEF IInv, Listed
<1>2. CASE \E q \in Variants(w.r, kernel) : Captured(w, redirect(rw[w.r], kernel, rw[q]))
  BY <1>1, <1>2, CaptureKeeps, StopKeeps
<1>3. CASE /\ rw' = Append([rw EXCEPT ![w.r].next = Len(rw) + 1],
                           resetCapturing(newVariant(rw[w.r], kernel)))
           /\ frames' = << Frame(Len(rw) + 1, "rewrite", FALSE) >> \o frames
  <2> DEFINE y == [rw[w.r] EXCEPT !.next = Len(rw) + 1]
             s == [rw EXCEPT ![w.r] = y]
             x == resetCapturing(newVariant(rw[w.r], kernel))
             u == Frame(Len(rw) + 1, "rewrite", FALSE)
  <2>1. Ok(y)
    BY <1>1 DEF Ok
  <2>2. Ok(x)
    BY <1>1, NewVariantConfigured, CaptureKeeps
  <2>3. rw' = Append(s, x) /\ frames' = << u >> \o frames
    BY <1>3
  <2>4. "r" \in DOMAIN u /\ u.r = Len(rw) + 1
    BY DEF Frame
  <2> HIDE DEF y, x, u
  <2>5. Listed(s) /\ Len(s) = Len(rw)
    BY <2>1, PutKeeps DEF IInv
  <2> HIDE DEF s
  <2>6. Listed(rw') /\ Len(rw') = Len(rw) + 1
    BY <2>2, <2>3, <2>5, AppendKeeps
  <2> DEFINE n == Len(rw)
             m == Len(rw) + 1
  <2>7. /\ n \in Nat /\ m \in Nat /\ n <= m /\ Framed(frames, n)
        /\ "r" \in DOMAIN u /\ u.r \in 1 .. m
    BY <1>1, <2>4 DEF IInv
  <2> HIDE DEF n, m
  <2>8. Framed(<< u >> \o frames, m)
    BY <2>7, FramesKeep
  <2> QED
    BY <2>3, <2>6, <2>8 DEF IInv, m
<1> QED
  BY <1>2, <1>3 DEF Redirect

\* Every step of a rewriting.
LEMMA RewritingKeeps ==
  ASSUME IInv, Rewriting
  PROVE  IInv'
<1> DEFINE w == Head(frames)
           x == rw[w.r]
           t == Trace(x)[w.pos]
<1>1. frames # << >> /\ "r" \in DOMAIN w /\ w.r \in 1 .. Len(rw)
  <2>1. frames # << >> /\ Len(frames) \in Nat /\ 1 \in 1 .. Len(frames) /\ w = frames[1]
    BY DEF Rewriting, IInv, Framed
  <2> QED
    BY <2>1 DEF IInv, Framed
<1>2. Ok(x)
  BY <1>1 DEF IInv, Listed
<1>3. \/ EmulateBlock(w, x, t) \/ CaptureBlock(w, x, t) \/ Redirect(w, x, t.kernel)
      \/ Vectorize(w, x) \/ Optimise(w, x) \/ GenerateBlock(w, x)
  BY DEF Rewriting
<1> HIDE DEF w, t
<1>4. CASE EmulateBlock(w, x, t)
  <2> DEFINE v == [w EXCEPT !.emulated = @ + 1]
             y == emulateBlock(x, t.dec[w.emulated + 1])
  <2>1. "r" \in DOMAIN v /\ v.r = w.r /\ Goes(v, y)
    BY <1>1, <1>4 DEF EmulateBlock
  <2>2. Ok(y)
    BY <1>2, EmulateKeeps
  <2> HIDE DEF v, y
  <2> QED
    BY <1>1, <2>1, <2>2, StepKeeps
<1>5. CASE CaptureBlock(w, x, t)
  <2> DEFINE v == [w EXCEPT !.phase = "redirect"]
             y(n) == [getCaptureBBs(x, n) EXCEPT !.capBBCount = 0, !.capBB = << >>]
             z == captureBlock(x, t)
  <2>1. "r" \in DOMAIN v /\ v.r = w.r
    BY <1>1
  <2>2. Ok(z) /\ \A n : Ok(y(n))
    BY <1>2, CaptureKeeps DEF Ok, getCaptureBBs
  <2>3. Dies(w, x) \/ (\E n : Stops(w, y(n))) \/ Captured(w, z) \/ Goes(v, z)
    BY <1>5 DEF CaptureBlock
  <2> HIDE DEF v, x, y, z
  <2> QED
    BY <1>1, <1>2, <2>1, <2>2, <2>3, StepKeeps, StopKeeps
<1>6. CASE Redirect(w, x, t.kernel)
  BY <1>1, <1>6, RedirectKeeps
<1>7. CASE Vectorize(w, x)
  <2> DEFINE v == [w EXCEPT !.phase = "optimise"]
             y == vecPass(x)
  <2>1. "r" \in DOMAIN v /\ v.r = w.r
    BY <1>1
  <2>2. Ok(y)
    BY <1>2, GenerateKeeps
  <2>3. Dies(w, x) \/ Stops(w, y) \/ Goes(v, y)
    BY <1>7 DEF Vectorize
  <2> HIDE DEF v, x, y
  <2> QED
    BY <1>1, <1>2, <2>1, <2>2, <2>3, StepKeeps, StopKeeps
<1>8. CASE Optimise(w, x)
  <2> DEFINE v == IF w.pos < Len(x.capBB) THEN [w EXCEPT !.pos = @ + 1]
                  ELSE [w EXCEPT !.phase = "generate", !.pos = 1]
             y == optPass(x, w.pos)
  <2>1. "r" \in DOMAIN v /\ v.r = w.r
    BY <1>1
  <2>2. Ok(y)
    BY <1>2, GenerateKeeps
  <2>3. Stops(w, y) \/ Goes(v, y)
    BY <1>8 DEF Optimise
  <2> HIDE DEF v, x, y
  <2> QED
    BY <1>1, <2>1, <2>2, <2>3, StepKeeps, StopKeeps
<1>9. CASE GenerateBlock(w, x)
  <2> DEFINE v == [w EXCEPT !.pos = @ + 1]
             y == generate(x, w.pos)
             z == link(y)
             u == [intoOrder(x, w.pos) EXCEPT !.code = NoCode]
  <2>1. "r" \in DOMAIN v /\ v.r = w.r
    BY <1>1
  <2>2. Ok(y) /\ Ok(z) /\ Ok(u)
    BY <1>2, GenerateKeeps DEF Ok, intoOrder
  <2>3. Dies(w, x) \/ Stops(w, u) \/ Goes(v, y) \/ Ends(w, z)
    BY <1>9 DEF GenerateBlock
  <2> HIDE DEF v, x, y, z, u
  <2> QED
    BY <1>1, <1>2, <2>1, <2>2, <2>3, StepKeeps, StopKeeps
<1> QED
  BY <1>3, <1>4, <1>5, <1>6, <1>7, <1>8, <1>9

\* At first there are two new rewriters, and no rewriting.
LEMMA StartsListed == Init => IInv
<1> SUFFICES ASSUME Init
             PROVE  IInv
  OBVIOUS
<1>1. Ok(allocRewriter)
  BY NewConfigured DEF Ok, allocRewriter
<1>2. Listed(<< allocRewriter, allocRewriter >>)
  <2> DEFINE a == allocRewriter
  <2>1. Ok(a)
    BY <1>1
  <2> HIDE DEF a
  <2>2. << a, a >> \in Seq({a}) /\ Len(<< a, a >>) = 2
    OBVIOUS
  <2>3. \A r \in 1 .. 2 : << a, a >>[r] = a
    OBVIOUS
  <2>4. \A r \in 1 .. Len(<< a, a >>) : Ok(<< a, a >>[r])
    BY <2>1, <2>2, <2>3
  <2>5. \E S : << a, a >> \in Seq(S)
    BY <2>2
  <2>6. Len(<< a, a >>) >= 2
    BY <2>2
  <2>7. Listed(<< a, a >>)
    BY <2>4, <2>5, <2>6, Zenon DEF Listed
  <2> QED
    BY <2>7 DEF a
<1>3. << >> \in Seq({1}) /\ Len(<< >>) = 0
  OBVIOUS
<1>4. Framed(<< >>, Len(rw))
  BY <1>3 DEF Framed
<1> QED
  BY <1>2, <1>4 DEF Init, IInv

----------------------------------------------------------------------------
\* At any time, every rewriter finds functions by the ranges that were configured
\* for them: in a function of known length at any address, in a named one where
\* it starts, elsewhere none.
\* mrc_find, fc_get, dbrew_config_function_setsize, dbrew_config_set_memrange.
THEOREM RangesAreFound == Spec => []RangesFound
<1>1. Init => IInv
  BY StartsListed
<1>2. IInv /\ [Next]_vars => IInv'
  <2>1. ASSUME IInv, UNCHANGED vars
        PROVE  IInv'
    BY <2>1 DEF IInv, vars
  <2> QED
    BY <2>1, CallKeeps, RewritingKeeps DEF Next
<1>3. IInv => RangesFound
  <2> SUFFICES ASSUME IInv, NEW r \in DOMAIN rw
               PROVE  FoundAsAsked(rw[r].cc)
    BY DEF RangesFound
  <2>1. Configured(rw[r].cc)
    BY DEF IInv, Listed, Ok
  <2> QED
    BY <2>1, ConfiguredFound
<1> QED
  BY <1>1, <1>2, <1>3, PTL DEF Spec

----------------------------------------------------------------------------
(***************************************************************************)
(* The tables of rewriters, and the code that rewriting leaves: proofs for *)
(* all functions, capacities, calls of the API in any order, and variants  *)
(* of kernels made in between.                                             *)
(***************************************************************************)

Params  == {"None", "RV", "RVV", "RP"}
Vectors == Nat \X Params
Callees == [func : Functions, vreq : Vectors]
Codes   == [func : Functions \cup {NoFunc}, static : BOOLEAN, blocks : Nat, size : Int,
            stale : BOOLEAN, callees : SUBSET Callees]
Decodings == [block : Functions \X Nat, count : Nat]
Blocked   == [instr : Nat, count : Nat]

Rewriters ==
  [func : Functions \cup {NoFunc}, capacity : [Capacities -> Nat],
   dec : BOOLEAN, decInstrCount : Nat, decBB : Seq(Decodings),
   cap : BOOLEAN, capInstrCount : Nat, capBBCount : Nat, capBB : Seq(Blocked),
   genOrderCount : Nat, order : SUBSET Nat, ordered : SUBSET BOOLEAN,
   jccs : SUBSET Nat, placed : SUBSET Nat, passes : BOOLEAN, cs : BOOLEAN, code : Codes,
   addr : {"null", "func", "code"}, calls : SUBSET Callees,
   cc : Configs, es : BOOLEAN, ePool : Nat, vreq : Vectors, vectorsize : Nat,
   next : Nat, dead : BOOLEAN, fresh : BOOLEAN]

Calls  == {"emulate", "rewrite"}
Phases == {"capture", "redirect", "vectorize", "optimise", "generate"}
Frames == [r : Nat, call : Calls, phase : Phases, pos : Nat \ {0}, emulated : Nat,
           promised : BOOLEAN]

----------------------------------------------------------------------------
(***************************************************************************)
(* The invariant                                                           *)
(***************************************************************************)

\* Instructions captured for the first n blocks of a trace.
OutUpTo(trace) ==
  CHOOSE p \in [0 .. Len(trace) -> Nat] :
    p[0] = 0 /\ \A n \in 1 .. Len(trace) : p[n] = p[n - 1] + trace[n].out

\* BlocksWhole, of one rewriter.
InPlace(x) ==
  \A i \in 1 .. Len(x.capBB) :
    /\ x.capBB[i].instr + x.capBB[i].count <= x.capInstrCount
    /\ \A j \in 1 .. i - 1 :
         \/ x.capBB[i].count = 0 \/ x.capBB[j].count = 0
         \/ x.capBB[j].instr + x.capBB[j].count <= x.capBB[i].instr
         \/ x.capBB[i].instr + x.capBB[i].count <= x.capBB[j].instr

DecFits(x) ==
  x.dec => /\ x.decInstrCount <= x.capacity["decInstr"]
           /\ Len(x.decBB) <= x.capacity["decBB"]
CapFits(x) ==
  x.cap => /\ x.capInstrCount <= x.capacity["capInstr"]
           /\ x.capBBCount <= x.capacity["capBB"]
           /\ Len(x.capBB) <= x.capBBCount
           /\ x.capacity["capInstr"] >= 1 /\ x.capacity["capBB"] >= 1
           /\ InPlace(x)

\* Of function f, blocks in the order are those of a trace along which they got there.
OrderFits(order, ordered, f) ==
  \A s \in order : /\ f \in Functions
                   /\ \E k \in ordered : s <= Len(Code[f].trace[k])

PoolFits(x) ==
  /\ x.genOrderCount <= GENORDER_MAX /\ x.ePool <= PoolSize
  /\ OrderFits(x.order, x.ordered, x.func)
  /\ x.cc # NoConfig => x.cc.parCount >= -1

Tables(x) == x \in Rewriters /\ DecFits(x) /\ CapFits(x) /\ PoolFits(x)

CodeOk(x) ==
  ~x.dead /\ x.addr = "code" /\ x.cs =>
    Whole(x.code, x.func) /\ (x.ordered = {x.code.static} => ~x.code.stale)

\* The first n blocks of the trace are captured.
Follows(x, n) ==
  /\ Len(x.capBB) = n /\ x.capBBCount = AskedFor(Trace(x))[n]
  /\ \A k \in 1 .. n :
       x.capBB[k].count = Trace(x)[k].out + (IF k = 1 THEN Hints(x) ELSE 0)

\* Code is there of n blocks.
Generated(x, n) ==
  n > 0 => /\ x.code.func = x.func /\ x.code.static = x.cc.static /\ x.code.blocks = n
           /\ x.code.size = OutUpTo(Trace(x))[n]

\* In the middle of a rewriting w, on x.
Capturing(w, x) ==
  /\ w.phase = "capture" /\ w.pos <= Len(Trace(x)) /\ w.emulated <= Len(Trace(x)[w.pos].dec)
  /\ x.capBBCount # 0 => /\ Follows(x, w.pos - 1)
                         /\ w.pos = 1 => x.capInstrCount >= Hints(x)
Redirecting(w, x) ==
  /\ w.phase = "redirect" /\ w.pos <= Len(Trace(x))
  /\ Trace(x)[w.pos].kernel # NoKernel /\ Follows(x, w.pos)
Generating(w, x) ==
  /\ w.phase \in {"vectorize", "optimise", "generate"} /\ w.call = "rewrite"
  /\ w.pos <= Len(Trace(x)) /\ Follows(x, Len(Trace(x)))
  /\ w.phase = "generate" => Generated(x, w.pos - 1)

InProgress(w, x) ==
  \/ x.dead
  \/ /\ x.func \in Functions /\ x.cap /\ x.cc # NoConfig
     /\ Capturing(w, x) \/ Redirecting(w, x) \/ Generating(w, x)
     /\ w.call = "emulate" => CodeOk(x)

TInv ==
  /\ \A r \in 1 .. Len(rw) :
       /\ Tables(rw[r]) /\ rw[r].next \in {0} \cup (3 .. Len(rw))
       /\ ~BeingRewritten(r) => CodeOk(rw[r])
  /\ \A i \in 1 .. Len(frames) :
       frames[i] \in Frames /\ InProgress(frames[i], rw[frames[i].r])
  /\ \A i, j \in 1 .. Len(frames) : i # j => frames[i].r # frames[j].r

----------------------------------------------------------------------------
(***************************************************************************)
(* Sums along a trace                                                      *)
(***************************************************************************)

\* A nonempty set of numbers has a least one.
LEMMA LeastNatural ==
  ASSUME NEW S, S \subseteq Nat, S # {}
  PROVE  \E n \in S : \A m \in S : n <= m
<1> DEFINE Below == OpToRel(<, Nat)
<1>1. IsWellFoundedOn(Below, Nat)
  BY NatLessThanWellFounded
<1>2. \A y, x \in Nat : y < x => << y, x >> \in Below
  BY DEF OpToRel
<1> HIDE DEF Below
<1>3. PICK x \in S : \A y \in S : ~(<< y, x >> \in Below)
  BY <1>1, WFMin
<1>4. \A y \in S : ~(y < x)
  BY <1>2, <1>3
<1>5. \A y \in S : x <= y
  BY <1>4
<1> QED
  BY <1>5

\* Numbers have partial sums: shown for the least number of terms without.
LEMMA PartialSums ==
  ASSUME NEW N \in Nat, NEW F \in [1 .. N -> Nat], NEW base \in Nat
  PROVE  \E p \in [0 .. N -> Nat] :
           p[0] = base /\ \A k \in 1 .. N : p[k] = p[k - 1] + F[k]
<1> DEFINE Sums(n, p) == /\ p \in [0 .. n -> Nat] /\ p[0] = base
                         /\ \A k \in 1 .. n : p[k] = p[k - 1] + F[k]
           Bad == { n \in 0 .. N : ~\E p : Sums(n, p) }
<1>1. Bad = {}
  <2> SUFFICES ASSUME Bad # {} PROVE FALSE
    OBVIOUS
  <2>1. PICK n \in Bad : \A m \in Bad : n <= m
    <3>1. Bad \subseteq Nat /\ Bad # {}
      OBVIOUS
    <3> HIDE DEF Bad
    <3> QED
      BY <3>1, LeastNatural
  <2>2. n # 0
    <3>1. Sums(0, [k \in 0 .. 0 |-> base])
      OBVIOUS
    <3> QED
      BY <3>1
  <2>3. PICK p : Sums(n - 1, p)
    <3>1. n - 1 \in 0 .. N /\ ~(n <= n - 1)
      BY <2>2
    <3>2. n - 1 \notin Bad
      BY <2>1, <3>1
    <3> QED
      BY <3>1, <3>2
  <2> DEFINE q == [k \in 0 .. n |-> IF k = n THEN p[n - 1] + F[n] ELSE p[k]]
  <2>4. Sums(n, q)
    <3>1. n \in 1 .. N /\ F[n] \in Nat /\ p[n - 1] \in Nat
      BY <2>1, <2>2, <2>3
    <3>2. q \in [0 .. n -> Nat] /\ q[0] = base
      BY <2>3, <3>1
    <3>3. ASSUME NEW k \in 1 .. n
          PROVE  q[k] = q[k - 1] + F[k]
      <4>1. k \in 0 .. n /\ k - 1 \in 0 .. n /\ k - 1 # n /\ n \in Nat
        BY <3>1
      <4>2. q[k - 1] = p[k - 1] /\ q[k] = IF k = n THEN p[n - 1] + F[n] ELSE p[k]
        BY <4>1
      <4>3. k # n => k \in 1 .. n - 1
        BY <4>1
      <4> QED
        BY <2>3, <4>2, <4>3
    <3> QED
      BY <3>2, <3>3
  <2> QED
    BY <2>1, <2>4
<1>2. \E p : Sums(N, p)
  <2>1. N \in 0 .. N
    OBVIOUS
  <2>2. N \notin Bad
    <3> HIDE DEF Bad
    <3> QED
      BY <1>1
  <2> QED
    BY <2>1, <2>2
<1> QED
  BY <1>2

\* They are determined by that.
LEMMA SumsAgree ==
  ASSUME NEW N \in Nat, NEW F \in [1 .. N -> Nat], NEW p \in [0 .. N -> Nat], NEW q,
         q[0] = p[0], \A k \in 1 .. N : p[k] = p[k - 1] + F[k],
         \A k \in 1 .. N : q[k] = q[k - 1] + F[k]
  PROVE  \A k \in 0 .. N : q[k] = p[k]
<1> DEFINE Bad == { n \in 0 .. N : p[n] # q[n] }
<1>1. Bad = {}
  <2> SUFFICES ASSUME Bad # {} PROVE FALSE
    OBVIOUS
  <2>1. PICK n \in Bad : \A m \in Bad : n <= m
    <3>1. Bad \subseteq Nat /\ Bad # {}
      OBVIOUS
    <3> HIDE DEF Bad
    <3> QED
      BY <3>1, LeastNatural
  <2>2. n \in 1 .. N /\ n - 1 \in 0 .. N /\ ~(n <= n - 1)
    OBVIOUS
  <2>3. n - 1 \notin Bad
    BY <2>1, <2>2
  <2>4. p[n - 1] = q[n - 1]
    BY <2>2, <2>3
  <2> QED
    BY <2>2, <2>4
<1> QED
  BY <1>1

\* Types of a block of a trace.
LEMMA BlockTypes ==
  ASSUME NEW t \in TraceBlocks
  PROVE  /\ t.dec \in Seq(Functions \X Nat) /\ t.out \in Nat /\ t.new \in Nat /\ t.jcc \in Nat
         /\ t.error \in BOOLEAN
         /\ t.kernel # NoKernel => /\ t.kernel.func \in Functions
                                  /\ t.kernel.params \in Params
BY DEF TraceBlocks, Params

\* What a trace asks for, block by block.
LEMMA AskedFacts ==
  ASSUME NEW trace \in Seq(TraceBlocks)
  PROVE  /\ AskedFor(trace) \in [0 .. Len(trace) -> Nat] /\ AskedFor(trace)[0] = 1
         /\ \A k \in 1 .. Len(trace) :
              AskedFor(trace)[k] = AskedFor(trace)[k - 1] + trace[k].new
<1> DEFINE N == Len(trace)
           F == [k \in 1 .. N |-> trace[k].new]
           Equation(g) == g = [k \in 0 .. N |-> IF k = 0 THEN 1 ELSE g[k - 1] + trace[k].new]
<1>1. N \in Nat /\ F \in [1 .. N -> Nat]
  <2>1. \A k \in 1 .. N : trace[k] \in TraceBlocks
    OBVIOUS
  <2> QED
    BY <2>1, BlockTypes
<1>2. PICK p \in [0 .. N -> Nat] : p[0] = 1 /\ \A k \in 1 .. N : p[k] = p[k - 1] + F[k]
  <2> HIDE DEF N, F
  <2> QED
    BY <1>1, 1 \in Nat, PartialSums, Zenon
<1>3. Equation(p)
  BY <1>2
<1>4. AskedFor(trace) = CHOOSE g : Equation(g)
  BY DEF AskedFor
<1>5. Equation(AskedFor(trace))
  <2> HIDE DEF Equation
  <2> QED
    BY <1>3, <1>4
<1> DEFINE a == AskedFor(trace)
<1>6. a[0] = 1 /\ \A k \in 1 .. N : a[k] = a[k - 1] + F[k]
  <2> HIDE DEF a
  <2> QED
    BY <1>1, <1>5 DEF a
<1>7. \A k \in 0 .. N : a[k] = p[k]
  <2> HIDE DEF a, N, F
  <2>1. a[0] = p[0]
    BY <1>2, <1>6
  <2> QED
    BY <1>1, <1>2, <1>6, <2>1, SumsAgree
<1>8. a = p
  <2> HIDE DEF a
  <2> QED
    BY <1>2, <1>5, <1>7 DEF a
<1> QED
  BY <1>2, <1>8

\* What is captured for a trace, block by block.
LEMMA OutFacts ==
  ASSUME NEW trace \in Seq(TraceBlocks)
  PROVE  /\ OutUpTo(trace) \in [0 .. Len(trace) -> Nat] /\ OutUpTo(trace)[0] = 0
         /\ \A k \in 1 .. Len(trace) :
              OutUpTo(trace)[k] = OutUpTo(trace)[k - 1] + trace[k].out
<1> DEFINE N == Len(trace)
           F == [k \in 1 .. N |-> trace[k].out]
<1>1. N \in Nat /\ F \in [1 .. N -> Nat]
  <2>1. \A k \in 1 .. N : trace[k] \in TraceBlocks
    OBVIOUS
  <2> QED
    BY <2>1, BlockTypes
<1>2. PICK p \in [0 .. N -> Nat] : p[0] = 0 /\ \A k \in 1 .. N : p[k] = p[k - 1] + F[k]
  <2> HIDE DEF N, F
  <2> QED
    BY <1>1, 0 \in Nat, PartialSums, Zenon
<1>3. \A k \in 1 .. N : p[k] = p[k - 1] + trace[k].out
  BY <1>2
<1> QED
  BY <1>2, <1>3 DEF OutUpTo

\* The greatest of numbers up to n, if n is one of them.
LEMMA Greatest ==
  ASSUME NEW n \in Nat, NEW s \in SUBSET (1 .. n), n \in s
  PROVE  Max(s) = n
<1>1. \A y \in s : n >= y
  OBVIOUS
<1>2. Max(s) \in s /\ \A y \in s : Max(s) >= y
  BY <1>1 DEF Max
<1>3. Max(s) \in Nat /\ n >= Max(s) /\ Max(s) >= n
  <2> DEFINE m == Max(s)
  <2>1. m \in s /\ m >= n
    BY <1>2
  <2> HIDE DEF m
  <2>2. m \in 1 .. n
    BY <2>1
  <2>3. m \in Nat /\ n >= m /\ m >= n
    BY <2>1, <2>2
  <2> QED
    BY <2>3 DEF m
<1> QED
  BY <1>3

\* The sum of a fold over the trace is that of its parts.
LEMMA FoldedOut ==
  ASSUME NEW trace \in Seq(TraceBlocks)
  PROVE  FoldLeft(LAMBDA n, t : n + t.out, 0, trace) = OutUpTo(trace)[Len(trace)]
<1> DEFINE N == Len(trace)
           Equation(n, h) ==
             h = [s \in SUBSET (1 .. n) |->
                    IF s = {} THEN 0 ELSE h[s \ {Max(s)}] + trace[Max(s)].out]
           Bad == { n \in 0 .. N : ~\E h : Equation(n, h) }
<1>1. N \in Nat /\ DOMAIN trace = 1 .. N
  OBVIOUS
<1>2. Bad = {}
  <2> SUFFICES ASSUME Bad # {} PROVE FALSE
    OBVIOUS
  <2>1. PICK n \in Bad : \A m \in Bad : n <= m
    <3>1. Bad \subseteq Nat /\ Bad # {}
      <4> HIDE DEF N, Equation
      <4> QED
        OBVIOUS
    <3> HIDE DEF Bad
    <3> QED
      BY <3>1, LeastNatural
  <2>2. n # 0
    <3>1. Equation(0, [s \in SUBSET (1 .. 0) |-> 0])
      OBVIOUS
    <3> QED
      BY <3>1
  <2>3. PICK h : Equation(n - 1, h)
    <3>1. n - 1 \in 0 .. N /\ ~(n <= n - 1)
      BY <2>2
    <3>2. n - 1 \notin Bad
      BY <2>1, <3>1
    <3> QED
      BY <3>1, <3>2
  <2> DEFINE g == [s \in SUBSET (1 .. n) |->
                     IF n \in s THEN h[s \ {n}] + trace[n].out ELSE h[s]]
  <2>4. ASSUME NEW s \in SUBSET (1 .. n)
        PROVE  g[s] = IF s = {} THEN 0 ELSE g[s \ {Max(s)}] + trace[Max(s)].out
    <3>1. n \in Nat
      OBVIOUS
    <3>2. CASE n \in s
      <4>1. Max(s) = n /\ s \ {n} \in SUBSET (1 .. n) /\ n \notin s \ {n}
        BY <3>1, <3>2, Greatest
      <4> QED
        BY <3>2, <4>1
    <3>3. CASE n \notin s
      <4>1. s \in SUBSET (1 .. n - 1)
        BY <3>1, <3>3
      <4>2. /\ s \ {Max(s)} \in SUBSET (1 .. n) /\ n \notin s \ {Max(s)}
            /\ g[s] = h[s] /\ g[s \ {Max(s)}] = h[s \ {Max(s)}]
        BY <3>3
      <4> QED
        BY <2>3, <4>1, <4>2
    <3> QED
      BY <3>2, <3>3
  <2>5. Equation(n, g)
    BY <2>4
  <2> QED
    BY <2>1, <2>5
<1>3. PICK f : Equation(N, f)
  <2>1. N \in 0 .. N
    BY <1>1
  <2>2. N \notin Bad
    <3> HIDE DEF Bad
    <3> QED
      BY <1>2
  <2> QED
    BY <2>1, <2>2
<1> DEFINE iter == CHOOSE h : Equation(N, h)
<1>4. Equation(N, iter)
  <2> HIDE DEF Equation
  <2> QED
    BY <1>3
<1> DEFINE q == [k \in 0 .. N |-> iter[1 .. k]]
           F == [k \in 1 .. N |-> trace[k].out]
<1>5. q[0] = 0 /\ q[N] = iter[1 .. N]
  <2>1. 1 .. 0 = {} /\ {} \in SUBSET (1 .. N) /\ 0 \in 0 .. N /\ N \in 0 .. N
    BY <1>1
  <2> HIDE DEF iter, N
  <2> QED
    BY <1>4, <2>1
<1>6. ASSUME NEW k \in 1 .. N
      PROVE  q[k] = q[k - 1] + F[k]
  <2>1. /\ 1 .. k \in SUBSET (1 .. N) /\ 1 .. k # {} /\ Max(1 .. k) = k
        /\ (1 .. k) \ {k} = 1 .. k - 1 /\ k \in 0 .. N /\ k - 1 \in 0 .. N
    <3>1. k \in Nat /\ 1 .. k \in SUBSET (1 .. k) /\ k \in 1 .. k
      BY <1>1
    <3>2. Max(1 .. k) = k
      BY <3>1, Greatest
    <3>3. \A j : j \in (1 .. k) \ {k} <=> j \in 1 .. k - 1
      BY <3>1
    <3>4. (1 .. k) \ {k} = 1 .. k - 1
      BY <3>3
    <3>5. 1 .. k \in SUBSET (1 .. N) /\ 1 .. k # {} /\ k \in 0 .. N /\ k - 1 \in 0 .. N
      <4>1. k <= N /\ N \in Nat
        BY <1>1
      <4>2. 1 \in 1 .. k
        BY <3>1
      <4> HIDE DEF N
      <4>3. k \in 0 .. N /\ k - 1 \in 0 .. N
        BY <3>1, <4>1
      <4>4. \A j \in 1 .. k : j \in 1 .. N
        BY <3>1, <4>1
      <4> QED
        BY <4>2, <4>3, <4>4
    <3> QED
      BY <3>2, <3>4, <3>5
  <2> HIDE DEF iter, N
  <2> QED
    BY <1>4, <2>1
<1>7. \A k \in 0 .. N : q[k] = OutUpTo(trace)[k]
  <2> DEFINE p == OutUpTo(trace)
  <2>1. p \in [0 .. N -> Nat] /\ p[0] = 0 /\ \A k \in 1 .. N : p[k] = p[k - 1] + F[k]
    BY OutFacts
  <2>2. F \in [1 .. N -> Nat]
    <3>1. \A k \in 1 .. N : trace[k] \in TraceBlocks
      OBVIOUS
    <3> QED
      BY <3>1, BlockTypes
  <2> HIDE DEF p, q, F, N
  <2>3. q[0] = p[0]
    BY <1>5, <2>1
  <2>4. N \in Nat
    BY <1>1
  <2> QED
    BY <1>6, <2>1, <2>2, <2>3, <2>4, SumsAgree DEF p
<1>8. iter[1 .. N] = OutUpTo(trace)[N]
  <2>1. N \in 0 .. N
    BY <1>1
  <2> HIDE DEF iter, q, N
  <2> QED
    BY <1>5, <1>7, <2>1
<1> QED
  BY <1>1, <1>8 DEF FoldLeft, MapThenFoldSet

\* The trace that a rewriter follows.
LEMMA TraceFacts ==
  ASSUME NEW x \in Rewriters, x.func \in Functions
  PROVE  /\ Trace(x) \in Seq(TraceBlocks) /\ Len(Trace(x)) \in Nat \ {0}
         /\ \A k \in 1 .. Len(Trace(x)) :
              /\ Trace(x)[k] \in TraceBlocks /\ k <= AskedFor(Trace(x))[k - 1]
              /\ \A i \in 1 .. Len(Trace(x)[k].dec) :
                   LET b == Trace(x)[k].dec[i]
                   IN b \in Functions \X Nat /\ b[2] \in DOMAIN Code[b[1]].blocks
<1> DEFINE t == Trace(x)
<1>1. x.cc.static \in BOOLEAN
  BY DEF Rewriters, Configs
<1>2. t = Code[x.func].trace[x.cc.static] /\ t \in Seq(TraceBlocks) /\ t # << >>
  BY <1>1, CodeAssumption DEF Trace
<1>3. \A k \in DOMAIN t :
        /\ k <= AskedFor(t)[k - 1]
        /\ \A b \in Range(t[k].dec) : b[2] \in DOMAIN Code[b[1]].blocks
  BY <1>1, <1>2, CodeAssumption
<1> HIDE DEF t
<1>4. DOMAIN t = 1 .. Len(t) /\ Len(t) \in Nat /\ Len(t) # 0
  BY <1>2
<1>5. ASSUME NEW k \in 1 .. Len(t)
      PROVE  /\ t[k] \in TraceBlocks
             /\ \A i \in 1 .. Len(t[k].dec) :
                  LET b == t[k].dec[i]
                  IN b \in Functions \X Nat /\ b[2] \in DOMAIN Code[b[1]].blocks
  <2>1. t[k] \in TraceBlocks /\ t[k].dec \in Seq(Functions \X Nat)
    BY <1>2, BlockTypes, SMTT(30)
  <2>2. \A i \in 1 .. Len(t[k].dec) :
          t[k].dec[i] \in Functions \X Nat /\ t[k].dec[i] \in Range(t[k].dec)
    BY <2>1 DEF Range
  <2> QED
    BY <1>3, <1>4, <2>1, <2>2
<1> QED
  BY <1>2, <1>3, <1>4, <1>5 DEF t

\* The blocks of functions.
LEMMA LengthFacts ==
  ASSUME NEW b \in Functions \X Nat, b[2] \in DOMAIN Code[b[1]].blocks
  PROVE  Length(b) \in Nat \ {0}
BY CodeAssumption DEF Length

----------------------------------------------------------------------------
(***************************************************************************)
(* What the operations on a rewriter do to its tables                      *)
(***************************************************************************)

\* A new rewriter has no tables.
LEMMA NewTables ==
  Tables(allocRewriter) /\ CodeOk(allocRewriter) /\ allocRewriter.next = 0
<1>1. NoConfig \in Configs
  BY NewConfigured DEF Configured
<1>2. allocRewriter \in Rewriters
  BY <1>1 DEF allocRewriter, Rewriters, Codes, NoCode, VR_None, Vectors, Params
<1> QED
  BY <1>2, RewriterAssumption
     DEF Tables, DecFits, CapFits, PoolFits, OrderFits, CodeOk, allocRewriter

\* The end of the process leaves the tables as they are.
LEMMA DeadTables ==
  ASSUME NEW x, Tables(x)
  PROVE  /\ Tables(Dead(x)) /\ CodeOk(Dead(x)) /\ Dead(x).next = x.next
         /\ \A w : InProgress(w, Dead(x))
<1>1. Dead(x) \in Rewriters /\ Dead(x).dead
  BY DEF Tables, Rewriters, Dead
<1> QED
  BY <1>1 DEF Tables, DecFits, CapFits, PoolFits, CodeOk, InProgress, InPlace, Dead, Rewriters

\* initRewriter makes room in all tables, and there is always storage for code.
LEMMA InitTables ==
  ASSUME NEW x, Tables(x)
  PROVE  LET y == initRewriter(x)
         IN /\ Tables(y) /\ CodeOk(y)
            /\ y.next = x.next /\ y.func = x.func /\ y.cc = x.cc /\ y.dead = x.dead
            /\ y.addr = "null" /\ y.dec /\ y.cap /\ y.cs /\ y.capBBCount = 0
            /\ y.genOrderCount = 0 /\ y.order = {} /\ y.ePool = x.ePool
<1> DEFINE allocated(c) == IF x.capacity[c] = 0 THEN Default[c] ELSE x.capacity[c]
           capacity == [c \in Capacities |-> allocated(c)]
           y == initRewriter(x)
<1>1. x \in Rewriters
  BY DEF Tables
<1>2. x.capacity \in [Capacities -> Nat] /\ "code" \in Capacities
  BY <1>1 DEF Rewriters, Capacities
<1>3. capacity \in [Capacities -> Nat \ {0}] /\ allocated("code") > 0
  BY <1>2, RewriterAssumption
<1>4. y = [x EXCEPT !.capacity = capacity,
                    !.dec = TRUE, !.decInstrCount = 0, !.decBB = << >>,
                    !.cap = TRUE, !.capInstrCount = 0, !.capBBCount = 0, !.capBB = << >>,
                    !.genOrderCount = 0, !.order = {}, !.ordered = {}, !.jccs = {},
                    !.placed = {}, !.cs = TRUE, !.addr = "null"]
  BY <1>3 DEF initRewriter
<1> HIDE DEF capacity, y
<1>5. /\ y \in Rewriters
      /\ y.capacity = capacity /\ y.dec /\ y.decInstrCount = 0 /\ y.decBB = << >>
      /\ y.cap /\ y.capInstrCount = 0 /\ y.capBBCount = 0 /\ y.capBB = << >>
      /\ y.genOrderCount = 0 /\ y.order = {} /\ y.cs /\ y.addr = "null"
      /\ y.next = x.next /\ y.func = x.func /\ y.cc = x.cc /\ y.dead = x.dead
      /\ y.ePool = x.ePool
  <2>1. /\ << >> \in Seq(Decodings) /\ << >> \in Seq(Blocked)
        /\ capacity \in [Capacities -> Nat]
    BY <1>3
  <2>2. y \in Rewriters
    BY <1>1, <1>4, <2>1 DEF Rewriters
  <2>3. /\ y.capacity = capacity /\ y.dec = TRUE /\ y.decInstrCount = 0 /\ y.decBB = << >>
        /\ y.cap = TRUE /\ y.capInstrCount = 0 /\ y.capBBCount = 0 /\ y.capBB = << >>
        /\ y.genOrderCount = 0 /\ y.order = {} /\ y.cs = TRUE /\ y.addr = "null"
    BY <1>1, <1>4 DEF Rewriters
  <2>4. /\ y.next = x.next /\ y.func = x.func /\ y.cc = x.cc /\ y.dead = x.dead
        /\ y.ePool = x.ePool
    BY <1>1, <1>4 DEF Rewriters
  <2> QED
    BY <2>2, <2>3, <2>4
<1>6. \A c \in Capacities : y.capacity[c] >= 1
  BY <1>3, <1>5
<1>7. DecFits(y) /\ CapFits(y)
  BY <1>3, <1>5, <1>6 DEF DecFits, CapFits, InPlace, Capacities
<1>8. PoolFits(y) /\ CodeOk(y)
  BY <1>5, RewriterAssumption DEF PoolFits, OrderFits, CodeOk, Tables
<1> QED
  BY <1>5, <1>7, <1>8 DEF Tables, y

\* Setting a function starts with empty tables.
LEMMA FunctionTables ==
  ASSUME NEW x, Tables(x), NEW f \in Functions
  PROVE  LET y == setFunction(x, f)
         IN /\ Tables(y) /\ CodeOk(y)
            /\ y.next = x.next /\ y.func = f /\ y.cc = cc_new /\ y.dead = x.dead
            /\ y.addr = "null" /\ y.cap /\ y.order = {}
<1> DEFINE z == initRewriter(x)
           y == [z EXCEPT !.func = f, !.cc = cc_new, !.es = FALSE, !.fresh = TRUE]
<1>1. /\ Tables(z) /\ z.next = x.next /\ z.dead = x.dead /\ z.addr = "null" /\ z.cap = TRUE
      /\ z.order = {}
  BY InitTables
<1>2. cc_new \in Configs /\ cc_new.parCount = -1
  BY NewConfigured DEF Configured, cc_new
<1>3. setFunction(x, f) = y
  BY DEF setFunction
<1> HIDE DEF z
<1>4. z \in Rewriters
  BY <1>1 DEF Tables
<1>5. y \in Rewriters
  BY <1>2, <1>4 DEF Rewriters
<1>6. /\ y.func = f /\ y.cc = cc_new /\ y.next = z.next /\ y.dead = z.dead
      /\ y.addr = z.addr /\ y.cap = z.cap /\ y.order = z.order
  BY <1>4 DEF Rewriters
<1>7. DecFits(y) /\ CapFits(y)
  BY <1>1, <1>4 DEF Tables, DecFits, CapFits, InPlace, Rewriters
<1>8. PoolFits(y) /\ CodeOk(y)
  BY <1>1, <1>2, <1>4, SMTT(30) DEF Tables, PoolFits, OrderFits, CodeOk, Rewriters
<1> QED
  BY <1>1, <1>3, <1>5, <1>6, <1>7, <1>8 DEF Tables

\* Some capacities are set, the others stay.
LEMMA CapacitiesSet ==
  ASSUME NEW x \in Rewriters, NEW D, NEW c \in [D -> Nat]
  PROVE  /\ Allotted(x, c) \in [Capacities -> Nat]
         /\ \A k \in Capacities \ D : Allotted(x, c)[k] = x.capacity[k]
<1>1. DOMAIN c = D /\ x.capacity \in [Capacities -> Nat]
  BY DEF Rewriters
<1> QED
  BY <1>1 DEF Allotted

\* New capacities drop tables.
LEMMA CapacityTables ==
  ASSUME NEW x, Tables(x), CodeOk(x)
  PROVE  /\ \A c \in DecodingCapacities :
              LET y == setDecodingCapacity(x, c)
              IN Tables(y) /\ CodeOk(y) /\ y.next = x.next
         /\ \A c \in CaptureCapacities :
              LET y == setCaptureCapacity(x, c)
              IN Tables(y) /\ CodeOk(y) /\ y.next = x.next
<1>1. x \in Rewriters /\ x.capacity \in [Capacities -> Nat]
  BY DEF Tables, Rewriters
<1>2. ASSUME NEW c \in DecodingCapacities
      PROVE  LET y == setDecodingCapacity(x, c)
             IN Tables(y) /\ CodeOk(y) /\ y.next = x.next
  <2> DEFINE capacity == Allotted(x, c)
             y == [x EXCEPT !.capacity = capacity, !.dec = FALSE, !.fresh = FALSE]
  <2>1. c \in [{"decInstr", "decBB"} -> Nat]
    BY RewriterAssumption
  <2>2. /\ capacity \in [Capacities -> Nat]
        /\ capacity["capInstr"] = x.capacity["capInstr"]
        /\ capacity["capBB"] = x.capacity["capBB"]
    <3> DEFINE D == {"decInstr", "decBB"}
    <3>1. "capInstr" \in Capacities \ D /\ "capBB" \in Capacities \ D
      BY DEF Capacities
    <3>2. c \in [D -> Nat]
      BY <2>1
    <3> HIDE DEF D
    <3> QED
      BY <1>1, <3>1, <3>2, CapacitiesSet
  <2>3. setDecodingCapacity(x, c) = y
    BY DEF setDecodingCapacity
  <2> HIDE DEF capacity
  <2>4. y \in Rewriters /\ y.next = x.next /\ y.capacity = capacity /\ y.dec = FALSE
    BY <1>1, <2>2 DEF Rewriters
  <2>5. CapFits(y)
    BY <1>1, <2>2 DEF Tables, CapFits, InPlace, Rewriters
  <2>6. DecFits(y) /\ PoolFits(y) /\ CodeOk(y)
    BY <1>1, <2>4 DEF Tables, DecFits, PoolFits, CodeOk, Rewriters
  <2> QED
    BY <2>3, <2>4, <2>5, <2>6 DEF Tables
<1>3. ASSUME NEW c \in CaptureCapacities
      PROVE  LET y == setCaptureCapacity(x, c)
             IN Tables(y) /\ CodeOk(y) /\ y.next = x.next
  <2> DEFINE capacity == Allotted(x, c)
             y == [x EXCEPT !.capacity = capacity, !.cap = FALSE, !.cs = FALSE,
                            !.code = NoCode, !.fresh = FALSE]
  <2>1. c \in [{"capInstr", "capBB", "code"} -> Nat]
    BY RewriterAssumption
  <2>2. /\ capacity \in [Capacities -> Nat]
        /\ capacity["decInstr"] = x.capacity["decInstr"]
        /\ capacity["decBB"] = x.capacity["decBB"]
    <3> DEFINE D == {"capInstr", "capBB", "code"}
    <3>1. "decInstr" \in Capacities \ D /\ "decBB" \in Capacities \ D
      BY DEF Capacities
    <3>2. c \in [D -> Nat]
      BY <2>1
    <3> HIDE DEF D
    <3> QED
      BY <1>1, <3>1, <3>2, CapacitiesSet
  <2>3. setCaptureCapacity(x, c) = y
    BY DEF setCaptureCapacity
  <2>4. NoCode \in Codes
    BY DEF NoCode, Codes
  <2> HIDE DEF capacity
  <2>5. /\ y \in Rewriters /\ y.next = x.next /\ y.capacity = capacity
        /\ y.cap = FALSE /\ y.cs = FALSE
    BY <1>1, <2>2, <2>4 DEF Rewriters
  <2>6. DecFits(y)
    BY <1>1, <2>2 DEF Tables, DecFits, Rewriters
  <2>7. CapFits(y) /\ PoolFits(y) /\ CodeOk(y)
    BY <1>1, <2>5 DEF Tables, CapFits, PoolFits, CodeOk, Rewriters
  <2> QED
    BY <2>3, <2>5, <2>6, <2>7 DEF Tables
<1> QED
  BY <1>2, <1>3

\* What was captured on x is there on y, or was reset.
CapturedStays(x, y) ==
  /\ y.passes = x.passes
  /\ \/ y.capBBCount = 0
     \/ /\ y.capBBCount = x.capBBCount /\ y.capBB = x.capBB
        /\ y.capInstrCount = x.capInstrCount

\* Decoding a block takes what is left of the table of decoded instructions.
LEMMA DecodeTables ==
  ASSUME NEW x, Tables(x), NEW b \in Functions \X Nat, b[2] \in DOMAIN Code[b[1]].blocks
  PROVE  LET y == decode(x, b)
         IN /\ Tables(y) /\ (CodeOk(x) => CodeOk(y)) /\ CapturedStays(x, y)
            /\ y.next = x.next /\ y.func = x.func /\ y.cc = cc_get(x.cc)
            /\ (x.cap => y.cap)
<1> DEFINE y == IF x.dec THEN x ELSE initRewriter(x)
           z == [y EXCEPT !.cc = cc_get(@)]
           n == Least(Length(b), z.capacity["decInstr"] - z.decInstrCount)
           s == Append(z.decBB, [ block |-> b, count |-> n ])
           m == z.decInstrCount + n
           u == [z EXCEPT !.decBB = s, !.decInstrCount = m]
<1>1. /\ Tables(y) /\ (CodeOk(x) => CodeOk(y)) /\ y.next = x.next /\ y.func = x.func
      /\ y.cc = x.cc /\ (x.cap => y.cap) /\ y.dec
  BY InitTables
<1>2. CapturedStays(x, y)
  <2>1. initRewriter(x).passes = x.passes
    BY DEF Tables, Rewriters, initRewriter
  <2> QED
    BY <2>1, InitTables DEF CapturedStays
<1> HIDE DEF y
<1>3. y \in Rewriters
  BY <1>1 DEF Tables
<1>4. cc_get(y.cc) \in Configs /\ cc_get(y.cc) # NoConfig
      /\ (y.cc = NoConfig => cc_get(y.cc).parCount = -1) /\ (y.cc # NoConfig => cc_get(y.cc) = y.cc)
  <2>1. cc_new \in Configs /\ cc_new.parCount = -1 /\ NoConfig.parCount = -2 /\ y.cc \in Configs
    <3>1. cc_new.parCount = -1 /\ NoConfig.parCount = -2
      BY DEF NoConfig, cc_new
    <3> QED
      BY <1>3, <3>1, NewConfigured DEF Configured, Rewriters
  <2> QED
    BY <2>1 DEF cc_get
<1>5. /\ z \in Rewriters /\ z.next = y.next /\ z.func = y.func /\ z.cc = cc_get(y.cc)
      /\ z.cap = y.cap /\ z.dec = y.dec /\ z.passes = y.passes
      /\ z.capBBCount = y.capBBCount /\ z.capBB = y.capBB /\ z.capInstrCount = y.capInstrCount
  BY <1>3, <1>4 DEF Rewriters
<1>6. Tables(z)
  <2>1. DecFits(z) /\ CapFits(z)
    BY <1>1, <1>3 DEF Tables, DecFits, CapFits, InPlace, Rewriters
  <2>2. PoolFits(z)
    BY <1>1, <1>3, <1>4, SMTT(30) DEF Tables, PoolFits, Rewriters
  <2> QED
    BY <1>5, <2>1, <2>2 DEF Tables
<1>7. CodeOk(x) => CodeOk(z)
  BY <1>1, <1>3 DEF CodeOk, Rewriters
<1> HIDE DEF z
<1>8. CASE decode(x, b) = z
  BY <1>1, <1>2, <1>5, <1>6, <1>7, <1>8 DEF CapturedStays
<1>9. CASE decode(x, b) = Dead(z)
  <2>1. /\ Dead(z).func = z.func /\ Dead(z).cc = z.cc /\ Dead(z).cap = z.cap
        /\ Dead(z).passes = z.passes /\ Dead(z).capBBCount = z.capBBCount
        /\ Dead(z).capBB = z.capBB /\ Dead(z).capInstrCount = z.capInstrCount
    BY <1>5 DEF Dead, Rewriters
  <2> QED
    BY <1>1, <1>2, <1>5, <1>6, <1>9, <2>1, DeadTables DEF CapturedStays
<1>10. CASE /\ decode(x, b) = u /\ Len(z.decBB) < z.capacity["decBB"]
  <2>1. /\ z.decInstrCount \in Nat /\ z.decBB \in Seq(Decodings)
        /\ z.capacity["decInstr"] \in Nat /\ z.capacity["decBB"] \in Nat
    BY <1>5 DEF Rewriters, Capacities
  <2>2. z.decInstrCount <= z.capacity["decInstr"]
    BY <1>1, <1>5, <1>6 DEF Tables, DecFits
  <2>3. n \in Nat /\ z.decInstrCount + n <= z.capacity["decInstr"]
    BY <2>1, <2>2, LengthFacts DEF Least
  <2> HIDE DEF n
  <2>4. s \in Seq(Decodings) /\ Len(s) = Len(z.decBB) + 1 /\ m \in Nat
    <3>1. [ block |-> b, count |-> n ] \in Decodings
      BY <2>3 DEF Decodings
    <3> QED
      BY <2>1, <2>3, <3>1
  <2> HIDE DEF s, m
  <2>5. u \in Rewriters
    BY <1>5, <2>4 DEF Rewriters
  <2>6. /\ u.next = z.next /\ u.func = z.func /\ u.cc = z.cc /\ u.cap = z.cap
        /\ u.passes = z.passes /\ u.capBBCount = z.capBBCount
        /\ u.capBB = z.capBB /\ u.capInstrCount = z.capInstrCount
        /\ u.decBB = s /\ u.decInstrCount = m /\ u.capacity = z.capacity
    BY <1>5 DEF Rewriters
  <2>7. DecFits(u)
    BY <1>10, <2>1, <2>3, <2>4, <2>6 DEF DecFits, m
  <2>8. CapFits(u)
    BY <1>6, <2>6 DEF Tables, CapFits, InPlace
  <2>9. PoolFits(u) /\ (CodeOk(z) => CodeOk(u))
    BY <1>5, <1>6 DEF Tables, PoolFits, CodeOk, Rewriters
  <2> HIDE DEF u
  <2> QED
    BY <1>1, <1>2, <1>5, <1>7, <1>10, <2>5, <2>6, <2>7, <2>8, <2>9 DEF CapturedStays, Tables
<1>11. \/ decode(x, b) = z \/ decode(x, b) = Dead(z)
       \/ decode(x, b) = u /\ Len(z.decBB) < z.capacity["decBB"]
  <2>1. Len(z.decBB) \in Nat /\ z.capacity["decBB"] \in Nat
    BY <1>5 DEF Rewriters, Capacities
  <2>2. \/ decode(x, b) = z \/ decode(x, b) = Dead(z)
        \/ decode(x, b) = u /\ ~(Len(z.decBB) >= z.capacity["decBB"])
    BY DEF decode, z, y
  <2> QED
    BY <2>1, <2>2
<1> QED
  BY <1>8, <1>9, <1>10, <1>11

\* So does emulating a block, and decoding for the printer.
LEMMA EmulateTables ==
  ASSUME NEW x, Tables(x), NEW b \in Functions \X Nat, b[2] \in DOMAIN Code[b[1]].blocks
  PROVE  LET y == emulateBlock(x, b)
         IN /\ Tables(y) /\ (CodeOk(x) => CodeOk(y)) /\ CapturedStays(x, y)
            /\ y.next = x.next /\ y.func = x.func /\ y.cc = cc_get(x.cc)
            /\ (x.cap => y.cap)
<1> DEFINE y == decode(x, b)
<1>1. /\ Tables(y) /\ (CodeOk(x) => CodeOk(y)) /\ CapturedStays(x, y)
      /\ y.next = x.next /\ y.func = x.func /\ y.cc = cc_get(x.cc) /\ (x.cap => y.cap)
  BY DecodeTables
<1>2. emulateBlock(x, b) = y \/ emulateBlock(x, b) = Dead(y)
  BY DEF emulateBlock
<1> HIDE DEF y
<1>3. /\ Dead(y).func = y.func /\ Dead(y).cc = y.cc /\ Dead(y).cap = y.cap
      /\ Dead(y).passes = y.passes /\ Dead(y).capBBCount = y.capBBCount
      /\ Dead(y).capBB = y.capBB /\ Dead(y).capInstrCount = y.capInstrCount
  BY <1>1 DEF Tables, Dead, Rewriters
<1> QED
  BY <1>1, <1>2, <1>3, DeadTables DEF CapturedStays

LEMMA PrintTables ==
  ASSUME NEW x, Tables(x), CodeOk(x), NEW f \in Functions, 1 \in DOMAIN Code[f].blocks
  PROVE  LET y == decodePrint(x, f)
         IN Tables(y) /\ CodeOk(y) /\ y.next = x.next
<1> DEFINE z == [x EXCEPT !.decBB = << >>]
           u == decode(z, << f, 1 >>)
           y == [u EXCEPT !.fresh = FALSE]
<1>1. x \in Rewriters /\ << >> \in Seq(Decodings) /\ Len(<< >>) = 0
  BY DEF Tables
<1>2. z \in Rewriters /\ z.next = x.next
  BY <1>1 DEF Rewriters
<1>3. DecFits(z)
  BY <1>1 DEF Tables, DecFits, Rewriters, Capacities
<1>4. CapFits(z) /\ PoolFits(z) /\ CodeOk(z)
  BY <1>1 DEF Tables, CapFits, InPlace, PoolFits, CodeOk, Rewriters
<1> HIDE DEF z
<1>5. Tables(u) /\ CodeOk(u) /\ u.next = x.next
  BY <1>2, <1>3, <1>4, DecodeTables DEF Tables
<1>6. decodePrint(x, f) = y
  BY DEF decodePrint, z
<1> HIDE DEF u
<1>7. u \in Rewriters
  BY <1>5 DEF Tables
<1>8. y \in Rewriters /\ y.next = u.next
  BY <1>7 DEF Rewriters
<1>9. DecFits(y) /\ PoolFits(y) /\ CodeOk(y)
  BY <1>5, <1>7 DEF Tables, DecFits, PoolFits, CodeOk, Rewriters
<1>10. CapFits(y)
  BY <1>5, <1>7 DEF Tables, CapFits, InPlace, Rewriters
<1> QED
  BY <1>5, <1>6, <1>8, <1>9, <1>10 DEF Tables

\* Asking for blocks takes places in the table, about which nothing is known yet.
LEMMA AskedPlaces ==
  ASSUME NEW x \in Rewriters, NEW n \in Nat
  PROVE  \E j, q \in SUBSET Nat :
           getCaptureBBs(x, n) = [x EXCEPT !.capBBCount = x.capBBCount + n,
                                           !.jccs = j, !.placed = q]
<1> DEFINE asked == x.capBBCount + 1 .. x.capBBCount + n
<1>1. x.jccs \ asked \in SUBSET Nat /\ x.placed \ asked \in SUBSET Nat
  BY DEF Rewriters
<1>2. getCaptureBBs(x, n) = [x EXCEPT !.capBBCount = x.capBBCount + n,
                                      !.jccs = x.jccs \ asked, !.placed = x.placed \ asked]
  BY DEF getCaptureBBs
<1> HIDE DEF asked
<1> QED
  BY <1>1, <1>2

\* Capturing starts with empty tables, at the first block of the trace, and with
\* an expression for every parameter.
LEMMA ResetTables ==
  ASSUME NEW x, Tables(x), CodeOk(x), x.cc # NoConfig, ~Rejected(x),
         NEW r \in Nat, NEW call \in Calls, NEW promised \in BOOLEAN
  PROVE  LET y == resetCapturing(x)
             w == Frame(r, call, promised)
         IN /\ Tables(y) /\ CodeOk(y) /\ y.next = x.next
            /\ w \in Frames /\ w.r = r /\ InProgress(w, y)
<1> DEFINE n == x.cc.parCount
           e == x.ePool + n
           w == Frame(r, call, promised)
           x0 == [x EXCEPT !.capBBCount = 0]
<1>0. x \in Rewriters /\ x0 \in Rewriters /\ x0.capBBCount = 0
  BY DEF Tables, Rewriters
<1>a. PICK j \in SUBSET Nat, q \in SUBSET Nat :
        getCaptureBBs(x0, 1) = [x0 EXCEPT !.capBBCount = 1, !.jccs = j, !.placed = q]
  <2> HIDE DEF x0
  <2>1. x0.capBBCount + 1 = 1 /\ 1 \in Nat
    BY <1>0
  <2>2. \E j, q \in SUBSET Nat :
          getCaptureBBs(x0, 1) = [x0 EXCEPT !.capBBCount = x0.capBBCount + 1,
                                            !.jccs = j, !.placed = q]
    BY <1>0, <2>1, AskedPlaces
  <2> QED
    BY <2>1, <2>2
<1> DEFINE y == [x EXCEPT !.capBBCount = 1, !.jccs = j, !.placed = q, !.es = TRUE,
                          !.capBB = << >>, !.capInstrCount = Hints(x), !.calls = {},
                          !.ePool = e, !.fresh = FALSE]
<1>b. [getCaptureBBs(x0, 1) EXCEPT !.es = TRUE, !.capBB = << >>, !.capInstrCount = Hints(x),
                                   !.calls = {}, !.ePool = @ + n, !.fresh = FALSE] = y
  <2>1. getCaptureBBs(x0, 1).ePool = x.ePool
    BY <1>0, <1>a DEF Rewriters
  <2>2. getCaptureBBs(x0, 1) = [x EXCEPT !.capBBCount = 1, !.jccs = j, !.placed = q]
    BY <1>0, <1>a DEF Rewriters
  <2> HIDE DEF x0
  <2> QED
    BY <1>0, <2>1, <2>2 DEF Rewriters
<1>1. x \in Rewriters /\ Hints(x) \in {0, 1} /\ << >> \in Seq(Blocked) /\ Len(<< >>) = 0
  BY DEF Tables, Hints
<1>2. w \in Frames /\ w.r = r /\ w.phase = "capture" /\ w.pos = 1 /\ w.emulated = 0 /\ w.call = call
  BY DEF Frame, Frames, Phases
<1>3. n \in 0 .. 6 /\ x.ePool \in Nat /\ e \in Nat
  <2>1. n \in Int /\ n >= -1 /\ n # -1 /\ ~(n > 6) /\ x.ePool \in Nat
    BY <1>1 DEF Tables, PoolFits, Rejected, Rewriters, Configs
  <2> QED
    BY <2>1
<1>4. CASE x.func = NoFunc \/ ~x.cap \/ e > PoolSize
  <2>1. y.ePool = e
    BY <1>1 DEF Rewriters
  <2>2. resetCapturing(x) = Dead(x)
    BY <1>4, <1>b, <2>1 DEF resetCapturing
  <2> QED
    BY <1>2, <2>2, DeadTables
<1>5. CASE ~(x.func = NoFunc \/ ~x.cap \/ e > PoolSize)
  <2>1. y.ePool = e
    BY <1>1 DEF Rewriters
  <2>2. resetCapturing(x) = y
    BY <1>5, <1>b, <2>1 DEF resetCapturing
  <2> HIDE DEF w, e
  <2>3. y \in Rewriters
    <3> DEFINE h == Hints(x)
               s == << >>
    <3>1. e \in Nat /\ h \in Nat /\ s \in Seq(Blocked)
      BY <1>1, <1>3
    <3> HIDE DEF h, s
    <3>2. [x EXCEPT !.capBBCount = 1, !.jccs = j, !.placed = q, !.es = TRUE,
                    !.capBB = s, !.capInstrCount = h, !.calls = {}, !.ePool = e,
                    !.fresh = FALSE] \in Rewriters
      BY <1>1, <3>1 DEF Rewriters
    <3> QED
      BY <3>2 DEF h, s
  <2>4. /\ y.func = x.func /\ y.cc = x.cc /\ y.next = x.next /\ y.passes = x.passes
        /\ y.cap = x.cap /\ y.capBBCount = 1 /\ y.capBB = << >> /\ y.capInstrCount = Hints(x)
        /\ y.capacity = x.capacity
    BY <1>1 DEF Rewriters
  <2>5. DecFits(y) /\ CodeOk(y)
    BY <1>1 DEF Tables, DecFits, CodeOk, Rewriters
  <2>6. PoolFits(y)
    <3>1. e <= PoolSize
      BY <1>3, <1>5, RewriterAssumption
    <3> QED
      BY <1>1, <2>1, <3>1 DEF Tables, PoolFits, Rewriters
  <2>7. CapFits(y)
    <3>1. x.capacity["capInstr"] \in Nat /\ x.capacity["capBB"] \in Nat
      BY <1>1 DEF Rewriters, Capacities
    <3> QED
      BY <1>1, <2>4, <3>1 DEF Tables, CapFits, InPlace
  <2>8. y.func \in Functions
    BY <1>1, <1>5, <2>4 DEF Rewriters
  <2> HIDE DEF y
  <2>9. Follows(y, 0)
    <3>1. AskedFor(Trace(y))[0] = 1
      BY <2>3, <2>8, TraceFacts, AskedFacts
    <3> QED
      BY <1>1, <2>4, <3>1 DEF Follows
  <2>10. Capturing(w, y)
    <3>1. /\ Len(Trace(y)) \in Nat \ {0} /\ Trace(y)[1] \in TraceBlocks
      BY <2>3, <2>8, TraceFacts
    <3>2. Len(Trace(y)[1].dec) \in Nat
      BY <3>1, BlockTypes
    <3>3. y.capInstrCount = Hints(y) /\ Hints(y) \in {0, 1}
      BY <1>1, <2>4 DEF Hints
    <3> QED
      BY <1>2, <2>9, <3>1, <3>2, <3>3 DEF Capturing
  <2>11. InProgress(w, y)
    BY <1>5, <2>4, <2>5, <2>8, <2>10 DEF InProgress
  <2> QED
    BY <1>2, <2>2, <2>3, <2>4, <2>5, <2>6, <2>7, <2>11 DEF w, Tables
<1> QED
  BY <1>4, <1>5

\* A captured block follows those before, also in the pool.
LEMMA CapturedTables ==
  ASSUME NEW x, Tables(x), x.cap, x.func \in Functions, NEW p \in 1 .. Len(Trace(x)),
         Follows(x, p - 1), p = 1 => x.capInstrCount >= Hints(x),
         ~CaptureFails(x, Trace(x)[p])
  PROVE  LET y == captureBlock(x, Trace(x)[p])
         IN /\ Tables(y) /\ (CodeOk(x) => CodeOk(y)) /\ Follows(y, p)
            /\ y.next = x.next /\ y.func = x.func /\ y.cc = x.cc /\ y.cap
<1> DEFINE t == Trace(x)[p]
           n == IF x.capBB = << >> THEN t.out + Hints(x) ELSE t.out
           b == [ instr |-> IF x.capBB = << >> THEN 0 ELSE x.capInstrCount, count |-> n ]
           s == Append(x.capBB, b)
           i == x.capInstrCount + t.out
           m == x.capBBCount + t.new
<1>2. /\ Trace(x) \in Seq(TraceBlocks) /\ t \in TraceBlocks /\ p <= AskedFor(Trace(x))[p - 1]
      /\ x \in Rewriters
  BY TraceFacts DEF Tables
<1>3. /\ t.out \in Nat /\ t.new \in Nat /\ Hints(x) \in {0, 1}
      /\ x.capInstrCount \in Nat /\ x.capBBCount \in Nat /\ x.capBB \in Seq(Blocked)
      /\ Len(x.capBB) \in Nat /\ (x.capBB = << >> <=> Len(x.capBB) = 0)
      /\ x.capacity["capInstr"] \in Nat /\ x.capacity["capBB"] \in Nat
  BY <1>2, BlockTypes, SMTT(30) DEF Rewriters, Capacities, Hints
<1>a. PICK j \in SUBSET Nat, q \in SUBSET Nat :
        getCaptureBBs(x, t.new) = [x EXCEPT !.capBBCount = m, !.jccs = j, !.placed = q]
  BY <1>2, <1>3, AskedPlaces
<1> DEFINE k0 == j \cup ({t.jcc} \ {0})
           y == [x EXCEPT !.capBBCount = m, !.placed = q, !.capBB = s, !.capInstrCount = i,
                          !.jccs = k0]
<1>b. k0 \in SUBSET Nat
  <2>1. t.jcc \in Nat
    BY <1>2, BlockTypes
  <2> QED
    BY <2>1
<1>1. captureBlock(x, t) = y
  <2> DEFINE z == getCaptureBBs(x, t.new)
  <2>1. /\ z.capBB = x.capBB /\ z.capInstrCount = x.capInstrCount /\ z.jccs = j
    BY <1>2, <1>a DEF Rewriters
  <2>2. captureBlock(x, t) = [z EXCEPT !.capBB = s, !.capInstrCount = i, !.jccs = k0]
    <3> HIDE DEF z
    <3>1. captureBlock(x, t) = [z EXCEPT
             !.capBB = Append(@, [ instr |-> IF @ = << >> THEN 0 ELSE x.capInstrCount,
                                   count |-> IF @ = << >> THEN t.out + Hints(x) ELSE t.out ]),
             !.capInstrCount = @ + t.out,
             !.jccs = @ \cup ({t.jcc} \ {0})]
      BY DEF captureBlock, z
    <3> QED
      BY <2>1, <3>1
  <2> HIDE DEF s, i, m, k0, t, z
  <2>3. z = [x EXCEPT !.capBBCount = m, !.jccs = j, !.placed = q]
    BY <1>a DEF z
  <2>4. x \in Rewriters
    BY <1>2
  <2> QED
    BY <2>2, <2>3, <2>4 DEF Rewriters
<1> HIDE DEF k0
<1>4. /\ Len(x.capBB) = p - 1 /\ x.capBBCount = AskedFor(Trace(x))[p - 1]
      /\ \A k \in 1 .. p - 1 :
           x.capBB[k].count = Trace(x)[k].out + (IF k = 1 THEN Hints(x) ELSE 0)
  BY DEF Follows
<1>5. p \in Nat /\ AskedFor(Trace(x))[p] = x.capBBCount + t.new
  <2>1. p \in Nat /\ AskedFor(Trace(x))[p] = AskedFor(Trace(x))[p - 1] + t.new
    BY <1>2, AskedFacts
  <2> QED
    BY <1>4, <2>1
<1>6. /\ i <= x.capacity["capInstr"] /\ m <= x.capacity["capBB"]
      /\ i \in Nat /\ m \in Nat /\ p <= m
  BY <1>2, <1>3, <1>4, <1>5, SMTT(30) DEF CaptureFails, Fits
<1>7. /\ b \in Blocked /\ b.count = n /\ n = t.out + (IF p = 1 THEN Hints(x) ELSE 0)
      /\ b.instr + n <= i
      /\ x.capBB # << >> => b.instr = x.capInstrCount
  BY <1>3, <1>4, <1>5, SMTT(30) DEF Blocked
<1> HIDE DEF b, n, t
<1>8. /\ s \in Seq(Blocked) /\ Len(s) = p /\ s[p] = b
      /\ \A k \in 1 .. p - 1 : s[k] = x.capBB[k]
  BY <1>3, <1>4, <1>5, <1>7
<1> HIDE DEF s
<1>9. /\ y.func = x.func /\ y.cc = x.cc /\ y.next = x.next /\ y.passes = x.passes
      /\ y.cap = x.cap /\ y.capBBCount = m /\ y.capBB = s /\ y.capInstrCount = i
      /\ y.capacity = x.capacity
  BY <1>2 DEF Rewriters
<1>10. y \in Rewriters
  <2> HIDE DEF i, m
  <2> QED
    BY <1>2, <1>6, <1>8, <1>a, <1>b DEF Rewriters
<1>11. DecFits(y) /\ PoolFits(y) /\ (CodeOk(x) => CodeOk(y))
  BY <1>2 DEF Tables, DecFits, PoolFits, CodeOk, Rewriters
<1> HIDE DEF y
<1>12. InPlace(y)
  <2>1. \A k \in 1 .. p - 1 : x.capBB[k] \in Blocked
    BY <1>3, <1>4
  <2>2. \A k \in 1 .. p - 1 : x.capBB[k].instr \in Nat /\ x.capBB[k].count \in Nat
    BY <2>1 DEF Blocked
  <2>3. InPlace(x)
    BY DEF Tables, CapFits
  <2>4. \A k \in 1 .. p - 1 : x.capBB[k].instr + x.capBB[k].count <= x.capInstrCount
    BY <1>4, <2>3 DEF InPlace
  <2> SUFFICES ASSUME NEW k \in 1 .. p
               PROVE  /\ s[k].instr + s[k].count <= i
                      /\ \A l \in 1 .. k - 1 :
                           \/ s[k].count = 0 \/ s[l].count = 0
                           \/ s[l].instr + s[l].count <= s[k].instr
                           \/ s[k].instr + s[k].count <= s[l].instr
    BY <1>8, <1>9 DEF InPlace
  <2>5. CASE k = p
    <3>1. \A l \in 1 .. p - 1 : s[l].instr + s[l].count <= b.instr
      BY <1>3, <1>4, <1>7, <1>8, <2>4, SMTT(30)
    <3> QED
      BY <1>7, <1>8, <2>5, <3>1
  <2>6. CASE k # p
    <3>1. k \in 1 .. p - 1 /\ s[k] = x.capBB[k] /\ \A l \in 1 .. k - 1 : s[l] = x.capBB[l]
      BY <1>5, <1>8, <2>6
    <3>2. s[k].instr + s[k].count <= x.capInstrCount
      BY <2>4, <3>1
    <3>3. s[k].instr + s[k].count <= i
      <4>1. s[k].instr + s[k].count \in Nat
        BY <2>2, <3>1
      <4>2. x.capInstrCount <= i
        BY <1>3
      <4> HIDE DEF i
      <4> QED
        BY <1>3, <1>6, <3>2, <4>1, <4>2
    <3> QED
      BY <1>4, <2>3, <3>1, <3>3 DEF InPlace
  <2> QED
    BY <2>5, <2>6
<1>13. CapFits(y)
  <2>1. y.capacity["capInstr"] >= 1 /\ y.capacity["capBB"] >= 1
    BY <1>9 DEF Tables, CapFits
  <2> QED
    BY <1>6, <1>8, <1>9, <1>12, <2>1 DEF CapFits
<1>14. Follows(y, p)
  <2>1. Trace(y) = Trace(x) /\ Hints(y) = Hints(x)
    BY <1>9 DEF Trace, Hints
  <2>2. ASSUME NEW k \in 1 .. p
        PROVE  s[k].count = Trace(x)[k].out + (IF k = 1 THEN Hints(x) ELSE 0)
    <3>1. CASE k = p
      BY <1>7, <1>8, <3>1 DEF t
    <3>2. CASE k # p
      <4>1. k \in 1 .. p - 1
        BY <1>5, <3>2
      <4> QED
        BY <1>4, <1>8, <4>1
    <3> QED
      BY <3>1, <3>2
  <2> QED
    BY <1>5, <1>8, <1>9, <2>1, <2>2 DEF Follows
<1> QED
  BY <1>1, <1>9, <1>10, <1>11, <1>13, <1>14 DEF Tables, t

\* Copying the instructions of a block moves it behind everything in the pool, or
\* leaves it where it is.
LEMMA CopyTables ==
  ASSUME NEW x, Tables(x), x.cap, NEW i \in 1 .. Len(x.capBB)
  PROVE  LET y == optPassCopy(x, i)
         IN /\ Tables(y) /\ (CodeOk(x) => CodeOk(y))
            /\ \A n : (Follows(x, n) => Follows(y, n)) /\ (Generated(x, n) => Generated(y, n))
            /\ y.next = x.next /\ y.func = x.func /\ y.cc = x.cc /\ y.cap
            /\ y.vreq = x.vreq /\ Len(y.capBB) = Len(x.capBB)
<1> DEFINE n == x.capBB[i].count
           m == Taken(x, n)
           v == IF Fits(x, n) /\ n > 0 THEN x.capInstrCount ELSE x.capBB[i].instr
           b == [x.capBB[i] EXCEPT !.instr = v]
           s == [x.capBB EXCEPT ![i] = b]
           y == [x EXCEPT !.capInstrCount = m, !.capBB = s]
<1>1. x \in Rewriters
  BY DEF Tables
<1>2. /\ x.capBB \in Seq(Blocked) /\ Len(x.capBB) \in Nat
      /\ x.capInstrCount \in Nat /\ x.capacity["capInstr"] \in Nat
  BY <1>1 DEF Rewriters, Capacities
<1>3. \A k \in 1 .. Len(x.capBB) :
        /\ x.capBB[k] \in Blocked
        /\ x.capBB[k].instr \in Nat /\ x.capBB[k].count \in Nat
        /\ x.capBB[k].instr + x.capBB[k].count <= x.capInstrCount
  <2>1. \A k \in 1 .. Len(x.capBB) : x.capBB[k] \in Blocked
    BY <1>2
  <2>2. \A k \in 1 .. Len(x.capBB) : x.capBB[k].instr \in Nat /\ x.capBB[k].count \in Nat
    BY <2>1 DEF Blocked
  <2> QED
    BY <2>1, <2>2 DEF Tables, CapFits, InPlace
<1>4. /\ x.capInstrCount <= x.capacity["capInstr"] /\ Len(x.capBB) <= x.capBBCount
      /\ x.capBBCount <= x.capacity["capBB"]
      /\ x.capacity["capInstr"] >= 1 /\ x.capacity["capBB"] >= 1 /\ InPlace(x)
  BY DEF Tables, CapFits
<1>5. optPassCopy(x, i) = y
  <2> DEFINE z == [x EXCEPT !.capInstrCount = m]
  <2>1. z.capBB = x.capBB
    BY <1>1 DEF Rewriters
  <2>2. optPassCopy(x, i) = [x EXCEPT !.capInstrCount = m, !.capBB[i].instr = v]
    BY DEF optPassCopy
  <2> QED
    BY <2>1, <2>2
<1>6. /\ m \in Nat /\ x.capInstrCount <= m /\ m <= x.capacity["capInstr"]
      /\ Fits(x, n) => m = x.capInstrCount + n
      /\ n \in Nat
  BY <1>2, <1>3, <1>4, SMTT(30) DEF Taken, Fits, Least
<1>7. /\ v \in Nat /\ v + n <= m
      /\ v = x.capBB[i].instr \/ v = x.capInstrCount
  BY <1>2, <1>3, <1>6
<1>8. b \in Blocked /\ b.instr = v /\ b.count = n
  BY <1>3, <1>7 DEF Blocked
<1> HIDE DEF b, v, m
<1>9. /\ s \in Seq(Blocked) /\ Len(s) = Len(x.capBB) /\ s[i] = b
      /\ \A k \in 1 .. Len(x.capBB) : k # i => s[k] = x.capBB[k]
  BY <1>2, <1>8
<1> HIDE DEF s
<1>10. /\ y.func = x.func /\ y.cc = x.cc /\ y.next = x.next /\ y.passes = x.passes
       /\ y.cap = x.cap /\ y.capBBCount = x.capBBCount /\ y.capBB = s /\ y.capInstrCount = m
       /\ y.capacity = x.capacity /\ y.vreq = x.vreq /\ y.code = x.code
  BY <1>1 DEF Rewriters
<1>11. y \in Rewriters
  BY <1>1, <1>6, <1>9 DEF Rewriters
<1>12. DecFits(y) /\ PoolFits(y) /\ (CodeOk(x) => CodeOk(y))
  BY <1>1 DEF Tables, DecFits, PoolFits, CodeOk, Rewriters
<1> HIDE DEF y
<1>13. InPlace(y)
  <2>1. \A k \in 1 .. Len(x.capBB) : k # i =>
          /\ s[k].instr + s[k].count <= x.capInstrCount
          /\ s[k].instr + s[k].count \in Nat
    BY <1>3, <1>9
  <2>2. \A k \in 1 .. Len(x.capBB) : s[k].instr + s[k].count <= m
    BY <1>2, <1>6, <1>7, <1>8, <1>9, <2>1
  <2>3. ASSUME NEW k \in 1 .. Len(x.capBB), NEW j \in 1 .. k - 1
        PROVE  \/ s[k].count = 0 \/ s[j].count = 0
               \/ s[j].instr + s[j].count <= s[k].instr
               \/ s[k].instr + s[k].count <= s[j].instr
    <3>1. j \in 1 .. Len(x.capBB) /\ j # k
      BY <1>2
    <3>2. \A q \in 1 .. Len(x.capBB) : s[q].count = x.capBB[q].count
      BY <1>8, <1>9
    <3>3. \/ x.capBB[k].count = 0 \/ x.capBB[j].count = 0
          \/ x.capBB[j].instr + x.capBB[j].count <= x.capBB[k].instr
          \/ x.capBB[k].instr + x.capBB[k].count <= x.capBB[j].instr
      BY <1>4 DEF InPlace
    <3>4. CASE v = x.capBB[i].instr
      <4>1. \A q \in 1 .. Len(x.capBB) : s[q].instr = x.capBB[q].instr
        BY <1>8, <1>9, <3>4
      <4> QED
        BY <3>1, <3>2, <3>3, <4>1
    <3>5. CASE v = x.capInstrCount
      BY <1>8, <1>9, <2>1, <3>1, <3>2, <3>3, <3>5
    <3> QED
      BY <1>7, <3>4, <3>5
  <2> QED
    BY <1>9, <1>10, <2>2, <2>3 DEF InPlace
<1>14. CapFits(y)
  BY <1>4, <1>6, <1>9, <1>10, <1>13 DEF CapFits
<1>15. ASSUME NEW k, Follows(x, k)
       PROVE  Follows(y, k)
  <2>1. Trace(y) = Trace(x) /\ Hints(y) = Hints(x)
    BY <1>10 DEF Trace, Hints
  <2>2. k = Len(x.capBB) /\ \A q \in 1 .. Len(x.capBB) : s[q].count = x.capBB[q].count
    BY <1>8, <1>9, <1>15 DEF Follows
  <2> QED
    BY <1>9, <1>10, <1>15, <2>1, <2>2 DEF Follows
<1>16. \A k : Generated(x, k) => Generated(y, k)
  BY <1>10 DEF Generated, Trace
<1> QED
  BY <1>5, <1>9, <1>10, <1>11, <1>12, <1>14, <1>15, <1>16 DEF Tables

\* A block of the trace gets into the order.
LEMMA OrderGrows ==
  ASSUME NEW x, OrderFits(x.order, x.ordered, x.func), x.func \in Functions,
         NEW p \in 1 .. Len(Trace(x))
  PROVE  OrderFits(x.order \cup {p}, x.ordered \cup {x.cc.static}, x.func)
<1>1. p <= Len(Code[x.func].trace[x.cc.static])
  BY DEF Trace
<1> QED
  BY <1>1 DEF OrderFits

\* Generated code has what was captured for the blocks, without the hint.
LEMMA GenerateTables ==
  ASSUME NEW x, Tables(x), x.cap, x.func \in Functions, NEW p \in 1 .. Len(Trace(x)),
         Follows(x, Len(Trace(x))), Generated(x, p - 1), ~Overfull(x, p)
  PROVE  LET y == generate(x, p)
         IN /\ Tables(y) /\ Follows(y, Len(Trace(y))) /\ Generated(y, p)
            /\ y.next = x.next /\ y.func = x.func /\ y.cc = x.cc /\ y.cap /\ Trace(y) = Trace(x)
            /\ y.capBBCount = x.capBBCount /\ x.cc.static \in y.ordered
<1> DEFINE size == x.capBB[p].count + (IF p = 1 THEN -Hints(x) ELSE x.code.size)
           code == [ func |-> x.func, static |-> x.cc.static, blocks |-> p,
                     size |-> size, stale |-> FALSE, callees |-> x.calls ]
           count == x.genOrderCount + 1
           order == x.order \cup {p}
           ordered == x.ordered \cup {x.cc.static}
           y == [x EXCEPT !.genOrderCount = count, !.order = order, !.ordered = ordered,
                          !.code = code]
<1>1. x \in Rewriters /\ x.genOrderCount < GENORDER_MAX /\ x.genOrderCount \in Nat
  BY RewriterAssumption DEF Tables, Overfull, Rewriters
<1>2. generate(x, p) = y
  <2>1. intoOrder(x, p).code = x.code
    BY <1>1 DEF Rewriters, intoOrder
  <2>2. intoOrder(x, p) = [x EXCEPT !.genOrderCount = count, !.order = order,
                                    !.ordered = ordered]
    BY DEF intoOrder
  <2>3. generate(x, p) = [intoOrder(x, p) EXCEPT !.code = code]
    BY <2>1 DEF generate
  <2> HIDE DEF count, order, ordered, code
  <2> QED
    BY <1>1, <2>2, <2>3 DEF Rewriters
<1>3. /\ x.capBB \in Seq(Blocked) /\ Hints(x) \in {0, 1} /\ x.code \in Codes
      /\ x.cc.static \in BOOLEAN /\ x.calls \in SUBSET Callees
  BY <1>1 DEF Rewriters, Configs, Hints
<1>4. /\ Trace(x) \in Seq(TraceBlocks) /\ Trace(x)[p] \in TraceBlocks /\ p \in Nat \ {0}
  BY <1>1, TraceFacts
<1>5. /\ Len(x.capBB) = Len(Trace(x))
      /\ x.capBB[p].count = Trace(x)[p].out + (IF p = 1 THEN Hints(x) ELSE 0)
      /\ Trace(x)[p].out \in Nat
  BY <1>4, BlockTypes DEF Follows
<1>6. size \in Int /\ size = OutUpTo(Trace(x))[p]
  <2> DEFINE o == OutUpTo(Trace(x))
  <2>1. o[0] = 0 /\ o[p] = o[p - 1] + Trace(x)[p].out /\ o[p] \in Nat /\ o[p - 1] \in Nat
    <3>1. Len(Trace(x)) \in Nat /\ p \in 0 .. Len(Trace(x)) /\ p - 1 \in 0 .. Len(Trace(x))
      BY <1>4
    <3> QED
      BY <1>4, <3>1, OutFacts
  <2> HIDE DEF o
  <2>2. CASE p = 1
    BY <1>3, <1>5, <2>1, <2>2 DEF o
  <2>3. CASE p # 1
    <3>1. x.code.size = o[p - 1]
      BY <1>4, <2>3 DEF Generated, o
    <3> QED
      BY <1>5, <2>1, <2>3, <3>1 DEF o
  <2> QED
    BY <2>2, <2>3
<1> HIDE DEF size
<1>7. code \in Codes /\ FALSE \in BOOLEAN
  BY <1>3, <1>4, <1>6 DEF Codes
<1>8. code.func = x.func /\ code.static = x.cc.static /\ code.blocks = p /\ code.size = size
  OBVIOUS
<1> HIDE DEF code
<1>9. /\ count \in Nat /\ count <= GENORDER_MAX
      /\ order \in SUBSET Nat /\ ordered \in SUBSET BOOLEAN
      /\ OrderFits(order, ordered, x.func) /\ x.cc.static \in ordered
  <2>1. count \in Nat /\ count <= GENORDER_MAX
    BY <1>1, RewriterAssumption
  <2>2. order \in SUBSET Nat /\ ordered \in SUBSET BOOLEAN
    BY <1>1, <1>3, <1>4 DEF Rewriters
  <2> QED
    BY <2>1, <2>2, OrderGrows DEF Tables, PoolFits
<1> HIDE DEF count, order, ordered
<1>10. y \in Rewriters
  BY <1>1, <1>7, <1>9 DEF Rewriters
<1>11. /\ y.func = x.func /\ y.cc = x.cc /\ y.next = x.next /\ y.passes = x.passes
       /\ y.cap = x.cap /\ y.capBBCount = x.capBBCount /\ y.capBB = x.capBB
       /\ y.capInstrCount = x.capInstrCount /\ y.capacity = x.capacity /\ y.code = code
       /\ y.genOrderCount = count /\ y.order = order /\ y.ordered = ordered
  BY <1>1 DEF Rewriters
<1>12. DecFits(y) /\ PoolFits(y)
  BY <1>1, <1>9, <1>11 DEF Tables, DecFits, PoolFits, Rewriters
<1> HIDE DEF y
<1>13. CapFits(y)
  BY <1>11 DEF Tables, CapFits, InPlace
<1>14. Trace(y) = Trace(x) /\ Hints(y) = Hints(x)
  BY <1>11 DEF Trace, Hints
<1>15. Follows(y, Len(Trace(y))) /\ Generated(y, p)
  BY <1>6, <1>8, <1>11, <1>14 DEF Follows, Generated
<1> QED
  BY <1>2, <1>9, <1>10, <1>11, <1>12, <1>13, <1>14, <1>15 DEF Tables

\* Single fields that matter to other tables, or to none.
LEMMA FieldTables ==
  ASSUME NEW x, Tables(x)
  PROVE  /\ LET y == [x EXCEPT !.addr = "func"]
            IN Tables(y) /\ CodeOk(y) /\ y.next = x.next
         /\ \A n \in Nat :
              LET y == [x EXCEPT !.next = n]
              IN /\ Tables(y) /\ (CodeOk(x) => CodeOk(y)) /\ y.next = n
                 /\ \A w : InProgress(w, x) => InProgress(w, y)
<1>1. x \in Rewriters
  BY DEF Tables
<1>2. LET y == [x EXCEPT !.addr = "func"]
      IN Tables(y) /\ CodeOk(y) /\ y.next = x.next
  <2> DEFINE y == [x EXCEPT !.addr = "func"]
  <2>1. y \in Rewriters /\ y.next = x.next /\ y.addr = "func"
    BY <1>1 DEF Rewriters
  <2>2. DecFits(y) /\ CapFits(y) /\ PoolFits(y)
    BY <1>1 DEF Tables, DecFits, CapFits, InPlace, PoolFits, Rewriters
  <2> QED
    BY <2>1, <2>2 DEF Tables, CodeOk
<1>4. ASSUME NEW n \in Nat
      PROVE  LET y == [x EXCEPT !.next = n]
             IN /\ Tables(y) /\ (CodeOk(x) => CodeOk(y)) /\ y.next = n
                /\ \A w : InProgress(w, x) => InProgress(w, y)
  <2> DEFINE y == [x EXCEPT !.next = n]
  <2>1. y \in Rewriters /\ y.next = n
    BY <1>1 DEF Rewriters
  <2>2. /\ y.func = x.func /\ y.cc = x.cc /\ y.passes = x.passes /\ y.dead = x.dead
        /\ y.cap = x.cap /\ y.capBBCount = x.capBBCount /\ y.capBB = x.capBB
        /\ y.capInstrCount = x.capInstrCount /\ y.code = x.code /\ y.addr = x.addr
        /\ y.cs = x.cs /\ y.ordered = x.ordered
    BY <1>1 DEF Rewriters
  <2>3. DecFits(y) /\ CapFits(y) /\ PoolFits(y)
    BY <1>1 DEF Tables, DecFits, CapFits, InPlace, PoolFits, Rewriters
  <2> HIDE DEF y
  <2>4. /\ Trace(y) = Trace(x) /\ Hints(y) = Hints(x) /\ CodeOk(y) = CodeOk(x)
        /\ \A k : Follows(y, k) = Follows(x, k) /\ Generated(y, k) = Generated(x, k)
    BY <2>2 DEF Trace, Hints, CodeOk, Follows, Generated
  <2>5. \A w : InProgress(w, x) => InProgress(w, y)
    BY <2>2, <2>4 DEF InProgress, Capturing, Redirecting, Generating
  <2> QED
    BY <2>1, <2>3, <2>4, <2>5 DEF Tables, y
<1> QED
  BY <1>2, <1>4

\* What was captured is given up.
LEMMA DropTables ==
  ASSUME NEW x, Tables(x), NEW j \in SUBSET Nat, NEW q \in SUBSET Nat
  PROVE  LET y == [x EXCEPT !.capBBCount = 0, !.capBB = << >>, !.jccs = j, !.placed = q]
         IN Tables(y) /\ (CodeOk(x) => CodeOk(y)) /\ y.next = x.next
<1> DEFINE y == [x EXCEPT !.capBBCount = 0, !.capBB = << >>, !.jccs = j, !.placed = q]
<1>1. x \in Rewriters
  BY DEF Tables
<1>2. << >> \in Seq(Blocked) /\ Len(<< >>) = 0 /\ x.capacity["capBB"] \in Nat
  BY <1>1 DEF Rewriters, Capacities
<1>3. y \in Rewriters /\ y.next = x.next
  BY <1>1, <1>2 DEF Rewriters
<1>4. DecFits(y) /\ PoolFits(y) /\ (CodeOk(x) => CodeOk(y))
  BY <1>1 DEF Tables, DecFits, PoolFits, CodeOk, Rewriters
<1>5. CapFits(y)
  BY <1>1, <1>2 DEF Tables, CapFits, InPlace, Rewriters
<1> QED
  BY <1>3, <1>4, <1>5 DEF Tables

\* A call that is redirected is one more of those in the code.
LEMMA RedirectTables ==
  ASSUME NEW x, Tables(x), NEW kernel, kernel.func \in Functions, kernel.params \in Params,
         NEW variant
  PROVE  LET y == redirect(x, kernel, variant)
         IN /\ Tables(y) /\ (CodeOk(x) => CodeOk(y)) /\ y.next = x.next
            /\ y.func = x.func /\ y.cc = x.cc /\ y.cap = x.cap
            /\ \A n : Follows(x, n) => Follows(y, n)
<1> DEFINE c == [ func |-> kernel.func,
                  vreq |-> IF variant.addr = "func" THEN VR_None ELSE vreqOf(x, kernel) ]
           s == x.calls \cup {c}
           y == redirect(x, kernel, variant)
<1>1. x \in Rewriters
  BY DEF Tables
<1>2. c \in Callees
  BY <1>1 DEF Callees, Vectors, VR_None, vreqOf, Params, Rewriters
<1>3. s \in SUBSET Callees
  BY <1>1, <1>2 DEF Rewriters
<1> HIDE DEF s
<1>4. y = Dead(x) \/ y = [x EXCEPT !.calls = s]
  BY DEF redirect, s
<1> HIDE DEF y
<1>5. /\ y.func = x.func /\ y.cc = x.cc /\ y.cap = x.cap /\ y.next = x.next
      /\ y.passes = x.passes /\ y.capBB = x.capBB /\ y.capBBCount = x.capBBCount
  BY <1>1, <1>4 DEF Dead, Rewriters
<1>6. \A n : Follows(x, n) => Follows(y, n)
  BY <1>5 DEF Follows, Trace, Hints
<1>7. CASE y = Dead(x)
  BY <1>5, <1>6, <1>7, DeadTables DEF y
<1>8. CASE y = [x EXCEPT !.calls = s]
  <2>1. y \in Rewriters
    BY <1>1, <1>3, <1>8 DEF Rewriters
  <2>2. DecFits(y) /\ CapFits(y) /\ PoolFits(y) /\ (CodeOk(x) => CodeOk(y))
    BY <1>1, <1>8 DEF Tables, DecFits, CapFits, InPlace, PoolFits, CodeOk, Rewriters
  <2> QED
    BY <1>5, <1>6, <2>1, <2>2 DEF Tables, y
<1> QED
  BY <1>4, <1>7, <1>8

\* Linked code is all of the function.  Blocks in the order that are not of this
\* rewriting are of one with other parameters known.
LEMMA LinkTables ==
  ASSUME NEW x, Tables(x), x.func \in Functions, Generated(x, Len(Trace(x))),
         Len(Trace(x)) <= x.capBBCount
  PROVE  LET y == link(x)
         IN Tables(y) /\ CodeOk(y) /\ y.next = x.next
<1> DEFINE passes == x.passes /\ x.genOrderCount < GENORDER_MAX
           placed == x.placed \cup DOMAIN x.capBB
           code == [x.code EXCEPT !.stale = Stale(x) # {}]
           y == [x EXCEPT !.placed = placed, !.code = code, !.addr = "code", !.passes = passes]
<1>1. x \in Rewriters /\ passes \in BOOLEAN /\ x.code \in Codes /\ x.capBB \in Seq(Blocked)
  BY DEF Tables, Rewriters
<1>a. placed \in SUBSET Nat
  BY <1>1 DEF Rewriters
<1>b. /\ code \in Codes /\ code.func = x.code.func /\ code.static = x.code.static
      /\ code.blocks = x.code.blocks /\ code.size = x.code.size
      /\ code.stale = (Stale(x) # {})
  BY <1>1 DEF Codes
<1>2. link(x) = y
  <2>1. [x EXCEPT !.placed = placed].code = x.code
    BY <1>1 DEF Rewriters
  <2>2. link(x) = [x EXCEPT !.placed = placed, !.code.stale = Stale(x) # {},
                            !.addr = "code", !.passes = passes]
    BY DEF link
  <2> HIDE DEF placed, passes
  <2> QED
    BY <1>1, <2>1, <2>2 DEF Rewriters
<1> HIDE DEF passes, placed, code
<1>3. /\ y \in Rewriters /\ y.next = x.next /\ y.code = code /\ y.func = x.func
      /\ y.ordered = x.ordered
  BY <1>1, <1>a, <1>b DEF Rewriters
<1>4. DecFits(y) /\ CapFits(y) /\ PoolFits(y)
  BY <1>1 DEF Tables, DecFits, CapFits, InPlace, PoolFits, Rewriters
<1>5. Trace(x) \in Seq(TraceBlocks) /\ Len(Trace(x)) > 0
  BY <1>1, TraceFacts
<1>6. /\ x.code.func = x.func /\ x.code.static = x.cc.static
      /\ x.code.blocks = Len(Trace(x)) /\ x.code.size = OutUpTo(Trace(x))[Len(Trace(x))]
  BY <1>5 DEF Generated
<1>7. Code[x.func].trace[x.code.static] = Trace(x)
  BY <1>6 DEF Trace
<1>8. x.code.size = FoldLeft(LAMBDA n, t : n + t.out, 0, Trace(x))
  BY <1>5, <1>6, FoldedOut
<1>9. Whole(code, x.func)
  BY <1>6, <1>7, <1>8, <1>b DEF Whole
<1>10. ASSUME x.ordered = {x.cc.static}
       PROVE  Stale(x) = {}
  <2>1. \A s \in x.order : s <= Len(Trace(x))
    BY <1>10 DEF Tables, PoolFits, OrderFits, Trace
  <2>2. \A s \in x.order : s \in Nat
    BY <1>1 DEF Rewriters
  <2>3. Len(Trace(x)) \in Nat /\ x.capBBCount \in Nat
    BY <1>1, <1>5 DEF Rewriters
  <2>4. \A s \in x.order : ~(s > x.capBBCount)
    BY <2>1, <2>2, <2>3
  <2> QED
    BY <2>4 DEF Stale
<1> HIDE DEF y
<1> QED
  BY <1>2, <1>3, <1>4, <1>6, <1>9, <1>10, <1>b DEF Tables, CodeOk

\* The rewriter of a new variant can capture.
LEMMA VariantTables ==
  ASSUME NEW x, Tables(x), NEW kernel, kernel.func \in Functions, kernel.params \in Params
  PROVE  LET y == newVariant(x, kernel)
         IN Tables(y) /\ CodeOk(y) /\ y.next = x.next /\ y.cc # NoConfig /\ ~Rejected(y)
<1> DEFINE a == [allocRewriter EXCEPT !.next = x.next]
           z == setFunction(a, kernel.func)
           n == ParCount(kernel.params)
           cc == [z.cc EXCEPT !.parCount = n]
           vreq == vreqOf(x, kernel)
           y == [z EXCEPT !.vreq = vreq, !.cc = cc]
<1>1. Tables(a) /\ a.next = x.next
  BY NewTables, FieldTables DEF Tables, Rewriters
<1> HIDE DEF a
<1>2. Tables(z) /\ CodeOk(z) /\ z.next = x.next /\ z.cc = cc_new
  BY <1>1, FunctionTables
<1>3. n \in {1, 2}
  BY DEF ParCount
<1>4. cc \in Configs /\ cc.parCount = n /\ cc # NoConfig
  <2>1. cc_new \in Configs /\ NoConfig.parCount = -2
    BY NewConfigured DEF Configured, NoConfig, cc_new
  <2>2. n \in Int /\ n # -2
    BY <1>3
  <2> HIDE DEF z, n
  <2>3. cc \in Configs /\ cc.parCount = n
    BY <1>2, <2>1, <2>2 DEF Configs
  <2> QED
    BY <2>1, <2>2, <2>3
<1>5. vreq \in Vectors
  BY DEF Tables, Rewriters, vreqOf, Vectors
<1>6. newVariant(x, kernel) = y
  <2>1. z \in Rewriters
    BY <1>2 DEF Tables
  <2>2. [z EXCEPT !.vreq = vreq].cc = z.cc
    BY <2>1 DEF Rewriters
  <2> QED
    BY <2>1, <2>2 DEF newVariant, a
<1> HIDE DEF z, n, cc, vreq
<1>7. z \in Rewriters
  BY <1>2 DEF Tables
<1>8. y \in Rewriters /\ y.next = z.next /\ y.cc = cc
  BY <1>4, <1>5, <1>7 DEF Rewriters
<1>9. DecFits(y) /\ CapFits(y) /\ CodeOk(y)
  BY <1>2, <1>7 DEF Tables, DecFits, CapFits, InPlace, CodeOk, Rewriters
<1>10. PoolFits(y)
  BY <1>2, <1>3, <1>4, <1>7, SMTT(30) DEF Tables, PoolFits, Rewriters
<1>11. ~Rejected(y)
  BY <1>3, <1>4, <1>8 DEF Rejected
<1> QED
  BY <1>2, <1>4, <1>6, <1>8, <1>9, <1>10, <1>11 DEF Tables

----------------------------------------------------------------------------
(***************************************************************************)
(* Steps of the innermost rewriting                                        *)
(***************************************************************************)

\* The innermost rewriting w goes on or ends, with the tables as they should be.
Advances(w) ==
  \E y : /\ Tables(y) /\ y.next \in {0} \cup (3 .. Len(rw))
         /\ \/ \E v \in Frames : v.r = w.r /\ InProgress(v, y) /\ Goes(v, y)
            \/ CodeOk(y) /\ Ends(w, y)

LEMMA EndAdvances ==
  ASSUME NEW w \in Frames, NEW x, Tables(x), x.next \in {0} \cup (3 .. Len(rw)),
         Dies(w, x) \/ (Stops(w, x) /\ (w.call = "emulate" => CodeOk(x)))
  PROVE  Advances(w)
<1>1. CASE Dies(w, x)
  BY <1>1, DeadTables DEF Dies, Advances
<1>2. CASE Stops(w, x) /\ (w.call = "emulate" => CodeOk(x))
  <2> DEFINE y == IF w.call = "emulate" THEN x ELSE [x EXCEPT !.addr = "func"]
  <2>1. Tables(y) /\ CodeOk(y) /\ y.next = x.next
    BY <1>2, FieldTables
  <2>2. Ends(w, y)
    BY <1>2 DEF Stops
  <2> HIDE DEF y
  <2> QED
    BY <2>1, <2>2 DEF Advances
<1> QED
  BY <1>1, <1>2

LEMMA CaptureAdvances ==
  ASSUME NEW w \in Frames, NEW x, Tables(x), x.next \in {0} \cup (3 .. Len(rw)),
         x.func \in Functions, x.cap, x.cc # NoConfig,
         w.pos <= Len(Trace(x)), Follows(x, w.pos),
         w.call = "emulate" => CodeOk(x), Captured(w, x)
  PROVE  Advances(w)
<1>1. /\ w.pos \in Nat \ {0} /\ w.call \in Calls /\ Len(Trace(x)) \in Nat \ {0}
      /\ \A k \in 1 .. Len(Trace(x)) : Trace(x)[k] \in TraceBlocks
  BY TraceFacts DEF Frames, Tables
<1>2. CASE w.pos < Len(Trace(x))
  <2> DEFINE n == w.pos + 1
             v == [w EXCEPT !.phase = "capture", !.pos = n, !.emulated = 0]
  <2>1. Goes(v, x)
    BY <1>2 DEF Captured
  <2>2. n \in 1 .. Len(Trace(x)) /\ n # 1 /\ n - 1 = w.pos /\ n \in Nat \ {0}
    BY <1>1, <1>2
  <2> HIDE DEF n
  <2>3. /\ v \in Frames /\ v.r = w.r /\ v.phase = "capture" /\ v.pos = n
        /\ v.emulated = 0 /\ v.call = w.call
    BY <2>2 DEF Frames, Phases
  <2> HIDE DEF v
  <2>4. Len(Trace(x)[n].dec) \in Nat
    BY <1>1, <2>2, BlockTypes
  <2>5. Capturing(v, x)
    BY <1>1, <2>2, <2>3, <2>4 DEF Capturing
  <2>6. InProgress(v, x)
    BY <2>3, <2>5 DEF InProgress
  <2> QED
    BY <2>1, <2>3, <2>6 DEF Advances
<1>3. CASE ~(w.pos < Len(Trace(x))) /\ w.call = "emulate"
  BY <1>3 DEF Captured, Advances
<1>4. CASE ~(w.pos < Len(Trace(x))) /\ w.call # "emulate"
  <2> DEFINE phase == IF x.vreq = VR_None THEN "optimise" ELSE "vectorize"
             v == [w EXCEPT !.phase = phase, !.pos = 1]
  <2>1. Goes(v, x)
    BY <1>4 DEF Captured
  <2>2. phase \in Phases /\ phase \in {"vectorize", "optimise"} /\ w.call = "rewrite"
    BY <1>1, <1>4 DEF Phases, Calls
  <2> HIDE DEF phase
  <2>3. v \in Frames /\ v.r = w.r /\ v.phase = phase /\ v.pos = 1 /\ v.call = "rewrite"
    <3> DEFINE n == 1
    <3>1. n \in Nat \ {0}
      OBVIOUS
    <3> HIDE DEF n
    <3>2. /\ [w EXCEPT !.phase = phase, !.pos = n] \in Frames
          /\ [w EXCEPT !.phase = phase, !.pos = n].r = w.r
          /\ [w EXCEPT !.phase = phase, !.pos = n].call = w.call
      BY <2>2, <3>1 DEF Frames
    <3>3. v.phase = phase /\ v.pos = 1
      BY DEF Frames
    <3> QED
      BY <2>2, <3>2, <3>3 DEF n
  <2> HIDE DEF v
  <2>4. w.pos = Len(Trace(x))
    BY <1>1, <1>4
  <2>5. Generating(v, x)
    BY <1>1, <2>2, <2>3, <2>4 DEF Generating
  <2>6. InProgress(v, x)
    BY <2>3, <2>5 DEF InProgress
  <2> QED
    BY <2>1, <2>3, <2>6 DEF Advances
<1> QED
  BY <1>2, <1>3, <1>4

\* Emulating a block: what was captured stays, or all is reset.
LEMMA EmulateAdvances ==
  ASSUME NEW w \in Frames, NEW x, Tables(x), x.next \in {0} \cup (3 .. Len(rw)),
         ~x.dead, InProgress(w, x), EmulateBlock(w, x, Trace(x)[w.pos])
  PROVE  Advances(w)
<1> DEFINE t == Trace(x)[w.pos]
           n == w.emulated + 1
           b == t.dec[n]
           v == [w EXCEPT !.emulated = n]
           y == emulateBlock(x, b)
<1>1. /\ x.func \in Functions /\ x.cap /\ x.cc # NoConfig /\ Capturing(w, x)
      /\ w.call = "emulate" => CodeOk(x)
  BY DEF InProgress, Redirecting, Generating, EmulateBlock
<1>2. w.pos \in 1 .. Len(Trace(x)) /\ w.emulated \in Nat
  BY <1>1, TraceFacts DEF Capturing, Frames, Tables
<1>3. w.emulated < Len(t.dec) /\ Goes(v, y)
  BY DEF EmulateBlock
<1>4. n \in 1 .. Len(t.dec) /\ n \in Nat
  <2>1. t \in TraceBlocks
    BY <1>1, <1>2, TraceFacts DEF Tables
  <2>2. Len(t.dec) \in Nat
    BY <2>1, BlockTypes
  <2> QED
    BY <1>2, <1>3, <2>2
<1>5. b \in Functions \X Nat /\ b[2] \in DOMAIN Code[b[1]].blocks
  BY <1>1, <1>2, <1>4, TraceFacts DEF Tables
<1> HIDE DEF b, n
<1>6. /\ Tables(y) /\ (CodeOk(x) => CodeOk(y)) /\ CapturedStays(x, y)
      /\ y.next = x.next /\ y.func = x.func /\ y.cc = x.cc /\ y.cap
  BY <1>1, <1>5, EmulateTables DEF cc_get
<1>7. /\ v \in Frames /\ v.r = w.r /\ v.phase = w.phase /\ v.pos = w.pos
      /\ v.emulated = n /\ v.call = w.call
  BY <1>4 DEF Frames
<1> HIDE DEF v, y
<1>8. Trace(y) = Trace(x) /\ Hints(y) = Hints(x)
  BY <1>6 DEF Trace, Hints, CapturedStays
<1>9. n <= Len(t.dec)
  BY <1>4
<1>10. Capturing(v, y)
  BY <1>1, <1>6, <1>7, <1>8, <1>9 DEF Capturing, CapturedStays, Follows
<1>11. InProgress(v, y)
  BY <1>1, <1>6, <1>7, <1>10 DEF InProgress
<1> QED
  BY <1>3, <1>6, <1>7, <1>11 DEF Advances

\* Capturing a block, or giving up.
LEMMA CaptureBlockAdvances ==
  ASSUME NEW w \in Frames, NEW x, Tables(x), x.next \in {0} \cup (3 .. Len(rw)),
         ~x.dead, InProgress(w, x), CaptureBlock(w, x, Trace(x)[w.pos])
  PROVE  Advances(w)
<1> DEFINE t == Trace(x)[w.pos]
           v == [w EXCEPT !.phase = "redirect"]
           y(n) == [getCaptureBBs(x, n) EXCEPT !.capBBCount = 0, !.capBB = << >>]
           z == captureBlock(x, t)
<1>1. /\ x.func \in Functions /\ x.cap /\ x.cc # NoConfig /\ Capturing(w, x)
      /\ w.call = "emulate" => CodeOk(x)
  BY DEF InProgress, Redirecting, Generating, CaptureBlock
<1>2. w.pos \in 1 .. Len(Trace(x))
  BY <1>1, TraceFacts DEF Capturing, Frames, Tables
<1>3. CASE Dies(w, x)
  BY <1>3, EndAdvances
<1>4. CASE \E n \in 0 .. t.new : Stops(w, y(n))
  <2>1. PICK n \in 0 .. t.new : Stops(w, y(n))
    BY <1>4
  <2>2. n \in Nat /\ x \in Rewriters
    <3>1. t \in TraceBlocks
      BY <1>1, <1>2, TraceFacts DEF Tables
    <3>2. t.new \in Nat
      BY <3>1, BlockTypes
    <3> QED
      BY <3>2 DEF Tables
  <2>3. PICK j \in SUBSET Nat, q \in SUBSET Nat :
          getCaptureBBs(x, n) = [x EXCEPT !.capBBCount = x.capBBCount + n,
                                          !.jccs = j, !.placed = q]
    BY <2>2, AskedPlaces
  <2> DEFINE u == [x EXCEPT !.capBBCount = 0, !.capBB = << >>, !.jccs = j, !.placed = q]
  <2>4. y(n) = u
    BY <2>2, <2>3 DEF Rewriters
  <2>a. Tables(u) /\ (CodeOk(x) => CodeOk(u)) /\ u.next = x.next
    BY DropTables
  <2> HIDE DEF u, y
  <2>5. Tables(y(n)) /\ (CodeOk(x) => CodeOk(y(n))) /\ y(n).next = x.next
    BY <2>4, <2>a
  <2> QED
    BY <1>1, <2>1, <2>5, EndAdvances
<1>5. CASE /\ x.capBBCount > 0 /\ ~CaptureFails(x, t)
           /\ IF t.kernel = NoKernel THEN Captured(w, z) ELSE Goes(v, z)
  <2>1. Follows(x, w.pos - 1) /\ (w.pos = 1 => x.capInstrCount >= Hints(x))
    <3>1. x.capBBCount # 0
      BY <1>5 DEF Tables, Rewriters
    <3> QED
      BY <1>1, <3>1 DEF Capturing
  <2>2. /\ Tables(z) /\ (CodeOk(x) => CodeOk(z)) /\ Follows(z, w.pos)
        /\ z.next = x.next /\ z.func = x.func /\ z.cc = x.cc /\ z.cap
    BY <1>1, <1>2, <1>5, <2>1, CapturedTables
  <2> HIDE DEF z
  <2>3. Trace(z) = Trace(x) /\ w.pos <= Len(Trace(x))
    BY <1>1, <2>2 DEF Trace, Capturing
  <2>4. CASE Captured(w, z)
    BY <1>1, <2>2, <2>3, <2>4, CaptureAdvances
  <2>5. CASE t.kernel # NoKernel /\ Goes(v, z)
    <3>1. /\ v \in Frames /\ v.r = w.r /\ v.phase = "redirect" /\ v.pos = w.pos
          /\ v.call = w.call
      BY DEF Frames, Phases
    <3>2. Goes(v, z) /\ Trace(z)[w.pos].kernel # NoKernel
      BY <2>3, <2>5
    <3> HIDE DEF v
    <3>3. Redirecting(v, z)
      BY <2>2, <2>3, <3>1, <3>2 DEF Redirecting
    <3>4. InProgress(v, z)
      BY <1>1, <2>2, <3>1, <3>3 DEF InProgress
    <3> QED
      BY <2>2, <3>1, <3>2, <3>4 DEF Advances
  <2> QED
    BY <1>5, <2>4, <2>5
<1> QED
  BY <1>3, <1>4, <1>5 DEF CaptureBlock

\* Redirecting a call to a variant that is there.
LEMMA RedirectAdvances ==
  ASSUME NEW w \in Frames, NEW x, Tables(x), x.next \in {0} \cup (3 .. Len(rw)),
         ~x.dead, InProgress(w, x), w.phase = "redirect", NEW variant,
         Captured(w, redirect(x, Trace(x)[w.pos].kernel, variant))
  PROVE  Advances(w)
<1> DEFINE kernel == Trace(x)[w.pos].kernel
           y == redirect(x, kernel, variant)
<1>1. /\ x.func \in Functions /\ x.cap /\ x.cc # NoConfig /\ Redirecting(w, x)
      /\ w.call = "emulate" => CodeOk(x)
  BY DEF InProgress, Capturing, Generating
<1>2. w.pos \in 1 .. Len(Trace(x))
  BY <1>1, TraceFacts DEF Redirecting, Frames, Tables
<1>3. kernel.func \in Functions /\ kernel.params \in Params
  <2>1. Trace(x)[w.pos] \in TraceBlocks
    BY <1>1, <1>2, TraceFacts DEF Tables
  <2> QED
    BY <1>1, <2>1, BlockTypes DEF Redirecting
<1> HIDE DEF kernel
<1>4. /\ Tables(y) /\ (CodeOk(x) => CodeOk(y)) /\ y.next = x.next
      /\ y.func = x.func /\ y.cc = x.cc /\ y.cap = x.cap
      /\ \A n : Follows(x, n) => Follows(y, n)
  BY <1>3, RedirectTables
<1>5. Captured(w, y)
  BY DEF kernel
<1> HIDE DEF y
<1>6. Trace(y) = Trace(x)
  BY <1>4 DEF Trace
<1>7. Follows(y, w.pos) /\ w.pos <= Len(Trace(y))
  BY <1>1, <1>4, <1>6 DEF Redirecting
<1> QED
  BY <1>1, <1>4, <1>5, <1>7, CaptureAdvances

\* Vectorization of the only block.
LEMMA VectorizeAdvances ==
  ASSUME NEW w \in Frames, NEW x, Tables(x), x.next \in {0} \cup (3 .. Len(rw)),
         ~x.dead, InProgress(w, x), Vectorize(w, x)
  PROVE  Advances(w)
<1> DEFINE v == [w EXCEPT !.phase = "optimise"]
           y == vecPass(x)
<1>1. /\ x.func \in Functions /\ x.cap /\ x.cc # NoConfig /\ Generating(w, x)
      /\ w.call = "rewrite"
  BY DEF InProgress, Capturing, Redirecting, Generating, Vectorize
<1>2. 1 \in 1 .. Len(x.capBB)
  BY <1>1, TraceFacts DEF Generating, Follows, Tables
<1>3. /\ Tables(y) /\ \A n : Follows(x, n) => Follows(y, n)
      /\ y.next = x.next /\ y.func = x.func /\ y.cc = x.cc /\ y.cap
  BY <1>1, <1>2, CopyTables DEF vecPass
<1>4. /\ v \in Frames /\ v.r = w.r /\ v.phase = "optimise" /\ v.pos = w.pos
      /\ v.call = w.call
  BY DEF Frames, Phases
<1>5. Dies(w, x) \/ Stops(w, y) \/ Goes(v, y)
  BY DEF Vectorize
<1> HIDE DEF v, y
<1>6. Trace(y) = Trace(x)
  BY <1>3 DEF Trace
<1>7. InProgress(v, y)
  BY <1>1, <1>3, <1>4, <1>6 DEF InProgress, Generating
<1> QED
  BY <1>1, <1>3, <1>4, <1>5, <1>7, EndAdvances DEF Advances

\* The passes on a block.
LEMMA OptimiseAdvances ==
  ASSUME NEW w \in Frames, NEW x, Tables(x), x.next \in {0} \cup (3 .. Len(rw)),
         ~x.dead, InProgress(w, x), Optimise(w, x)
  PROVE  Advances(w)
<1> DEFINE n == w.pos + 1
           v == [w EXCEPT !.pos = n]
           u == [w EXCEPT !.phase = "generate", !.pos = 1]
           y == optPass(x, w.pos)
<1>1. /\ x.func \in Functions /\ x.cap /\ x.cc # NoConfig /\ Generating(w, x)
      /\ w.call = "rewrite" /\ w.phase = "optimise"
  BY DEF InProgress, Capturing, Redirecting, Generating, Optimise
<1>2. /\ w.pos \in 1 .. Len(x.capBB) /\ Len(x.capBB) = Len(Trace(x))
      /\ Len(Trace(x)) \in Nat \ {0} /\ w.pos \in Nat
  BY <1>1, TraceFacts DEF Generating, Follows, Tables, Frames
<1>3. /\ Tables(y) /\ \A k : Follows(x, k) => Follows(y, k)
      /\ y.next = x.next /\ y.func = x.func /\ y.cc = x.cc /\ y.cap
  BY <1>1, <1>2, CopyTables DEF optPass
<1>4. Stops(w, y) \/ (w.pos < Len(x.capBB) /\ Goes(v, y)) \/ Goes(u, y)
  BY DEF Optimise
<1> HIDE DEF y
<1>5. Trace(y) = Trace(x)
  BY <1>3 DEF Trace
<1>6. CASE Stops(w, y)
  BY <1>1, <1>3, <1>6, EndAdvances
<1>7. CASE w.pos < Len(x.capBB) /\ Goes(v, y)
  <2>1. n \in Nat \ {0} /\ n <= Len(Trace(x))
    BY <1>2, <1>7
  <2> HIDE DEF n
  <2>2. v \in Frames /\ v.r = w.r /\ v.phase = "optimise" /\ v.pos = n /\ v.call = w.call
    BY <1>1, <2>1 DEF Frames
  <2> HIDE DEF v
  <2>3. Generating(v, y)
    BY <1>1, <1>3, <1>5, <2>1, <2>2 DEF Generating
  <2> QED
    BY <1>1, <1>3, <1>7, <2>2, <2>3 DEF InProgress, Advances
<1>8. CASE Goes(u, y)
  <2>1. /\ u \in Frames /\ u.r = w.r /\ u.phase = "generate" /\ u.pos = 1
        /\ u.call = w.call
    <3> DEFINE m == 1
    <3>1. m \in Nat \ {0} /\ "generate" \in Phases
      BY DEF Phases
    <3> HIDE DEF m
    <3>2. /\ [w EXCEPT !.phase = "generate", !.pos = m] \in Frames
          /\ [w EXCEPT !.phase = "generate", !.pos = m].r = w.r
          /\ [w EXCEPT !.phase = "generate", !.pos = m].call = w.call
      BY <3>1 DEF Frames
    <3>3. u.phase = "generate" /\ u.pos = 1
      BY DEF Frames
    <3> QED
      BY <3>2, <3>3 DEF m
  <2> HIDE DEF u
  <2>2. Generated(y, u.pos - 1)
    BY <2>1 DEF Generated
  <2>3. Generating(u, y)
    BY <1>1, <1>2, <1>3, <1>5, <2>1, <2>2 DEF Generating
  <2> QED
    BY <1>1, <1>3, <1>8, <2>1, <2>3 DEF InProgress, Advances
<1> QED
  BY <1>4, <1>6, <1>7, <1>8

\* Code for a block, and the address behind the last.
LEMMA GenerateAdvances ==
  ASSUME NEW w \in Frames, NEW x, Tables(x), x.next \in {0} \cup (3 .. Len(rw)),
         ~x.dead, InProgress(w, x), GenerateBlock(w, x)
  PROVE  Advances(w)
<1> DEFINE n == w.pos + 1
           v == [w EXCEPT !.pos = n]
           y == generate(x, w.pos)
           count == x.genOrderCount + 1
           order == x.order \cup {w.pos}
           ordered == x.ordered \cup {x.cc.static}
           u == [x EXCEPT !.genOrderCount = count, !.order = order, !.ordered = ordered,
                          !.code = NoCode]
           d == [intoOrder(x, w.pos) EXCEPT !.code = NoCode]
<1>1. /\ x.func \in Functions /\ x.cap /\ x.cc # NoConfig /\ Generating(w, x)
      /\ w.call = "rewrite" /\ w.phase = "generate"
  BY DEF InProgress, Capturing, Redirecting, Generating, GenerateBlock
<1>2. /\ w.pos \in 1 .. Len(Trace(x)) /\ Len(x.capBB) = Len(Trace(x))
      /\ Len(Trace(x)) \in Nat \ {0} /\ w.pos \in Nat
      /\ Follows(x, Len(Trace(x))) /\ Generated(x, w.pos - 1)
  BY <1>1, TraceFacts DEF Generating, Follows, Tables, Frames
<1>3. CASE Dies(w, x)
  BY <1>3, EndAdvances
<1>4. CASE ~Overfull(x, w.pos) /\ Stops(w, d)
  <2>1. /\ x \in Rewriters /\ count \in Nat /\ count <= GENORDER_MAX
        /\ NoCode \in Codes
    BY <1>4, RewriterAssumption, SMTT(30) DEF Overfull, Tables, Rewriters, NoCode, Codes
  <2>a. /\ order \in SUBSET Nat /\ ordered \in SUBSET BOOLEAN
        /\ OrderFits(order, ordered, x.func)
    <3>1. x.cc.static \in BOOLEAN
      BY <2>1 DEF Rewriters, Configs
    <3>2. order \in SUBSET Nat /\ ordered \in SUBSET BOOLEAN
      BY <1>2, <2>1, <3>1 DEF Rewriters
    <3> QED
      BY <1>1, <1>2, <3>2, OrderGrows DEF Tables, PoolFits
  <2>b. d = u
    BY <2>1 DEF intoOrder, Rewriters
  <2> HIDE DEF count, order, ordered, d
  <2>2. u \in Rewriters /\ u.next = x.next
    BY <2>1, <2>a DEF Rewriters
  <2>3. DecFits(u) /\ CapFits(u) /\ PoolFits(u)
    BY <2>1, <2>a DEF Tables, DecFits, CapFits, InPlace, PoolFits, Rewriters
  <2> HIDE DEF u
  <2> QED
    BY <1>1, <1>4, <2>2, <2>3, <2>b, EndAdvances DEF Tables
<1>5. CASE ~Overfull(x, w.pos) /\ ((w.pos < Len(x.capBB) /\ Goes(v, y)) \/ (w.pos = Len(x.capBB) /\ Ends(w, link(y))))
  <2>1. /\ Tables(y) /\ Follows(y, Len(Trace(y))) /\ Generated(y, w.pos)
        /\ y.next = x.next /\ y.func = x.func /\ y.cc = x.cc /\ y.cap /\ Trace(y) = Trace(x)
        /\ y.capBBCount = x.capBBCount
    BY <1>1, <1>2, <1>5, GenerateTables
  <2> HIDE DEF y
  <2>2. CASE w.pos < Len(x.capBB) /\ Goes(v, y)
    <3>1. n \in Nat \ {0} /\ n <= Len(Trace(x)) /\ n - 1 = w.pos
      BY <1>2, <2>2
    <3> HIDE DEF n
    <3>2. v \in Frames /\ v.r = w.r /\ v.phase = "generate" /\ v.pos = n /\ v.call = w.call
      BY <1>1, <3>1 DEF Frames
    <3> HIDE DEF v
    <3>3. Generating(v, y)
      BY <1>1, <2>1, <3>1, <3>2 DEF Generating
    <3> QED
      BY <1>1, <2>1, <2>2, <3>2, <3>3 DEF InProgress, Advances
  <2>3. CASE w.pos = Len(x.capBB) /\ Ends(w, link(y))
    <3>1. w.pos = Len(Trace(y))
      BY <1>2, <2>1, <2>3
    <3>2. Len(Trace(y)) <= y.capBBCount
      BY <1>1, <1>2, <2>1 DEF Tables, CapFits
    <3>3. Tables(link(y)) /\ CodeOk(link(y)) /\ link(y).next = y.next
      BY <1>1, <2>1, <3>1, <3>2, LinkTables
    <3> QED
      BY <2>1, <2>3, <3>3 DEF Advances
  <2> QED
    BY <1>5, <2>2, <2>3
<1> QED
  BY <1>3, <1>4, <1>5 DEF GenerateBlock

----------------------------------------------------------------------------
(***************************************************************************)
(* All rewriters, and all rewritings                                       *)
(***************************************************************************)

\* The innermost rewriting w, and the others on other rewriters.
LEMMA InnermostFacts ==
  ASSUME IInv, TInv, frames # << >>
  PROVE  LET w == Head(frames)
         IN /\ Len(frames) \in Nat /\ 1 \in 1 .. Len(frames) /\ w = frames[1]
            /\ w \in Frames /\ w.r \in 1 .. Len(rw) /\ Len(rw) \in Nat
            /\ Tables(rw[w.r]) /\ InProgress(w, rw[w.r])
            /\ rw[w.r].next \in {0} \cup (3 .. Len(rw))
            /\ \A i \in 1 .. Len(frames) :
                 /\ frames[i] \in Frames /\ frames[i].r \in 1 .. Len(rw)
                 /\ InProgress(frames[i], rw[frames[i].r])
                 /\ i # 1 => frames[i].r # w.r
            /\ \A q \in 1 .. Len(rw) : BeingRewritten(q) <=>
                 \E i \in 1 .. Len(frames) : frames[i].r = q
<1>1. \E S : frames \in Seq(S)
  BY DEF IInv, Framed
<1>2. /\ Len(frames) \in Nat /\ 1 \in 1 .. Len(frames) /\ Head(frames) = frames[1]
      /\ DOMAIN frames = 1 .. Len(frames)
  BY <1>1
<1>3. Len(rw) \in Nat /\ \A i \in 1 .. Len(frames) : frames[i].r \in 1 .. Len(rw)
  BY DEF IInv, Framed, Listed
<1>4. /\ frames[1] \in Frames /\ frames[1].r \in 1 .. Len(rw)
      /\ InProgress(frames[1], rw[frames[1].r])
  BY <1>2, <1>3 DEF TInv
<1>5. Tables(rw[frames[1].r]) /\ rw[frames[1].r].next \in {0} \cup (3 .. Len(rw))
  BY <1>4 DEF TInv
<1>6. \A i \in 1 .. Len(frames) :
        /\ frames[i] \in Frames /\ InProgress(frames[i], rw[frames[i].r])
        /\ i # 1 => frames[i].r # frames[1].r
  BY <1>2 DEF TInv
<1>7. \A q \in 1 .. Len(rw) : BeingRewritten(q) <=>
        \E i \in 1 .. Len(frames) : frames[i].r = q
  BY <1>2 DEF BeingRewritten
<1> QED
  BY <1>2, <1>3, <1>4, <1>5, <1>6, <1>7

\* A rewriter is changed, and no rewriting.
LEMMA ReplaceFacts ==
  ASSUME IInv, NEW r \in 1 .. Len(rw), NEW y, rw' = [rw EXCEPT ![r] = y]
  PROVE  /\ Len(rw') = Len(rw) /\ Len(rw) \in Nat
         /\ \A q \in 1 .. Len(rw) : rw'[q] = IF q = r THEN y ELSE rw[q]
<1>1. PICK S : rw \in Seq(S)
  BY DEF IInv, Listed
<1>2. rw \in Seq(S \cup {y}) /\ y \in S \cup {y}
  BY <1>1
<1> QED
  BY <1>2

LEMMA AdvanceKeeps ==
  ASSUME IInv, TInv, frames # << >>, Advances(Head(frames))
  PROVE  TInv'
<1> DEFINE w == Head(frames)
           r == w.r
<1>1. /\ Len(frames) \in Nat /\ 1 \in 1 .. Len(frames) /\ w = frames[1]
      /\ w \in Frames /\ r \in 1 .. Len(rw) /\ Len(rw) \in Nat
      /\ \A i \in 1 .. Len(frames) :
           /\ frames[i] \in Frames /\ frames[i].r \in 1 .. Len(rw)
           /\ InProgress(frames[i], rw[frames[i].r])
           /\ i # 1 => frames[i].r # r
      /\ \A q \in 1 .. Len(rw) : BeingRewritten(q) <=>
           \E i \in 1 .. Len(frames) : frames[i].r = q
  BY InnermostFacts
<1>2. PICK y : /\ Tables(y) /\ y.next \in {0} \cup (3 .. Len(rw))
               /\ \/ \E v \in Frames : v.r = r /\ InProgress(v, y) /\ Goes(v, y)
                  \/ CodeOk(y) /\ Ends(w, y)
  BY DEF Advances
<1>3. rw' = [rw EXCEPT ![r] = y]
  BY <1>2 DEF Goes, Ends
<1>4. /\ Len(rw') = Len(rw)
      /\ \A q \in 1 .. Len(rw) : rw'[q] = IF q = r THEN y ELSE rw[q]
  BY <1>1, <1>3, ReplaceFacts
<1>5. PICK S : frames \in Seq(S)
  BY DEF IInv, Framed
<1>6. \A q \in 1 .. Len(rw) : Tables(rw'[q]) /\ rw'[q].next \in {0} \cup (3 .. Len(rw))
  BY <1>2, <1>4 DEF TInv
<1> HIDE DEF w, r
<1>7. \A q \in 1 .. Len(rw) : (~\E i \in 1 .. Len(frames) : frames[i].r = q) => CodeOk(rw[q])
  BY <1>1 DEF TInv
<1>8. \A i, j \in 1 .. Len(frames) : i # j => frames[i].r # frames[j].r
  BY DEF TInv
<1>9. CASE \E v \in Frames : v.r = r /\ InProgress(v, y) /\ Goes(v, y)
  <2>1. PICK v \in Frames : v.r = r /\ InProgress(v, y) /\ Goes(v, y)
    BY <1>9
  <2>2. frames' = [frames EXCEPT ![1] = v]
    BY <2>1 DEF Goes
  <2>3. /\ Len(frames') = Len(frames) /\ DOMAIN frames' = 1 .. Len(frames)
        /\ \A i \in 1 .. Len(frames) : frames'[i] = IF i = 1 THEN v ELSE frames[i]
    BY <1>5, <2>2
  <2>4. \A i \in 1 .. Len(frames) : frames'[i].r = frames[i].r
    BY <1>1, <2>1, <2>3 DEF r
  <2>5. ASSUME NEW q \in 1 .. Len(rw), ~BeingRewritten(q)'
        PROVE  CodeOk(rw'[q])
    <3>1. ~\E i \in 1 .. Len(frames) : frames[i].r = q
      BY <2>3, <2>4, <2>5 DEF BeingRewritten
    <3>2. q # r
      BY <1>1, <3>1 DEF r
    <3> QED
      BY <1>4, <1>7, <3>1, <3>2
  <2>6. ASSUME NEW i \in 1 .. Len(frames)
        PROVE  frames'[i] \in Frames /\ InProgress(frames'[i], rw'[frames'[i].r])
    <3>1. CASE i = 1
      BY <1>1, <1>4, <2>1, <2>3, <3>1
    <3>2. CASE i # 1
      BY <1>1, <1>4, <2>3, <3>2
    <3> QED
      BY <3>1, <3>2
  <2> QED
    BY <1>4, <1>6, <1>8, <2>3, <2>4, <2>5, <2>6 DEF TInv
<1>10. CASE CodeOk(y) /\ Ends(w, y)
  <2>1. frames' = Tail(frames)
    BY <1>10 DEF Ends
  <2>2. /\ Len(frames') = Len(frames) - 1 /\ DOMAIN frames' = 1 .. Len(frames) - 1
        /\ \A i \in 1 .. Len(frames) - 1 : frames'[i] = frames[i + 1]
    BY <1>1, <1>5, <2>1
  <2>3. \A i \in 1 .. Len(frames') : i + 1 \in 1 .. Len(frames) /\ i + 1 # 1
    BY <1>1, <2>2
  <2>4. ASSUME NEW q \in 1 .. Len(rw), ~BeingRewritten(q)'
        PROVE  CodeOk(rw'[q])
    <3>1. CASE q = r
      BY <1>4, <1>10, <3>1
    <3>2. CASE q # r
      <4>1. ASSUME NEW i \in 1 .. Len(frames), frames[i].r = q PROVE FALSE
        <5>1. i - 1 \in 1 .. Len(frames) - 1 /\ (i - 1) + 1 = i
          BY <1>1, <3>2, <4>1 DEF r
        <5>2. frames'[i - 1] = frames[i]
          BY <2>2, <5>1
        <5> QED
          BY <2>2, <2>4, <4>1, <5>1, <5>2 DEF BeingRewritten
      <4> QED
        BY <1>4, <1>7, <3>2, <4>1
    <3> QED
      BY <3>1, <3>2
  <2>5. ASSUME NEW i \in 1 .. Len(frames')
        PROVE  frames'[i] \in Frames /\ InProgress(frames'[i], rw'[frames'[i].r])
    <3> DEFINE k == i + 1
    <3>1. k \in 1 .. Len(frames) /\ k # 1 /\ frames'[i] = frames[k]
      BY <2>2, <2>3
    <3> HIDE DEF k
    <3> QED
      BY <1>1, <1>4, <3>1
  <2>6. ASSUME NEW i \in 1 .. Len(frames'), NEW j \in 1 .. Len(frames'), i # j
        PROVE  frames'[i].r # frames'[j].r
    <3> DEFINE k == i + 1
               l == j + 1
    <3>1. /\ k \in 1 .. Len(frames) /\ frames'[i] = frames[k]
          /\ l \in 1 .. Len(frames) /\ frames'[j] = frames[l] /\ k # l
      BY <2>2, <2>3, <2>6
    <3> HIDE DEF k, l
    <3> QED
      BY <1>8, <3>1
  <2> QED
    BY <1>4, <1>6, <2>4, <2>5, <2>6 DEF TInv
<1> QED
  BY <1>2, <1>9, <1>10

\* A rewriter is changed, and another one made.
LEMMA AppendFacts ==
  ASSUME IInv, NEW r \in 1 .. Len(rw), NEW y, NEW z,
         rw' = Append([rw EXCEPT ![r] = y], z)
  PROVE  /\ Len(rw') = Len(rw) + 1 /\ rw'[Len(rw) + 1] = z
         /\ \A q \in 1 .. Len(rw) : rw'[q] = IF q = r THEN y ELSE rw[q]
<1> DEFINE s == [rw EXCEPT ![r] = y]
<1>1. PICK S : rw \in Seq(S)
  BY DEF IInv, Listed
<1>2. rw \in Seq(S \cup {y, z}) /\ y \in S \cup {y, z} /\ z \in S \cup {y, z}
  BY <1>1
<1>3. /\ s \in Seq(S \cup {y, z}) /\ Len(s) = Len(rw)
      /\ \A q \in 1 .. Len(rw) : s[q] = IF q = r THEN y ELSE rw[q]
  BY <1>2
<1> HIDE DEF s
<1>4. PICK T : s \in Seq(T) /\ z \in T
  BY <1>2, <1>3
<1>5. /\ Len(Append(s, z)) = Len(s) + 1 /\ Append(s, z)[Len(s) + 1] = z
      /\ \A q \in 1 .. Len(s) : Append(s, z)[q] = s[q]
  BY <1>4
<1> QED
  BY <1>3, <1>5 DEF s

\* A rewriting starts in the middle of others.
LEMMA StartFacts ==
  ASSUME IInv, NEW u, frames' = << u >> \o frames
  PROVE  /\ Len(frames') = Len(frames) + 1 /\ DOMAIN frames' = 1 .. Len(frames) + 1
         /\ \A i \in 1 .. Len(frames) + 1 : frames'[i] = IF i = 1 THEN u ELSE frames[i - 1]
<1>1. PICK S : frames \in Seq(S)
  BY DEF IInv, Framed
<1>2. frames \in Seq(S \cup {u}) /\ u \in S \cup {u} /\ << u >> \in Seq(S \cup {u})
  BY <1>1
<1>3. /\ << u >> \o frames \in Seq(S \cup {u}) /\ Len(<< u >> \o frames) = Len(frames) + 1
      /\ \A i \in 1 .. Len(frames) + 1 :
           (<< u >> \o frames)[i] = IF i = 1 THEN u ELSE frames[i - 1]
  BY <1>2
<1>4. DOMAIN (<< u >> \o frames) = 1 .. Len(frames) + 1
  BY <1>3
<1> QED
  BY <1>3, <1>4, Zenon

\* A new variant: one rewriter more, on which the innermost rewriting goes on.
LEMMA VariantKeeps ==
  ASSUME IInv, TInv, frames # << >>, NEW kernel,
         kernel.func \in Functions, kernel.params \in Params,
         rw' = Append([rw EXCEPT ![Head(frames).r].next = Len(rw) + 1],
                      resetCapturing(newVariant(rw[Head(frames).r], kernel))),
         frames' = << Frame(Len(rw) + 1, "rewrite", FALSE) >> \o frames
  PROVE  TInv'
<1> DEFINE w == Head(frames)
           r == w.r
           x == rw[r]
           n == Len(rw) + 1
           y == [x EXCEPT !.next = n]
           z == resetCapturing(newVariant(x, kernel))
           u == Frame(n, "rewrite", FALSE)
<1>1. /\ Len(frames) \in Nat /\ w = frames[1] /\ 1 \in 1 .. Len(frames)
      /\ w \in Frames /\ r \in 1 .. Len(rw) /\ Len(rw) \in Nat
      /\ Tables(x) /\ InProgress(w, x) /\ x.next \in {0} \cup (3 .. Len(rw))
      /\ \A i \in 1 .. Len(frames) :
           /\ frames[i] \in Frames /\ frames[i].r \in 1 .. Len(rw)
           /\ InProgress(frames[i], rw[frames[i].r])
           /\ i # 1 => frames[i].r # r
      /\ \A q \in 1 .. Len(rw) : BeingRewritten(q) <=>
           \E i \in 1 .. Len(frames) : frames[i].r = q
  BY InnermostFacts
<1>2. Len(rw) >= 2 /\ \E S : rw \in Seq(S)
  BY DEF IInv, Listed
<1>3. \E S : frames \in Seq(S)
  BY DEF IInv, Framed
<1>4. rw' = Append([rw EXCEPT ![r] = y], z) /\ frames' = << u >> \o frames
  OBVIOUS
<1>5. n \in Nat /\ n \in 3 .. n /\ \A k \in {0} \cup (3 .. Len(rw)) : k \in {0} \cup (3 .. n)
  BY <1>1, <1>2
<1> HIDE DEF w, r
<1>6. /\ Tables(y) /\ y.next = n /\ InProgress(w, y)
  BY <1>1, <1>5, FieldTables
<1>7. /\ Tables(z) /\ CodeOk(z) /\ z.next = x.next
      /\ u \in Frames /\ u.r = n /\ InProgress(u, z)
  <2> DEFINE a == newVariant(x, kernel)
  <2>1. Tables(a) /\ CodeOk(a) /\ a.next = x.next /\ a.cc # NoConfig /\ ~Rejected(a)
    BY <1>1, VariantTables
  <2>2. "rewrite" \in Calls /\ FALSE \in BOOLEAN
    BY DEF Calls
  <2> HIDE DEF a, n
  <2> QED
    BY <1>5, <2>1, <2>2, ResetTables DEF a
<1> HIDE DEF x, y, z, u
<1>8. /\ Len(rw') = n
      /\ \A q \in 1 .. Len(rw) : rw'[q] = IF q = r THEN y ELSE rw[q]
      /\ rw'[n] = z
  <2>1. r \in 1 .. Len(rw) /\ rw' = Append([rw EXCEPT ![r] = y], z)
    BY <1>1, <1>4
  <2> HIDE DEF n
  <2>2. /\ Len(rw') = Len(rw) + 1 /\ rw'[Len(rw) + 1] = z
        /\ \A q \in 1 .. Len(rw) : rw'[q] = IF q = r THEN y ELSE rw[q]
    BY <2>1, AppendFacts
  <2> QED
    BY <2>2 DEF n
<1>9. /\ Len(frames') = Len(frames) + 1 /\ DOMAIN frames' = 1 .. Len(frames) + 1
      /\ \A i \in 1 .. Len(frames) + 1 : frames'[i] = IF i = 1 THEN u ELSE frames[i - 1]
  BY <1>4, StartFacts, Zenon
<1>10. \A i \in 1 .. Len(frames) + 1 : i # 1 => i - 1 \in 1 .. Len(frames)
  BY <1>1
<1>11. \A q \in 1 .. n : q = n \/ (q \in 1 .. Len(rw) /\ q # n)
  <2> DEFINE m == Len(rw)
  <2>1. m \in Nat /\ n = m + 1
    BY <1>1
  <2> HIDE DEF m, n
  <2>2. \A q \in 1 .. n : q = n \/ (q \in 1 .. m /\ q # n)
    BY <2>1
  <2> QED
    BY <2>2 DEF m
<1>12. n \notin 1 .. Len(rw) /\ 1 \in 1 .. Len(frames) + 1
  BY <1>1
<1> HIDE DEF n
<1>13. ASSUME NEW q \in 1 .. n
       PROVE  Tables(rw'[q]) /\ rw'[q].next \in {0} \cup (3 .. n)
  <2>1. CASE q = n
    BY <1>1, <1>5, <1>7, <1>8, <2>1
  <2>2. CASE q = r
    BY <1>1, <1>5, <1>6, <1>8, <2>2
  <2>3. CASE q # n /\ q # r
    <3>1. q \in 1 .. Len(rw) /\ rw'[q] = rw[q]
      BY <1>8, <1>11, <2>3
    <3>2. Tables(rw[q]) /\ rw[q].next \in {0} \cup (3 .. Len(rw))
      BY <3>1 DEF TInv
    <3> QED
      BY <1>5, <3>1, <3>2
  <2> QED
    BY <2>1, <2>2, <2>3
<1>14. ASSUME NEW q \in 1 .. n, ~BeingRewritten(q)'
       PROVE  CodeOk(rw'[q])
  <2>1. ~\E i \in 1 .. Len(frames) + 1 : frames'[i].r = q
    BY <1>9, <1>14 DEF BeingRewritten
  <2>2. q # n
    BY <1>7, <1>9, <1>12, <2>1
  <2>3. ~\E i \in 1 .. Len(frames) : frames[i].r = q
    <3> SUFFICES ASSUME NEW i \in 1 .. Len(frames), frames[i].r = q PROVE FALSE
      OBVIOUS
    <3> DEFINE k == i + 1
    <3>1. k \in 1 .. Len(frames) + 1 /\ k # 1 /\ k - 1 = i
      BY <1>1
    <3> HIDE DEF k
    <3> QED
      BY <1>9, <2>1, <3>1
  <2>4. q \in 1 .. Len(rw) /\ q # r
    BY <1>1, <1>11, <2>2, <2>3 DEF r
  <2>5. CodeOk(rw[q])
    BY <1>1, <2>3, <2>4 DEF TInv
  <2> QED
    BY <1>8, <2>4, <2>5
<1>15. ASSUME NEW i \in 1 .. Len(frames) + 1
       PROVE  frames'[i] \in Frames /\ InProgress(frames'[i], rw'[frames'[i].r])
  <2>1. CASE i = 1
    <3>1. frames'[i] = u
      BY <1>9, <2>1
    <3>2. rw'[u.r] = z
      BY <1>7, <1>8
    <3> QED
      BY <1>7, <3>1, <3>2
  <2>2. CASE i # 1
    <3> DEFINE k == i - 1
    <3>1. k \in 1 .. Len(frames) /\ frames'[i] = frames[k]
      BY <1>9, <1>10, <2>2
    <3> HIDE DEF k
    <3>2. CASE k = 1
      <4>1. frames'[i] = w /\ w.r \in 1 .. Len(rw)
        BY <1>1, <3>1, <3>2
      <4>2. rw'[w.r] = y
        BY <1>8, <4>1 DEF r
      <4> QED
        BY <1>1, <1>6, <4>1, <4>2
    <3>3. CASE k # 1
      BY <1>1, <1>8, <3>1, <3>3
    <3> QED
      BY <3>2, <3>3
  <2> QED
    BY <2>1, <2>2
<1>16. ASSUME NEW i \in 1 .. Len(frames) + 1, NEW j \in 1 .. Len(frames) + 1, i # j
       PROVE  frames'[i].r # frames'[j].r
  <2>1. \A k \in 1 .. Len(frames) + 1 : k # 1 =>
          /\ k - 1 \in 1 .. Len(frames) /\ frames'[k] = frames[k - 1]
          /\ frames'[k].r # n
    BY <1>1, <1>9, <1>10, <1>12
  <2>2. frames'[1].r = n
    BY <1>7, <1>9, <1>12
  <2>3. CASE i = 1 \/ j = 1
    BY <1>16, <2>1, <2>2, <2>3
  <2>4. CASE i # 1 /\ j # 1
    <3>1. i - 1 # j - 1
      BY <1>1, <1>16
    <3>2. frames[i - 1].r # frames[j - 1].r
      BY <2>1, <2>4, <3>1 DEF TInv
    <3> QED
      BY <2>1, <2>4, <3>2
  <2> QED
    BY <2>3, <2>4
<1> QED
  BY <1>8, <1>9, <1>13, <1>14, <1>15, <1>16 DEF TInv

----------------------------------------------------------------------------
(***************************************************************************)
(* Calls of the API, and steps                                             *)
(***************************************************************************)

\* Between rewritings, all rewriters are as they should be.
LEMMA IdleFacts ==
  ASSUME IInv, TInv, Idle
  PROVE  \A r \in {Client, DefaultRewriter} :
           /\ r \in 1 .. Len(rw) /\ Tables(rw[r]) /\ CodeOk(rw[r])
           /\ rw[r].next \in {0} \cup (3 .. Len(rw))
<1>1. \A r : ~BeingRewritten(r)
  BY DEF Idle, BeingRewritten
<1> QED
  BY <1>1, ClientOk DEF TInv

\* A call that changes one rewriter.
LEMMA PutTables ==
  ASSUME IInv, TInv, Idle, NEW r \in 1 .. Len(rw), NEW x, Tables(x), CodeOk(x),
         x.next \in {0} \cup (3 .. Len(rw)),
         rw' = [rw EXCEPT ![r] = x], frames' = frames
  PROVE  TInv'
<1>1. /\ Len(rw') = Len(rw)
      /\ \A q \in 1 .. Len(rw) : rw'[q] = IF q = r THEN x ELSE rw[q]
  BY ReplaceFacts
<1>2. frames = << >> /\ frames' = << >> /\ Len(frames') = 0
  BY DEF Idle
<1>3. \A q : ~BeingRewritten(q)
  BY <1>2 DEF BeingRewritten
<1>4. \A q \in 1 .. Len(rw) : /\ Tables(rw'[q]) /\ CodeOk(rw'[q])
                              /\ rw'[q].next \in {0} \cup (3 .. Len(rw))
  BY <1>1, <1>3 DEF TInv
<1> QED
  BY <1>1, <1>2, <1>4 DEF TInv

LEMMA ChangeTables ==
  ASSUME IInv, TInv, NEW x, Tables(x), CodeOk(x), x.next = rw[Client].next, Change(x)
  PROVE  TInv'
<1>1. Idle /\ rw' = [rw EXCEPT ![Client] = x] /\ frames' = frames
  BY DEF Change
<1> QED
  BY <1>1, IdleFacts, PutTables

\* Fields of the client's that no table depends on.
LEMMA ConfigureTables ==
  ASSUME NEW x, Tables(x), CodeOk(x), NEW cc \in Configs, cc.parCount >= -1, NEW n \in Nat
  PROVE  /\ LET y == [x EXCEPT !.cc = cc]
            IN Tables(y) /\ CodeOk(y) /\ y.next = x.next
         /\ LET y == [x EXCEPT !.vectorsize = n]
            IN Tables(y) /\ CodeOk(y) /\ y.next = x.next
<1>1. x \in Rewriters
  BY DEF Tables
<1>2. LET y == [x EXCEPT !.cc = cc]
      IN Tables(y) /\ CodeOk(y) /\ y.next = x.next
  <2> DEFINE y == [x EXCEPT !.cc = cc]
  <2>1. y \in Rewriters /\ y.next = x.next
    BY <1>1 DEF Rewriters
  <2>2. DecFits(y) /\ CapFits(y) /\ CodeOk(y)
    BY <1>1 DEF Tables, DecFits, CapFits, InPlace, CodeOk, Rewriters
  <2>3. PoolFits(y)
    BY <1>1 DEF Tables, PoolFits, Rewriters
  <2> QED
    BY <2>1, <2>2, <2>3 DEF Tables
<1>3. LET y == [x EXCEPT !.vectorsize = n]
      IN Tables(y) /\ CodeOk(y) /\ y.next = x.next
  <2> DEFINE y == [x EXCEPT !.vectorsize = n]
  <2>1. y \in Rewriters /\ y.next = x.next
    BY <1>1 DEF Rewriters
  <2>2. DecFits(y) /\ CapFits(y) /\ PoolFits(y) /\ CodeOk(y)
    BY <1>1 DEF Tables, DecFits, CapFits, InPlace, PoolFits, CodeOk, Rewriters
  <2> QED
    BY <2>1, <2>2 DEF Tables
<1> QED
  BY <1>2, <1>3

\* Configuring leaves the number of parameters, but where it is set.
LEMMA ParametersStay ==
  ASSUME NEW cc, Configured(cc), NEW f \in DOMAIN Start
  PROVE  /\ function_setname(cc, f).parCount = cc.parCount
         /\ function_setsize(cc, f).parCount = cc.parCount
         /\ set_memrange(cc, f).parCount = cc.parCount
         /\ [cc EXCEPT !.static = TRUE].parCount = cc.parCount
         /\ \A n : [cc EXCEPT !.parCount = n].parCount = n
<1>1. cc \in Configs
  BY DEF Configured
<1>2. /\ "parCount" \in DOMAIN cc
      /\ \A e, g : "parCount" \in DOMAIN e =>
           /\ "parCount" \in DOMAIN [e EXCEPT !.ranges = g]
           /\ [e EXCEPT !.ranges = g].parCount = e.parCount
           /\ "parCount" \in DOMAIN [e EXCEPT !.asked = g]
           /\ [e EXCEPT !.asked = g].parCount = e.parCount
  BY <1>1 DEF Configs
<1>3. \A type, start, size :
        /\ "parCount" \in DOMAIN mrc_new(cc, type, start, size)
        /\ mrc_new(cc, type, start, size).parCount = cc.parCount
  BY <1>2 DEF mrc_new
<1> DEFINE d == fc_get(cc, f)
<1>4. "parCount" \in DOMAIN d /\ d.parCount = cc.parCount
  BY <1>2, <1>3 DEF fc_get
<1> HIDE DEF d
<1>5. function_setname(cc, f).parCount = cc.parCount
  BY <1>2, <1>4 DEF function_setname, d
<1>6. function_setsize(cc, f).parCount = cc.parCount
  BY <1>2, <1>4 DEF function_setsize, d
<1> QED
  BY <1>1, <1>3, <1>5, <1>6 DEF set_memrange, Configs

\* Each of the configuring calls.
LEMMA ConfigTables ==
  ASSUME IInv, TInv,
         \/ dbrew_config_reset \/ dbrew_config_staticpar \/ dbrew_config_parcount
         \/ dbrew_config_function_setname \/ dbrew_config_function_setsize
         \/ dbrew_config_set_memrange
  PROVE  TInv'
<1>1. PICK cc : Configured(cc) /\ cc.parCount >= -1 /\ Configure(cc)
  <2>1. Idle
    BY DEF dbrew_config_reset, dbrew_config_staticpar, dbrew_config_parcount,
           dbrew_config_function_setname, dbrew_config_function_setsize,
           dbrew_config_set_memrange, Configure, Change
  <2>2. Configured(Config) /\ Config.parCount >= -1
    <3>1. rw[Client].cc # NoConfig => rw[Client].cc.parCount >= -1
      BY <2>1, IdleFacts DEF Tables, PoolFits
    <3>2. cc_new.parCount = -1
      BY DEF cc_new
    <3> QED
      BY <3>1, <3>2, ClientOk DEF Config, cc_get
  <2>3. CASE dbrew_config_reset
    <3>1. cc_new.parCount = -1
      BY DEF cc_new
    <3> QED
      BY <2>3, <3>1, NewConfigured DEF dbrew_config_reset
  <2>4. CASE dbrew_config_staticpar
    <3> DEFINE d == [Config EXCEPT !.static = TRUE]
    <3>1. Configured(d)
      BY <2>2, ParametersConfigured
    <3>2. Configure(d)
      BY <2>4 DEF dbrew_config_staticpar
    <3>3. d.parCount = Config.parCount
      BY <2>2 DEF Configured, Configs
    <3> HIDE DEF d
    <3> QED
      BY <2>2, <3>1, <3>2, <3>3
  <2>5. CASE dbrew_config_parcount
    <3>1. PICK n \in {1, 7} : Configure([Config EXCEPT !.parCount = n])
      BY <2>5 DEF dbrew_config_parcount
    <3> DEFINE d == [Config EXCEPT !.parCount = n]
    <3>2. n \in Int /\ n >= -1
      OBVIOUS
    <3>3. Configured(d)
      BY <2>2, <3>2, ParametersConfigured
    <3>4. d.parCount = n
      BY <2>2 DEF Configured, Configs
    <3> QED
      BY <3>1, <3>2, <3>3, <3>4
  <2>6. CASE dbrew_config_function_setname
    BY <2>2, <2>6, NameConfigured, ParametersStay DEF dbrew_config_function_setname
  <2>7. CASE dbrew_config_function_setsize
    BY <2>2, <2>7, SizeConfigured, ParametersStay DEF dbrew_config_function_setsize
  <2>8. CASE dbrew_config_set_memrange
    BY <2>2, <2>8, MemrangeConfigured, ParametersStay DEF dbrew_config_set_memrange
  <2> QED
    BY <2>3, <2>4, <2>5, <2>6, <2>7, <2>8
<1>2. Idle
  BY <1>1 DEF Configure, Change
<1>3. Tables(rw[Client]) /\ CodeOk(rw[Client]) /\ cc \in Configs
  BY <1>1, <1>2, IdleFacts DEF Configured
<1> DEFINE y == [rw[Client] EXCEPT !.cc = cc]
<1>4. Tables(y) /\ CodeOk(y) /\ y.next = rw[Client].next
  BY <1>1, <1>3, ConfigureTables
<1>5. Change(y)
  BY <1>1 DEF Configure
<1> HIDE DEF y
<1> QED
  BY <1>4, <1>5, ChangeTables

\* The start of a rewriting on the client's rewriter.
LEMMA OpensTables ==
  ASSUME IInv, TInv, NEW call \in Calls, Opens(call)
  PROVE  TInv'
<1> DEFINE x == rw[Client]
           y == resetCapturing(x)
           w == Frame(Client, call, Sufficient(x))
<1>1. Idle /\ x.cc # NoConfig /\ ~Rejected(x)
  BY DEF Opens
<1>2. rw' = [rw EXCEPT ![Client] = y] /\ frames' = << w >>
  BY DEF Opens
<1>3. /\ Client \in 1 .. Len(rw) /\ Tables(x) /\ CodeOk(x)
      /\ x.next \in {0} \cup (3 .. Len(rw))
  BY <1>1, IdleFacts
<1>4. Client \in Nat /\ Sufficient(x) \in BOOLEAN
  BY DEF Client, Sufficient
<1> DEFINE promised == Sufficient(x)
           r == Client
<1>5. promised \in BOOLEAN /\ r \in Nat
  BY <1>4
<1> HIDE DEF promised, r
<1>6. /\ Tables(y) /\ CodeOk(y) /\ y.next = x.next
      /\ w \in Frames /\ w.r = Client /\ InProgress(w, y)
  BY <1>1, <1>3, <1>5, ResetTables DEF promised, r
<1> HIDE DEF y, w
<1>7. /\ Len(rw') = Len(rw) /\ rw'[Client] = y
      /\ \A q \in 1 .. Len(rw) : rw'[q] = IF q = Client THEN y ELSE rw[q]
  BY <1>2, <1>3, ReplaceFacts
<1>8. Len(<< w >>) = 1 /\ << w >>[1] = w /\ \A i \in 1 .. 1 : i = 1
  OBVIOUS
<1>9. \A q : ~BeingRewritten(q)
  BY <1>1 DEF Idle, BeingRewritten
<1>10. \A q \in 1 .. Len(rw) : /\ Tables(rw'[q]) /\ CodeOk(rw'[q])
                               /\ rw'[q].next \in {0} \cup (3 .. Len(rw))
  BY <1>3, <1>6, <1>7, <1>9 DEF TInv
<1>11. \A i \in 1 .. Len(frames') :
         frames'[i] \in Frames /\ InProgress(frames'[i], rw'[frames'[i].r])
  BY <1>2, <1>6, <1>7, <1>8
<1>12. \A i, j \in 1 .. Len(frames') : i # j => frames'[i].r # frames'[j].r
  BY <1>2, <1>8
<1> QED
  BY <1>7, <1>10, <1>11, <1>12 DEF TInv

\* Every call of the API.
LEMMA CallTables ==
  ASSUME IInv, TInv, API
  PROVE  TInv'
<1> DEFINE x == rw[Client]
<1>1. Idle => Tables(x) /\ CodeOk(x)
  BY IdleFacts
<1> HIDE DEF x
<1>2. ASSUME NEW y, Idle => Tables(y) /\ CodeOk(y) /\ y.next = x.next, Change(y)
      PROVE  TInv'
  BY <1>2, ChangeTables DEF Change, x
<1>3. CASE dbrew_set_decoding_capacity
  BY <1>1, <1>2, <1>3, CapacityTables DEF dbrew_set_decoding_capacity, x
<1>4. CASE dbrew_set_capture_capacity
  BY <1>1, <1>2, <1>4, CapacityTables DEF dbrew_set_capture_capacity, x
<1>5. CASE dbrew_set_function
  <2>1. PICK f \in Targets : Change(setFunction(x, f))
    BY <1>5 DEF dbrew_set_function, x
  <2>2. f \in Functions
    BY RewriterAssumption
  <2> QED
    BY <1>1, <1>2, <2>1, <2>2, FunctionTables
<1>6. CASE dbrew_set_vectorsize
  <2>1. PICK s \in {16, 32} : Change([x EXCEPT !.vectorsize = Least(s, MaxVectorBytes)])
    BY <1>6 DEF dbrew_set_vectorsize, x
  <2> DEFINE n == Least(s, MaxVectorBytes)
             y == [x EXCEPT !.vectorsize = n]
             cc == cc_new
  <2>2. n \in Nat
    BY RewriterAssumption DEF Least
  <2>3. cc \in Configs /\ cc.parCount >= -1
    <3>1. cc.parCount = -1
      BY DEF cc_new
    <3> QED
      BY <3>1, NewConfigured DEF Configured
  <2> HIDE DEF n, cc
  <2>4. Idle => Tables(y) /\ CodeOk(y) /\ y.next = x.next
    BY <1>1, <2>2, <2>3, ConfigureTables
  <2>5. Change(y)
    BY <2>1 DEF n
  <2> HIDE DEF y
  <2> QED
    BY <1>2, <2>4, <2>5
<1>7. CASE dbrew_decode_print
  <2>1. PICK f \in Targets : Change(decodePrint(x, f))
    BY <1>7 DEF dbrew_decode_print, x
  <2>2. f \in Functions /\ 1 \in DOMAIN Code[f].blocks
    <3>1. f \in Functions
      BY RewriterAssumption
    <3>2. Code[f].blocks \in Seq(Nat \ {0}) /\ Code[f].blocks # << >>
      BY <3>1, CodeAssumption
    <3> QED
      BY <3>1, <3>2
  <2> QED
    BY <1>1, <1>2, <2>1, <2>2, PrintTables
<1>8. CASE Change(Dead(x))
  BY <1>1, <1>2, <1>8, DeadTables
<1>9. CASE dbrew_emulate
  <2>1. "emulate" \in Calls
    BY DEF Calls
  <2> QED
    BY <1>8, <1>9, <2>1, OpensTables DEF dbrew_emulate, x
<1>10. CASE dbrew_rewrite
  <2>1. "rewrite" \in Calls
    BY DEF Calls
  <2>2. Idle => LET y == [x EXCEPT !.addr = "func"]
                IN Tables(y) /\ CodeOk(y) /\ y.next = x.next
    BY <1>1, FieldTables
  <2>3. CASE Change([x EXCEPT !.addr = "func"])
    BY <1>2, <2>2, <2>3
  <2> QED
    BY <1>10, <2>1, <2>3, OpensTables DEF dbrew_rewrite, x
<1>11. CASE dbrew_rewrite_func
  <2>1. PICK f \in Shared :
          /\ Idle /\ frames' = frames
          /\ rw' = [rw EXCEPT ![DefaultRewriter] = setFunction(rw[DefaultRewriter], f)]
    BY <1>11 DEF dbrew_rewrite_func
  <2>2. f \in Functions
    BY RewriterAssumption
  <2>3. /\ DefaultRewriter \in 1 .. Len(rw) /\ Tables(rw[DefaultRewriter])
        /\ rw[DefaultRewriter].next \in {0} \cup (3 .. Len(rw))
    BY <2>1, IdleFacts
  <2> DEFINE y == setFunction(rw[DefaultRewriter], f)
  <2>4. Tables(y) /\ CodeOk(y) /\ y.next = rw[DefaultRewriter].next
    BY <2>2, <2>3, FunctionTables
  <2> HIDE DEF y
  <2> QED
    BY <2>1, <2>3, <2>4, PutTables DEF y
<1> QED
  BY <1>3, <1>4, <1>5, <1>6, <1>7, <1>8, <1>9, <1>10, <1>11, ConfigTables
     DEF API, Unconfigured, x

\* Every step of a rewriting.
LEMMA RewritingTables ==
  ASSUME IInv, TInv, Rewriting
  PROVE  TInv'
<1> DEFINE w == Head(frames)
           x == rw[w.r]
           t == Trace(x)[w.pos]
<1>1. frames # << >> /\ Alive
  BY DEF Rewriting
<1>2. /\ w \in Frames /\ w.r \in 1 .. Len(rw) /\ Tables(x) /\ InProgress(w, x)
      /\ x.next \in {0} \cup (3 .. Len(rw))
  BY <1>1, InnermostFacts
<1>3. ~x.dead
  BY <1>1, <1>2 DEF Alive, IInv, Listed
<1>4. \/ EmulateBlock(w, x, t) \/ CaptureBlock(w, x, t) \/ Redirect(w, x, t.kernel)
      \/ Vectorize(w, x) \/ Optimise(w, x) \/ GenerateBlock(w, x)
  BY DEF Rewriting
<1>5. CASE Advances(w)
  BY <1>1, <1>5, AdvanceKeeps
<1>6. CASE Redirect(w, x, t.kernel)
  <2>1. w.phase = "redirect"
    BY <1>6 DEF Redirect
  <2>2. CASE \E q \in Variants(w.r, t.kernel) : Captured(w, redirect(x, t.kernel, rw[q]))
    <3> HIDE DEF w, x
    <3> QED
      BY <1>2, <1>3, <1>5, <2>1, <2>2, RedirectAdvances
  <2>3. CASE /\ rw' = Append([rw EXCEPT ![w.r].next = Len(rw) + 1],
                             resetCapturing(newVariant(x, t.kernel)))
             /\ frames' = << Frame(Len(rw) + 1, "rewrite", FALSE) >> \o frames
    <3>1. /\ x.func \in Functions /\ Redirecting(w, x)
      BY <1>2, <1>3, <2>1 DEF InProgress, Capturing, Generating
    <3>2. w.pos \in 1 .. Len(Trace(x))
      BY <1>2, <3>1, TraceFacts DEF Redirecting, Frames, Tables
    <3>3. t.kernel.func \in Functions /\ t.kernel.params \in Params
      <4>1. t \in TraceBlocks
        BY <1>2, <3>1, <3>2, TraceFacts DEF Tables
      <4> QED
        BY <3>1, <4>1, BlockTypes DEF Redirecting
    <3> QED
      BY <1>1, <2>3, <3>3, VariantKeeps
  <2> QED
    BY <1>6, <2>2, <2>3 DEF Redirect
<1> HIDE DEF w, x
<1> QED
  BY <1>2, <1>3, <1>4, <1>5, <1>6, EmulateAdvances, CaptureBlockAdvances,
     VectorizeAdvances, OptimiseAdvances, GenerateAdvances

----------------------------------------------------------------------------
\* The invariant holds all the time.
LEMMA TablesInvariant == Spec => [](IInv /\ TInv)
<1>1. Init => TInv
  <2> SUFFICES ASSUME Init
               PROVE  TInv
    OBVIOUS
  <2> DEFINE a == allocRewriter
  <2>1. Tables(a) /\ CodeOk(a) /\ a.next = 0
    BY NewTables
  <2>2. rw = << a, a >> /\ frames = << >>
    BY DEF Init
  <2> HIDE DEF a
  <2>3. Len(rw) = 2 /\ Len(frames) = 0 /\ \A r \in 1 .. 2 : rw[r] = a
    BY <2>2
  <2> QED
    BY <2>1, <2>3 DEF TInv
<1>2. Init => IInv
  BY StartsListed
<1>3. IInv /\ TInv /\ [Next]_vars => IInv' /\ TInv'
  <2>1. ASSUME IInv, TInv, UNCHANGED vars
        PROVE  IInv' /\ TInv'
    BY <2>1 DEF IInv, TInv, BeingRewritten, vars
  <2> QED
    BY <2>1, CallKeeps, RewritingKeeps, CallTables, RewritingTables DEF Next
<1> QED
  BY <1>1, <1>2, <1>3, PTL DEF Spec

\* While its tables are there, no rewriter uses more of them than their capacity,
\* nor more expressions than its pool has, nor more blocks than the order of
\* generation: for any functions, capacities and calls.
\* newCapInstr, getCaptureBB, nextInstr, dbrew_decode, expr_newNode.
THEOREM TablesBounded == Spec => []TypeOK
<1>1. IInv /\ TInv => TypeOK
  <2> SUFFICES ASSUME IInv, TInv
               PROVE  TypeOK
    OBVIOUS
  <2>1. /\ DOMAIN rw = 1 .. Len(rw) /\ DOMAIN frames = 1 .. Len(frames)
    BY DEF IInv, Listed, Framed
  <2>2. ASSUME NEW r \in 1 .. Len(rw)
        PROVE  /\ rw[r].func \in Functions \cup {NoFunc}
               /\ rw[r].addr \in {"null", "func", "code"}
               /\ rw[r].next \in {0} \cup (3 .. Len(rw))
               /\ rw[r].ePool \in 0 .. PoolSize /\ rw[r].genOrderCount \in 0 .. GENORDER_MAX
               /\ rw[r].dec => /\ rw[r].decInstrCount <= rw[r].capacity["decInstr"]
                               /\ Len(rw[r].decBB) <= rw[r].capacity["decBB"]
               /\ rw[r].cap => /\ rw[r].capInstrCount <= rw[r].capacity["capInstr"]
                               /\ rw[r].capBBCount <= rw[r].capacity["capBB"]
                               /\ Len(rw[r].capBB) <= rw[r].capBBCount
    <3>1. Tables(rw[r]) /\ rw[r].next \in {0} \cup (3 .. Len(rw))
      BY DEF TInv
    <3>2. /\ rw[r].func \in Functions \cup {NoFunc} /\ rw[r].addr \in {"null", "func", "code"}
          /\ rw[r].ePool \in Nat /\ rw[r].genOrderCount \in Nat
      BY <3>1 DEF Tables, Rewriters
    <3>3. rw[r].ePool \in 0 .. PoolSize /\ rw[r].genOrderCount \in 0 .. GENORDER_MAX
      BY <3>1, <3>2, RewriterAssumption DEF Tables, PoolFits
    <3> QED
      BY <3>1, <3>2, <3>3 DEF Tables, DecFits, CapFits
  <2>3. \A i \in 1 .. Len(frames) : frames[i].r \in 1 .. Len(rw)
    BY DEF IInv, Framed
  <2> QED
    BY <2>1, <2>2, <2>3 DEF TypeOK
<1> QED
  BY <1>1, TablesInvariant, PTL

\* Captured blocks have their instructions in the used part of the pool, each
\* block its own, while blocks are captured, copied and vectorized, also when the
\* pool was too small for a copy.
\* captureBlock, vecPass, optPassCopy, optPass.
THEOREM CapturedInPlace == Spec => []BlocksWhole
<1>1. IInv /\ TInv => BlocksWhole
  <2> SUFFICES ASSUME IInv, TInv, NEW r \in DOMAIN rw, rw[r].cap,
                      NEW i \in DOMAIN rw[r].capBB
               PROVE  /\ rw[r].capBB[i].instr >= 0
                      /\ rw[r].capBB[i].instr + rw[r].capBB[i].count <= rw[r].capInstrCount
                      /\ \A j \in 1 .. i - 1 :
                           \/ rw[r].capBB[i].count = 0 \/ rw[r].capBB[j].count = 0
                           \/ rw[r].capBB[j].instr + rw[r].capBB[j].count <= rw[r].capBB[i].instr
                           \/ rw[r].capBB[i].instr + rw[r].capBB[i].count <= rw[r].capBB[j].instr
    BY DEF BlocksWhole
  <2>1. Tables(rw[r])
    BY DEF TInv, IInv, Listed
  <2>2. rw[r].capBB \in Seq(Blocked) /\ InPlace(rw[r])
    BY <2>1 DEF Tables, Rewriters, CapFits
  <2>3. i \in 1 .. Len(rw[r].capBB) /\ rw[r].capBB[i] \in Blocked
    BY <2>2
  <2>4. rw[r].capBB[i].instr >= 0
    BY <2>3 DEF Blocked
  <2> QED
    BY <2>2, <2>3, <2>4 DEF InPlace
<1> QED
  BY <1>1, TablesInvariant, PTL

\* Between calls, an address of generated code is that of all the blocks of the
\* function that is set.  Pass 3 has written no jump of a block of an earlier
\* rewriting over them, unless since setting the function blocks got into the order
\* with other parameters known: then it may have, as the order was not emptied.
\* initRewriter, getCaptureBB, generateBinaryFromCaptured, dbrew_rewrite,
\* dbrew_generated_code.
THEOREM GeneratedIsOfFunction == Spec => []CodeIsOfFunction
<1>1. IInv /\ TInv => CodeIsOfFunction
  BY DEF TInv, IInv, Listed, CodeIsOfFunction, CodeOk
<1> QED
  BY <1>1, TablesInvariant, PTL
=============================================================================
