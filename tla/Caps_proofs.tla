---------------------------- MODULE Caps_proofs -----------------------------
(* Proofs about the caps: what the gate lets through of one run keeps within  *)
(* them, counted on top of what the run read; and what a run read is still    *)
(* true when it inserts, unless it overlooked something, so that the record   *)
(* keeps within them too.                                                     *)
EXTENDS Pipeline_proofs, Sums

Buys(candidates) == {c \in candidates : c.side = "buy"}

\* What a set of holdings or candidates is worth.
Worth(S) == SumFunctionOnSet([x \in S |-> Value(x)], S)

\* At most one candidate of a symbol, each of some shares.
OneEach(candidates) ==
  /\ IsFiniteSet(candidates)
  /\ \A c \in candidates : c.symbol \in Symbols /\ c.quantity \in Nat
  /\ \A c, d \in candidates : c.symbol = d.symbol => c = d

LEMMA ExposureIsWorth ==
  ASSUME NEW holdings, NEW quoted
  PROVE  SumExposure(holdings, quoted) = Worth({h \in holdings : h.symbol \in quoted})
BY DEF SumExposure, Worth, MapThenSumSet, SumFunctionOnSet, FoldFunctionOnSet, MapThenFoldSet

LEMMA ChargeIsWorth ==
  ASSUME NEW t, NEW accepted
  PROVE  Charge(t, accepted) =
           [today |-> t.today + Cardinality(accepted),
            committed |-> t.committed + Worth(Buys(accepted))]
<1> DEFINE B == {c \in accepted : c.side = "buy"}
<1>1. MapThenSumSet(LAMBDA c : Value(c), B) = Worth(B)
  <2> HIDE DEF B
  <2> QED BY DEF Worth, MapThenSumSet, SumFunctionOnSet, FoldFunctionOnSet, MapThenFoldSet
<1> QED BY <1>1 DEF Charge, Buys

LEMMA ValueIsNatural ==
  ASSUME NEW x, x.symbol \in Symbols, x.quantity \in Nat
  PROVE  Value(x) \in Nat
<1>1. Price[x.symbol] \in Nat
  BY GateAssumption
<1>2. \A a, b \in Nat : a * b \in Nat
  OBVIOUS
<1> QED BY <1>1, <1>2 DEF Value

LEMMA WorthType ==
  ASSUME NEW S, IsFiniteSet(S), \A x \in S : Value(x) \in Nat
  PROVE  Worth(S) \in Nat
<1> DEFINE f == [x \in S |-> Value(x)]
<1>1. \A x \in S : f[x] \in Nat
  OBVIOUS
<1> HIDE DEF f
<1>2. SumFunctionOnSet(f, S) \in Nat
  BY <1>1, SumType
<1> QED BY <1>2 DEF Worth, f

LEMMA WorthAdd ==
  ASSUME NEW S, IsFiniteSet(S), \A x \in S : Value(x) \in Nat, NEW y, y \notin S, Value(y) \in Nat
  PROVE  Worth(S \cup {y}) = Worth(S) + Value(y)
<1> DEFINE T == S \cup {y}
           f == [x \in T |-> Value(x)]
           g == [x \in S |-> Value(x)]
<1>1. \A x \in T : f[x] \in Nat
  OBVIOUS
<1>2. \A x \in S : f[x] = g[x] /\ g[x] \in Nat
  OBVIOUS
<1>3. f[y] = Value(y)
  OBVIOUS
<1>4. SumFunctionOnSet(f, S) = SumFunctionOnSet(g, S)
  <2> HIDE DEF f, g
  <2> QED BY <1>2, SumEqual
<1>5. SumFunctionOnSet(f, S \cup {y}) = SumFunctionOnSet(f, S) + f[y]
  <2>1. \A x \in S \cup {y} : f[x] \in Nat
    BY <1>1
  <2> HIDE DEF f
  <2> QED BY <2>1, SumAdd
<1> QED BY <1>3, <1>4, <1>5 DEF Worth

LEMMA WorthOfNone == Worth({}) = 0
  BY SumOfNone DEF Worth
-----------------------------------------------------------------------------
(* The tally.                                                                *)

Begun(in) == [today |-> in.today, committed |-> in.committed]

Charged(candidates, in, t, n) == Charge(t, {c \in candidates : c.symbol = n /\ Passes(c, in, t)})

Tallies(candidates, in, g, m) ==
  g = [n \in 0 .. m |-> IF n = 0 THEN Begun(in) ELSE Charged(candidates, in, g[n - 1], n)]

LEMMA TallyExists ==
  ASSUME NEW candidates, NEW in
  PROVE  \E g : Tallies(candidates, in, g, N)
<1> DEFINE G == {m \in 0 .. N : \E g : Tallies(candidates, in, g, m)}
<1>1. N \in Nat
  BY GateAssumption
<1>2. 0 \in G
  <2>1. Tallies(candidates, in, [n \in 0 .. 0 |-> Begun(in)], 0)
    BY DEF Tallies
  <2> QED BY <1>1, <2>1
<1>3. ASSUME NEW m \in 0 .. N - 1, m \in G PROVE m + 1 \in G
  <2>1. PICK g : Tallies(candidates, in, g, m)
    BY <1>3
  <2> DEFINE h == [n \in 0 .. m + 1 |-> IF n = m + 1 THEN Charged(candidates, in, g[m], n) ELSE g[n]]
  <2>2. \A n \in 0 .. m : h[n] = g[n]
    BY <1>1
  <2>3. \A n \in 1 .. m + 1 : h[n - 1] = g[n - 1]
    BY <1>1, <2>2
  <2>4. \A n \in 0 .. m : g[n] = IF n = 0 THEN Begun(in) ELSE Charged(candidates, in, g[n - 1], n)
    BY <2>1 DEF Tallies
  <2>5. ASSUME NEW n \in 0 .. m + 1
        PROVE  h[n] = IF n = 0 THEN Begun(in) ELSE Charged(candidates, in, h[n - 1], n)
    <3>1. CASE n = m + 1
      <4>1. n # 0 /\ n - 1 = m /\ h[n - 1] = g[m]
        BY <1>1, <2>2, <3>1
      <4> QED BY <3>1, <4>1
    <3>2. CASE n # m + 1
      <4>1. n \in 0 .. m
        BY <1>1, <3>2
      <4>2. n # 0 => h[n - 1] = g[n - 1]
        BY <1>1, <2>3, <4>1
      <4> HIDE DEF h
      <4> QED BY <2>2, <2>4, <4>1, <4>2
    <3> QED BY <3>1, <3>2
  <2>6. Tallies(candidates, in, h, m + 1)
    <3>1. h = [n \in 0 .. m + 1 |-> h[n]]
      OBVIOUS
    <3> HIDE DEF h
    <3> QED BY <2>5, <3>1 DEF Tallies
  <2> QED BY <1>1, <2>6
<1>4. \A m \in 0 .. N : m \in G
  <2> HIDE DEF G
  <2> QED BY <1>1, <1>2, <1>3, CountingUp
<1> QED BY <1>1, <1>4

LEMMA TallyDefined ==
  ASSUME NEW candidates, NEW in
  PROVE  Tallies(candidates, in, Tally(candidates, in), N)
<1>1. Tally(candidates, in) = CHOOSE g : Tallies(candidates, in, g, N)
  BY DEF Tally, Tallies, Begun, Charged
<1> QED BY <1>1, TallyExists
-----------------------------------------------------------------------------
(* What the gate lets through.                                               *)

\* What it has let through after the first n symbols.
AcceptedBy(candidates, in, n) ==
  {c \in candidates : c.symbol <= n /\ Passes(c, in, Tally(candidates, in)[c.symbol - 1])}

\* What is used of the caps is what was used before and what was let through,
\* and whatever was let through is within them.
Kept(candidates, in, n) ==
  LET accepted == AcceptedBy(candidates, in, n)
  IN  /\ Tally(candidates, in)[n] =
           [today     |-> in.today + Cardinality(accepted),
            committed |-> in.committed + Worth(Buys(accepted))]
      /\ accepted # {} => in.today + Cardinality(accepted) <= MaxDailyTrades
      /\ Buys(accepted) # {} => in.committed + Worth(Buys(accepted)) <= MaxExposure

LEMMA AcceptedIsFinite ==
  ASSUME NEW candidates, OneEach(candidates), NEW in, NEW n
  PROVE  LET accepted == AcceptedBy(candidates, in, n)
         IN  /\ accepted \subseteq candidates
             /\ IsFiniteSet(accepted) /\ Cardinality(accepted) \in Nat
             /\ IsFiniteSet(Buys(accepted)) /\ Worth(Buys(accepted)) \in Nat
<1> DEFINE accepted == AcceptedBy(candidates, in, n)
<1>1. accepted \subseteq candidates /\ Buys(accepted) \subseteq accepted
  BY DEF AcceptedBy, Buys
<1>2. IsFiniteSet(accepted) /\ IsFiniteSet(Buys(accepted))
  BY <1>1, FS_Subset DEF OneEach
<1>3. \A c \in Buys(accepted) : Value(c) \in Nat
  BY <1>1, ValueIsNatural DEF OneEach
<1>4. Worth(Buys(accepted)) \in Nat
  BY <1>2, <1>3, WorthType
<1>5. Cardinality(accepted) \in Nat
  BY <1>2, FS_CardinalityType
<1> QED BY <1>1, <1>2, <1>4, <1>5

LEMMA KeptAtFirst ==
  ASSUME NEW candidates, OneEach(candidates), NEW in, in.today \in Nat, in.committed \in Nat
  PROVE  Kept(candidates, in, 0)
<1> DEFINE accepted == AcceptedBy(candidates, in, 0)
<1>1. N \in Nat
  BY GateAssumption
<1>2. accepted = {}
  BY <1>1 DEF AcceptedBy, OneEach, Symbols
<1>3. Buys(accepted) = {} /\ Worth(Buys(accepted)) = 0 /\ Cardinality(accepted) = 0
  BY <1>2, WorthOfNone, FS_EmptySet DEF Buys
<1>4. Tally(candidates, in)[0] = Begun(in)
  BY <1>1, TallyDefined DEF Tallies
<1> QED BY <1>2, <1>3, <1>4 DEF Kept, Begun

LEMMA TallyAt ==
  ASSUME NEW candidates, NEW in, NEW n \in 1 .. N
  PROVE  Tally(candidates, in)[n] = Charged(candidates, in, Tally(candidates, in)[n - 1], n)
<1> DEFINE g == Tally(candidates, in)
           D == 0 .. N
<1>1. n \in D /\ n # 0
  BY GateAssumption
<1>2. g = [k \in D |-> IF k = 0 THEN Begun(in) ELSE Charged(candidates, in, g[k - 1], k)]
  <2>1. Tallies(candidates, in, g, N)
    BY TallyDefined
  <2> HIDE DEF g
  <2> QED BY <2>1 DEF Tallies
<1>3. g[n] = Charged(candidates, in, g[n - 1], n)
  <2> HIDE DEF g, D
  <2> QED BY <1>1, <1>2
<1> QED BY <1>3

LEMMA KeptAtNext ==
  ASSUME NEW candidates, OneEach(candidates), NEW in, in.today \in Nat, in.committed \in Nat,
         NEW n \in 1 .. N, Kept(candidates, in, n - 1)
  PROVE  Kept(candidates, in, n)
<1> DEFINE tally == Tally(candidates, in)
           t     == tally[n - 1]
           A     == AcceptedBy(candidates, in, n - 1)
           B     == AcceptedBy(candidates, in, n)
           new   == {c \in candidates : c.symbol = n /\ Passes(c, in, t)}
<1>0. N \in Nat /\ n \in Nat /\ n - 1 \in Nat /\ n \in 0 .. N /\ n # 0
  BY GateAssumption
<1>1. tally[n] = Charge(t, new)
  <2>1. tally[n] = Charged(candidates, in, t, n)
    BY TallyAt
  <2> HIDE DEF tally, t
  <2> QED BY <2>1 DEF Charged
<1>2. \A c \in candidates : c.symbol \in Nat
  BY <1>0 DEF OneEach, Symbols
<1>3. B = A \cup new /\ A \cap new = {}
  BY <1>0, <1>2 DEF AcceptedBy
<1>4. t = [today |-> in.today + Cardinality(A), committed |-> in.committed + Worth(Buys(A))]
  BY <1>3 DEF Kept
<1>5. /\ IsFiniteSet(A) /\ Cardinality(A) \in Nat /\ A \subseteq candidates
      /\ IsFiniteSet(Buys(A)) /\ Worth(Buys(A)) \in Nat
  BY AcceptedIsFinite
<1>6. tally[n] = [today |-> t.today + Cardinality(new), committed |-> t.committed + Worth(Buys(new))]
  BY <1>1, ChargeIsWorth
<1>7. MaxDailyTrades \in Nat /\ MaxExposure \in Nat
  BY GateAssumption
<1>8. CASE new = {}
  <2>1. Buys(new) = {} /\ Worth(Buys(new)) = 0 /\ Cardinality(new) = 0
    BY <1>8, WorthOfNone, FS_EmptySet DEF Buys
  <2>2. B = A
    BY <1>3, <1>8
  <2>3. tally[n] = t
    <3> HIDE DEF t, tally, A, B, new
    <3> QED BY <1>4, <1>5, <1>6, <2>1
  <2> QED BY <2>2, <2>3 DEF Kept
<1>9. CASE new # {}
  <2>1. PICK c \in new : TRUE
    BY <1>9
  <2>2. new = {c} /\ c \in candidates /\ c \notin A
    BY <1>3, <2>1 DEF OneEach
  <2>3. Cardinality(new) = 1 /\ Cardinality(B) = Cardinality(A) + 1
    <3>1. B = A \cup {c}
      BY <1>3, <2>2
    <3>2. Cardinality(A \cup {c}) = Cardinality(A) + 1
      <4> HIDE DEF A
      <4> QED BY <1>5, <2>2, FS_AddElement
    <3>3. Cardinality({c}) = 1
      BY FS_Singleton
    <3> QED BY <2>2, <3>1, <3>2, <3>3
  <2>4. Passes(c, in, t)
    BY <2>1
  <2>5. Value(c) \in Nat
    BY <2>2, ValueIsNatural DEF OneEach
  <2>6. t.today + 1 <= MaxDailyTrades
    <3>1. t.today < MaxDailyTrades
      BY <2>4 DEF Passes
    <3>2. t.today \in Nat
      BY <1>4, <1>5
    <3> HIDE DEF t
    <3> QED BY <1>7, <3>1, <3>2
  <2>7. in.today + Cardinality(B) <= MaxDailyTrades
    <3>1. t.today = in.today + Cardinality(A)
      BY <1>4
    <3> HIDE DEF t, A, B
    <3> QED BY <1>5, <1>7, <2>3, <2>6, <3>1
  <2>8. tally[n].today = in.today + Cardinality(B)
    <3>1. tally[n].today = t.today + 1 /\ t.today = in.today + Cardinality(A)
      BY <1>4, <1>6, <2>3
    <3> HIDE DEF t, tally, A, B
    <3> QED BY <1>5, <2>3, <3>1
  <2>9. CASE c.side = "buy"
    <3>1. Buys(new) = {} \cup {c} /\ Buys(B) = Buys(A) \cup {c} /\ c \notin Buys(A)
      BY <1>3, <2>2, <2>9 DEF Buys
    <3>2. \A x \in Buys(A) : Value(x) \in Nat
      BY <1>5, ValueIsNatural DEF Buys, OneEach
    <3>3. Worth(Buys(B)) = Worth(Buys(A)) + Value(c)
      BY <1>5, <2>5, <3>1, <3>2, WorthAdd
    <3>4. Worth(Buys(new)) = Value(c)
      <4>1. IsFiniteSet({}) /\ Worth({}) = 0
        BY FS_EmptySet, WorthOfNone
      <4>2. Worth({} \cup {c}) = Worth({}) + Value(c)
        BY <2>5, <4>1, WorthAdd
      <4>3. Worth({} \cup {c}) = Value(c)
        BY <2>5, <4>1, <4>2
      <4> QED BY <3>1, <4>3
    <3>5. t.committed + Value(c) <= MaxExposure
      BY <2>4, <2>9 DEF Passes
    <3>6. t.committed = in.committed + Worth(Buys(A)) /\ tally[n].committed = t.committed + Value(c)
      BY <1>4, <1>6, <3>4
    <3>7. /\ tally[n].committed = in.committed + Worth(Buys(B))
          /\ in.committed + Worth(Buys(B)) <= MaxExposure
      <4> HIDE DEF t, tally, A, B
      <4> QED BY <1>5, <1>7, <2>5, <3>3, <3>5, <3>6
    <3>8. tally[n] = [today |-> in.today + Cardinality(B), committed |-> in.committed + Worth(Buys(B))]
      BY <1>6, <2>8, <3>7
    <3> QED BY <2>7, <3>7, <3>8 DEF Kept
  <2>10. CASE c.side # "buy"
    <3>1. Buys(new) = {} /\ Buys(B) = Buys(A)
      BY <1>3, <2>2, <2>10 DEF Buys
    <3>2. tally[n].committed = in.committed + Worth(Buys(B))
      <4>1. tally[n].committed = t.committed + Worth({})
        <5> HIDE DEF t, tally, new
        <5> QED BY <1>6, <3>1
      <4>2. t.committed = in.committed + Worth(Buys(A))
        BY <1>4
      <4>3. Worth({}) = 0
        BY WorthOfNone
      <4> HIDE DEF t, tally, A, B
      <4> QED BY <1>5, <3>1, <4>1, <4>2, <4>3
    <3>3. tally[n] = [today |-> in.today + Cardinality(B), committed |-> in.committed + Worth(Buys(B))]
      BY <1>6, <2>8, <3>2
    <3>4. Buys(B) # {} => in.committed + Worth(Buys(B)) <= MaxExposure
      BY <3>1 DEF Kept
    <3> QED BY <2>7, <3>3, <3>4 DEF Kept
  <2> QED BY <2>9, <2>10
<1> QED BY <1>8, <1>9

LEMMA KeptAtEnd ==
  ASSUME NEW candidates, OneEach(candidates), NEW in, in.today \in Nat, in.committed \in Nat
  PROVE  Kept(candidates, in, N)
<1> DEFINE G == {n \in 0 .. N : Kept(candidates, in, n)}
<1>1. N \in Nat
  BY GateAssumption
<1>2. 0 \in G
  BY <1>1, KeptAtFirst
<1>3. ASSUME NEW k \in 0 .. N - 1, k \in G PROVE k + 1 \in G
  <2>1. k + 1 \in 1 .. N /\ (k + 1) - 1 = k /\ k + 1 \in 0 .. N
    BY <1>1
  <2>2. Kept(candidates, in, k + 1)
    BY <1>3, <2>1, KeptAtNext
  <2> QED BY <2>1, <2>2
<1>4. \A n \in 0 .. N : n \in G
  <2> HIDE DEF G
  <2> QED BY <1>1, <1>2, <1>3, CountingUp
<1> QED BY <1>1, <1>4

LEMMA AcceptedInAll ==
  ASSUME NEW candidates, OneEach(candidates), NEW in
  PROVE  AcceptedBy(candidates, in, N) = ApplyRiskCaps(candidates, in)
<1>1. \A c \in candidates : c.symbol <= N
  BY GateAssumption DEF OneEach, Symbols
<1> QED BY <1>1 DEF AcceptedBy, ApplyRiskCaps

\* The gate invents nothing.
THEOREM GateChooses ==
  ASSUME NEW candidates, NEW in
  PROVE  ApplyRiskCaps(candidates, in) \subseteq candidates
BY DEF ApplyRiskCaps

\* With one candidate per symbol, and whatever was counted before: as soon as
\* the gate lets anything through, the signals of the day and those it lets
\* through are no more than the cap (risk.ts:63-66, 96-98).
THEOREM GateKeepsDailyCap ==
  ASSUME NEW candidates, OneEach(candidates), NEW in, in.today \in Nat, in.committed \in Nat,
         ApplyRiskCaps(candidates, in) # {}
  PROVE  in.today + Cardinality(ApplyRiskCaps(candidates, in)) <= MaxDailyTrades
BY KeptAtEnd, AcceptedInAll DEF Kept

\* As soon as it lets a buy through, what was committed and all the buys it
\* lets through are worth no more than the cap, the earlier ones counted
\* before the later ones are judged (risk.ts:82-93).
THEOREM GateKeepsExposureCap ==
  ASSUME NEW candidates, OneEach(candidates), NEW in, in.today \in Nat, in.committed \in Nat,
         Buys(ApplyRiskCaps(candidates, in)) # {}
  PROVE  in.committed + Worth(Buys(ApplyRiskCaps(candidates, in))) <= MaxExposure
BY KeptAtEnd, AcceptedInAll DEF Kept

\* No buy is let through that takes its symbol over the position cap, and no
\* sell of more than can be sold (risk.ts:50-80).
THEOREM GateKeepsPositionCap ==
  ASSUME NEW candidates, NEW in, NEW c \in ApplyRiskCaps(candidates, in)
  PROVE  /\ c.symbol \in Allowlist
         /\ c.side = "buy" => in.position[c.symbol] + Value(c) <= MaxPosition
         /\ c.side = "sell" => in.sellable[c.symbol] >= c.quantity
BY DEF ApplyRiskCaps, Passes
-----------------------------------------------------------------------------
(* Shares of a record.                                                       *)

Records == Seq(RowOf(Nat))

Ids(sg, side, s, X) ==
  {i \in DOMAIN sg : sg[i].symbol = s /\ sg[i].status \in X /\ sg[i].side = side}

SharesOf(sg, J) == SumFunctionOnSet([j \in J |-> sg[j].quantity], J)

Quantity(sg, side, s, X) == SharesOf(sg, Ids(sg, side, s, X))

\* What a row adds to it.
Counted(x, side, s, X) ==
  IF x.symbol = s /\ x.status \in X /\ x.side = side THEN x.quantity ELSE 0

LEMMA SharesAre ==
  ASSUME NEW J
  PROVE  Shares(J) = SharesOf(signals, J)
BY DEF Shares, SharesOf, MapThenSumSet, SumFunctionOnSet, FoldFunctionOnSet, MapThenFoldSet

LEMMA SharesNow ==
  \A side, s, X : Shares(Of(side, Rows(s, X))) = Quantity(signals, side, s, X)
<1> SUFFICES ASSUME NEW side, NEW s, NEW X
             PROVE  Shares(Of(side, Rows(s, X))) = Quantity(signals, side, s, X)
  OBVIOUS
<1> DEFINE J == Ids(signals, side, s, X)
<1>1. Of(side, Rows(s, X)) = J
  BY DEF Of, Rows, Ids
<1>2. Shares(J) = SharesOf(signals, J)
  <2> HIDE DEF J
  <2> QED BY SharesAre
<1> QED BY <1>1, <1>2 DEF Quantity

LEMMA RecordRows ==
  ASSUME NEW sg \in Records
  PROVE  /\ Len(sg) \in Nat /\ DOMAIN sg = 1 .. Len(sg)
         /\ \A j \in DOMAIN sg : sg[j] \in RowOf(Nat) /\ sg[j].quantity \in Nat
<1>1. Len(sg) \in Nat /\ DOMAIN sg = 1 .. Len(sg) /\ \A j \in DOMAIN sg : sg[j] \in RowOf(Nat)
  BY DEF Records
<1> QED BY <1>1 DEF RowOf

LEMMA SharesType ==
  ASSUME NEW sg \in Records, NEW J \in SUBSET DOMAIN sg
  PROVE  IsFiniteSet(J) /\ SharesOf(sg, J) \in Nat
<1>1. /\ Len(sg) \in Nat /\ DOMAIN sg = 1 .. Len(sg)
      /\ \A j \in DOMAIN sg : sg[j].quantity \in Nat
  BY RecordRows
<1>2. IsFiniteSet(J)
  <2>1. IsFiniteSet(1 .. Len(sg))
    BY <1>1, FS_Interval
  <2> QED BY <1>1, <2>1, FS_Subset
<1> DEFINE f == [j \in J |-> sg[j].quantity]
<1>3. \A j \in J : f[j] \in Nat
  BY <1>1
<1>4. SumFunctionOnSet(f, J) \in Nat
  <2> HIDE DEF f
  <2> QED BY <1>2, <1>3, SumType
<1> QED BY <1>2, <1>4 DEF SharesOf

LEMMA SharesSame ==
  ASSUME NEW sg \in Records, NEW sh \in Records, NEW J \in SUBSET DOMAIN sg,
         J \subseteq DOMAIN sh, \A j \in J : sh[j].quantity = sg[j].quantity
  PROVE  SharesOf(sh, J) = SharesOf(sg, J)
<1> DEFINE f == [j \in J |-> sg[j].quantity]
           g == [j \in J |-> sh[j].quantity]
<1>1. f = g
  OBVIOUS
<1> QED BY <1>1 DEF SharesOf

LEMMA SharesFewer ==
  ASSUME NEW sg \in Records, NEW J \in SUBSET DOMAIN sg, NEW K \in SUBSET J
  PROVE  SharesOf(sg, K) <= SharesOf(sg, J)
<1> DEFINE f == [j \in J |-> sg[j].quantity]
           g == [j \in K |-> sg[j].quantity]
<1>1. \A j \in DOMAIN sg : sg[j].quantity \in Nat
  BY RecordRows
<1>2. IsFiniteSet(J) /\ IsFiniteSet(K)
  BY SharesType
<1>3. \A j \in K : f[j] \in Nat /\ g[j] = f[j]
  BY <1>1
<1>4. \A j \in J : f[j] \in Nat
  BY <1>1
<1> HIDE DEF f, g
<1>5. SumFunctionOnSet(g, K) = SumFunctionOnSet(f, K)
  BY <1>2, <1>3, SumEqual
<1>6. SumFunctionOnSet(f, K) <= SumFunctionOnSet(f, J)
  BY <1>2, <1>4, SumSubset
<1> QED BY <1>5, <1>6 DEF SharesOf, f, g

LEMMA SharesAdd ==
  ASSUME NEW sg \in Records, NEW J \in SUBSET DOMAIN sg, NEW i \in DOMAIN sg, i \notin J
  PROVE  SharesOf(sg, J \cup {i}) = SharesOf(sg, J) + sg[i].quantity
<1> DEFINE K == J \cup {i}
           f == [j \in K |-> sg[j].quantity]
           g == [j \in J |-> sg[j].quantity]
<1>1. \A j \in DOMAIN sg : sg[j].quantity \in Nat
  BY RecordRows
<1>2. IsFiniteSet(J)
  BY SharesType
<1>3. (\A j \in J : f[j] \in Nat /\ g[j] = f[j]) /\ f[i] = sg[i].quantity
  BY <1>1
<1>4. \A j \in J \cup {i} : f[j] \in Nat
  BY <1>1
<1> HIDE DEF f, g
<1>5. SumFunctionOnSet(g, J) = SumFunctionOnSet(f, J)
  BY <1>2, <1>3, SumEqual
<1>6. SumFunctionOnSet(f, J \cup {i}) = SumFunctionOnSet(f, J) + f[i]
  BY <1>2, <1>4, SumAdd
<1> QED BY <1>3, <1>5, <1>6 DEF SharesOf, f, g

LEMMA QuantityType ==
  ASSUME NEW sg \in Records, NEW side, NEW s, NEW X
  PROVE  Quantity(sg, side, s, X) \in Nat
<1>1. Ids(sg, side, s, X) \in SUBSET DOMAIN sg
  BY DEF Ids
<1> QED BY <1>1, SharesType DEF Quantity

LEMMA QuantityOfNone ==
  ASSUME NEW sg, NEW side, NEW s, NEW X, Ids(sg, side, s, X) = {}
  PROVE  Quantity(sg, side, s, X) = 0
BY SumOfNone DEF Quantity, SharesOf

\* One row apart.
LEMMA QuantitySplit ==
  ASSUME NEW sg \in Records, NEW i \in DOMAIN sg, NEW side, NEW s, NEW X
  PROVE  Quantity(sg, side, s, X)
           = SharesOf(sg, Ids(sg, side, s, X) \ {i}) + Counted(sg[i], side, s, X)
<1> DEFINE J == Ids(sg, side, s, X)
           K == J \ {i}
<1>1. J \in SUBSET DOMAIN sg /\ K \in SUBSET DOMAIN sg /\ i \notin K
  BY DEF Ids
<1>2. SharesOf(sg, K) \in Nat
  BY <1>1, SharesType
<1>3. CASE i \in J
  <2>1. J = K \cup {i} /\ Counted(sg[i], side, s, X) = sg[i].quantity
    BY <1>3 DEF Ids, Counted
  <2>2. SharesOf(sg, K \cup {i}) = SharesOf(sg, K) + sg[i].quantity
    <3> HIDE DEF K
    <3> QED BY <1>1, SharesAdd
  <2> QED BY <2>1, <2>2 DEF Quantity
<1>4. CASE i \notin J
  <2>1. J = K /\ Counted(sg[i], side, s, X) = 0
    BY <1>4 DEF Ids, Counted
  <2> QED BY <1>2, <2>1 DEF Quantity
<1> QED BY <1>3, <1>4

\* One row changes.
LEMMA QuantityChanges ==
  ASSUME NEW sg \in Records, NEW sh \in Records, DOMAIN sh = DOMAIN sg, NEW i \in DOMAIN sg,
         \A j \in DOMAIN sg : j # i => sh[j] = sg[j], NEW side, NEW s, NEW X
  PROVE  Quantity(sh, side, s, X) + Counted(sg[i], side, s, X)
           = Quantity(sg, side, s, X) + Counted(sh[i], side, s, X)
<1> DEFINE K == Ids(sg, side, s, X) \ {i}
<1>1. K = Ids(sh, side, s, X) \ {i} /\ K \in SUBSET DOMAIN sg /\ K \subseteq DOMAIN sh
  BY DEF Ids
<1>2. \A j \in K : sh[j].quantity = sg[j].quantity
  BY <1>1
<1>3. SharesOf(sh, K) = SharesOf(sg, K) /\ SharesOf(sg, K) \in Nat
  <2> HIDE DEF K
  <2> QED BY <1>1, <1>2, SharesSame, SharesType
<1>4. /\ Quantity(sg, side, s, X) = SharesOf(sg, K) + Counted(sg[i], side, s, X)
      /\ Quantity(sh, side, s, X) = SharesOf(sh, K) + Counted(sh[i], side, s, X)
  BY <1>1, QuantitySplit
<1>5. Counted(sg[i], side, s, X) \in Nat /\ Counted(sh[i], side, s, X) \in Nat
  BY RecordRows DEF Counted
<1> HIDE DEF K
<1> QED BY <1>3, <1>4, <1>5

\* A row is added.
LEMMA QuantityGrows ==
  ASSUME NEW sg \in Records, NEW x \in RowOf(Nat), NEW side, NEW s, NEW X
  PROVE  Quantity(Append(sg, x), side, s, X) = Quantity(sg, side, s, X) + Counted(x, side, s, X)
<1> DEFINE sh == Append(sg, x)
           n  == Len(sg) + 1
           K  == Ids(sh, side, s, X) \ {n}
<1>1. /\ sh \in Records /\ Len(sg) \in Nat /\ DOMAIN sg = 1 .. Len(sg) /\ DOMAIN sh = 1 .. n
      /\ sh[n] = x /\ \A j \in DOMAIN sg : sh[j] = sg[j]
  BY DEF Records
<1> HIDE DEF sh
<1>2. n \in DOMAIN sh /\ n \notin DOMAIN sg /\ DOMAIN sh = DOMAIN sg \cup {n}
  BY <1>1
<1> HIDE DEF n
<1>3. K = Ids(sg, side, s, X) /\ K \in SUBSET DOMAIN sg /\ K \subseteq DOMAIN sh
  BY <1>1, <1>2 DEF Ids
<1>4. \A j \in K : sh[j].quantity = sg[j].quantity
  BY <1>1, <1>3
<1>5. SharesOf(sh, K) = SharesOf(sg, K)
  <2> HIDE DEF K
  <2> QED BY <1>1, <1>3, <1>4, SharesSame
<1>6. Quantity(sh, side, s, X) = SharesOf(sh, K) + Counted(x, side, s, X)
  BY <1>1, <1>2, QuantitySplit
<1> QED BY <1>3, <1>5, <1>6 DEF Quantity, sh

\* Two kinds of statuses.
LEMMA QuantityJoins ==
  ASSUME NEW sg \in Records, NEW side, NEW s, NEW X, NEW Y, X \cap Y = {}
  PROVE  Quantity(sg, side, s, X \cup Y) = Quantity(sg, side, s, X) + Quantity(sg, side, s, Y)
<1> DEFINE J == Ids(sg, side, s, X)
           K == Ids(sg, side, s, Y)
           L == J \cup K
           f == [j \in L |-> sg[j].quantity]
           g == [j \in J |-> sg[j].quantity]
           h == [j \in K |-> sg[j].quantity]
<1>1. /\ J \in SUBSET DOMAIN sg /\ K \in SUBSET DOMAIN sg /\ J \cap K = {}
      /\ Ids(sg, side, s, X \cup Y) = L
  BY DEF Ids
<1>2. IsFiniteSet(J) /\ IsFiniteSet(K)
  <2> HIDE DEF J, K
  <2> QED BY <1>1, SharesType
<1>3. \A j \in DOMAIN sg : sg[j].quantity \in Nat
  BY RecordRows
<1>4. /\ \A j \in L : f[j] \in Nat
      /\ \A j \in J : f[j] \in Nat /\ g[j] = f[j]
      /\ \A j \in K : f[j] \in Nat /\ h[j] = f[j]
  <2> HIDE DEF J, K
  <2> QED BY <1>1, <1>3
<1> HIDE DEF f, g, h, J, K
<1>5. SumFunctionOnSet(f, J \cup K) = SumFunctionOnSet(f, J) + SumFunctionOnSet(f, K)
  BY <1>1, <1>2, <1>4, SumUnion
<1>6. SumFunctionOnSet(g, J) = SumFunctionOnSet(f, J) /\ SumFunctionOnSet(h, K) = SumFunctionOnSet(f, K)
  BY <1>2, <1>4, SumEqual
<1> QED BY <1>1, <1>5, <1>6 DEF Quantity, SharesOf, J, K, f, g, h

\* Many rows change, and those that are counted were counted.
LEMMA QuantityShrinks ==
  ASSUME NEW sg \in Records, NEW sh \in Records, DOMAIN sh = DOMAIN sg,
         \A j \in DOMAIN sg : sh[j].quantity = sg[j].quantity, NEW side, NEW s, NEW X,
         Ids(sh, side, s, X) \subseteq Ids(sg, side, s, X)
  PROVE  Quantity(sh, side, s, X) <= Quantity(sg, side, s, X)
<1> DEFINE J == Ids(sg, side, s, X)
           K == Ids(sh, side, s, X)
<1>1. J \in SUBSET DOMAIN sg /\ K \in SUBSET J /\ K \in SUBSET DOMAIN sg /\ K \subseteq DOMAIN sh
  BY DEF Ids
<1>2. \A j \in K : sh[j].quantity = sg[j].quantity
  BY <1>1
<1>3. SharesOf(sh, K) = SharesOf(sg, K) /\ SharesOf(sg, K) <= SharesOf(sg, J)
  <2> HIDE DEF J, K
  <2> QED BY <1>1, <1>2, SharesSame, SharesFewer
<1> QED BY <1>3 DEF Quantity
-----------------------------------------------------------------------------
(* What is held, and what is held or on its way.                             *)

HeldOf(md, sg, s) ==
  IF md = "paper" THEN Quantity(sg, "buy", s, {"open"})
  ELSE LET bought == Quantity(sg, "buy", s, {"traded", "open", "closed"})
           sold   == Quantity(sg, "sell", s, {"traded", "filled"})
       IN  IF bought > sold THEN bought - sold ELSE 0

ComingOf(md) == {"pending", "approved"} \cup (IF md = "paper" THEN {"traded"} ELSE {})

DecidedOf(md) == ComingOf(md) \ {"pending"}

ReachOf(md, sg, s, X) == HeldOf(md, sg, s) + Quantity(sg, "buy", s, X)

ExposureOf(md, sg, s) == Price[s] * ReachOf(md, sg, s, ComingOf(md))

TotalOf(md, sg) == SumFunctionOnSet([s \in Symbols |-> ExposureOf(md, sg, s)], Symbols)

\* The definitions of the specification are of this record.
LEMMA ExposureNow ==
  /\ \A s : Held(s) = HeldOf(mode, signals, s)
  /\ \A s : Exposure(s) = ExposureOf(mode, signals, s)
  /\ \A s : Held(s) + Shares(Of("buy", Rows(s, Coming \ {"pending"})))
              = ReachOf(mode, signals, s, DecidedOf(mode))
  /\ TotalExposure = TotalOf(mode, signals)
<1>1. \A s : Held(s) = HeldOf(mode, signals, s)
  BY SharesNow DEF Held, HeldOf, Lots
<1>2. Coming = ComingOf(mode)
  BY DEF Coming, ComingOf
<1>3. \A s : Exposure(s) = ExposureOf(mode, signals, s)
  BY <1>1, <1>2, SharesNow DEF Exposure, ExposureOf, ReachOf
<1>4. \A s : Held(s) + Shares(Of("buy", Rows(s, Coming \ {"pending"})))
               = ReachOf(mode, signals, s, DecidedOf(mode))
  BY <1>1, <1>2, SharesNow DEF ReachOf, DecidedOf
<1>5. TotalExposure = SumFunctionOnSet([s \in Symbols |-> Exposure(s)], Symbols)
  BY DEF TotalExposure, MapThenSumSet, SumFunctionOnSet, FoldFunctionOnSet, MapThenFoldSet
<1>6. [s \in Symbols |-> Exposure(s)] = [s \in Symbols |-> ExposureOf(mode, signals, s)]
  BY <1>3
<1> QED BY <1>1, <1>3, <1>4, <1>5, <1>6 DEF TotalOf

LEMMA ComingNow ==
  ASSUME NEW s
  PROVE  Held(s) + Shares(Of("buy", Rows(s, Coming))) = ReachOf(mode, signals, s, ComingOf(mode))
<1>1. Coming = ComingOf(mode)
  BY DEF Coming, ComingOf
<1> QED BY <1>1, SharesNow, ExposureNow DEF ReachOf

LEMMA ExposureThen ==
  /\ \A s : Held(s)' = HeldOf(mode', signals', s)
  /\ \A s : Exposure(s)' = ExposureOf(mode', signals', s)
  /\ \A s : (Held(s) + Shares(Of("buy", Rows(s, Coming \ {"pending"}))))'
              = ReachOf(mode', signals', s, DecidedOf(mode'))
  /\ TotalExposure' = TotalOf(mode', signals')
<1>1. (/\ \A s : Held(s) = HeldOf(mode, signals, s)
       /\ \A s : Exposure(s) = ExposureOf(mode, signals, s)
       /\ \A s : Held(s) + Shares(Of("buy", Rows(s, Coming \ {"pending"})))
                   = ReachOf(mode, signals, s, DecidedOf(mode))
       /\ TotalExposure = TotalOf(mode, signals))'
  BY ExposureNow, PTL
<1> QED BY <1>1

LEMMA ReachType ==
  ASSUME NEW md, NEW sg \in Records
  PROVE  /\ \A s : HeldOf(md, sg, s) \in Nat
         /\ \A s, X : ReachOf(md, sg, s, X) \in Nat
         /\ \A s \in Symbols : ExposureOf(md, sg, s) \in Nat
         /\ TotalOf(md, sg) \in Nat
<1>1. \A side, s, X : Quantity(sg, side, s, X) \in Nat
  BY QuantityType
<1>2. \A s : HeldOf(md, sg, s) \in Nat
  BY <1>1 DEF HeldOf
<1>3. \A s, X : ReachOf(md, sg, s, X) \in Nat
  BY <1>1, <1>2 DEF ReachOf
<1>4. \A s \in Symbols : ExposureOf(md, sg, s) \in Nat
  <2>1. \A s \in Symbols : Price[s] \in Nat
    BY GateAssumption
  <2>2. \A a, b \in Nat : a * b \in Nat
    OBVIOUS
  <2> QED BY <1>3, <2>1, <2>2 DEF ExposureOf
<1>5. TotalOf(md, sg) \in Nat
  <2> DEFINE f == [s \in Symbols |-> ExposureOf(md, sg, s)]
             S == Symbols
  <2>1. \A s \in S : f[s] \in Nat
    BY <1>4
  <2>2. IsFiniteSet(S)
    BY GateAssumption, FS_Interval DEF Symbols
  <2>3. SumFunctionOnSet(f, S) \in Nat
    <3> HIDE DEF f, S
    <3> QED BY <2>1, <2>2, SumType
  <2> QED BY <2>3 DEF TotalOf
<1> QED BY <1>2, <1>3, <1>4, <1>5

LEMMA TimesGrows == \A p, a, b \in Nat : a <= b => p * a <= p * b
<1> SUFFICES ASSUME NEW p \in Nat, NEW a \in Nat, NEW b \in Nat, a <= b
             PROVE  p * a <= p * b
  OBVIOUS
<1>1. PICK d \in Nat : b = a + d
  <2>1. b - a \in Nat /\ b = a + (b - a)
    OBVIOUS
  <2> QED BY <2>1
<1>2. p * b = p * a + p * d /\ p * d \in Nat /\ p * a \in Nat
  BY <1>1
<1> QED BY <1>2

LEMMA ReachesExposure ==
  ASSUME NEW md, NEW sg \in Records, NEW sh \in Records,
         \A s \in Symbols :
           ReachOf(md, sh, s, ComingOf(md)) <= ReachOf(md, sg, s, ComingOf(md))
  PROVE  /\ \A s \in Symbols : ExposureOf(md, sh, s) <= ExposureOf(md, sg, s)
         /\ TotalOf(md, sh) <= TotalOf(md, sg)
<1>1. ASSUME NEW s \in Symbols PROVE ExposureOf(md, sh, s) <= ExposureOf(md, sg, s)
  <2>1. /\ Price[s] \in Nat
        /\ ReachOf(md, sh, s, ComingOf(md)) \in Nat /\ ReachOf(md, sg, s, ComingOf(md)) \in Nat
    BY GateAssumption, ReachType
  <2> QED BY <2>1, TimesGrows DEF ExposureOf
<1>2. TotalOf(md, sh) <= TotalOf(md, sg)
  <2> DEFINE S == Symbols
             f == [s \in S |-> ExposureOf(md, sh, s)]
             g == [s \in S |-> ExposureOf(md, sg, s)]
  <2>1. \A s \in S : f[s] \in Nat /\ g[s] \in Nat /\ f[s] <= g[s]
    BY <1>1, ReachType
  <2>2. IsFiniteSet(S)
    BY GateAssumption, FS_Interval DEF Symbols
  <2>3. SumFunctionOnSet(f, S) <= SumFunctionOnSet(g, S)
    <3> HIDE DEF f, g, S
    <3> QED BY <2>1, <2>2, SumBound
  <2> QED BY <2>3 DEF TotalOf
<1> QED BY <1>1, <1>2

\* A signal that is dropped, traded or settled reaches no further, and one that
\* is approved only as far as it did when proposed.
Settles(x, y, X) ==
  \/ x.status \in {"pending", "approved"} /\ y.status = "dropped"
  \/ x.status = "approved" /\ y.status = "traded"
  \/ x.status = "traded" /\ x.side = "buy" /\ y.status = "open"
  \/ x.status = "pending" /\ y.status = "approved" /\ (x.side # "buy" \/ "pending" \in X)

LEMMA ReachSettles ==
  ASSUME NEW md, NEW sg \in Records, NEW sh \in Records, DOMAIN sh = DOMAIN sg,
         NEW i \in DOMAIN sg, \A j \in DOMAIN sg : j # i => sh[j] = sg[j],
         sh[i].symbol = sg[i].symbol, sh[i].side = sg[i].side, sh[i].quantity = sg[i].quantity,
         NEW X \in {ComingOf(md), DecidedOf(md)}, Settles(sg[i], sh[i], X), NEW s
  PROVE  ReachOf(md, sh, s, X) <= ReachOf(md, sg, s, X)
<1> DEFINE Q(side, Y) == Quantity(sg, side, s, Y)
           R(side, Y) == Quantity(sh, side, s, Y)
           x == sg[i]
           y == sh[i]
<1>1. \A side, Y : R(side, Y) + Counted(x, side, s, Y) = Q(side, Y) + Counted(y, side, s, Y)
  BY QuantityChanges
<1>2. \A side, Y : R(side, Y) \in Nat /\ Q(side, Y) \in Nat
  BY QuantityType
<1>3. x.quantity \in Nat /\ x.side \in {"buy", "sell"} /\ x.status \in Statuses
  BY RecordRows DEF RowOf
<1>4. y.symbol = x.symbol /\ y.side = x.side /\ y.quantity = x.quantity
  OBVIOUS
<1>5. Settles(x, y, X)
  OBVIOUS
<1> HIDE DEF Q, R, x, y
<1>6. CASE x.symbol # s
  <2>1. \A side, Y : Counted(x, side, s, Y) = 0 /\ Counted(y, side, s, Y) = 0
    BY <1>4, <1>6 DEF Counted
  <2>2. \A side, Y : R(side, Y) = Q(side, Y)
    BY <1>1, <1>2, <2>1
  <2> QED BY <1>2, <2>2, ReachType DEF ReachOf, HeldOf, Q, R
<1>7. CASE x.symbol = s
  <2> DEFINE q == x.quantity
             In(row, side, Y) == IF row.status \in Y /\ row.side = side THEN q ELSE 0
  <2>1. \A side, Y : R(side, Y) + In(x, side, Y) = Q(side, Y) + In(y, side, Y)
    BY <1>1, <1>4, <1>7 DEF Counted
  <2>2. CASE x.side # "buy"
    <3>1. /\ R("buy", X) = Q("buy", X) /\ R("buy", {"open"}) = Q("buy", {"open"})
          /\ R("buy", {"traded", "open", "closed"}) = Q("buy", {"traded", "open", "closed"})
      BY <1>2, <1>4, <2>1, <2>2
    <3>2. R("sell", {"traded", "filled"}) >= Q("sell", {"traded", "filled"})
      BY <1>2, <1>3, <1>4, <1>5, <2>1, <2>2 DEF Settles
    <3>3. HeldOf(md, sh, s) <= HeldOf(md, sg, s)
      BY <1>2, <3>1, <3>2 DEF HeldOf, Q, R
    <3>4. HeldOf(md, sh, s) \in Nat /\ HeldOf(md, sg, s) \in Nat
      BY ReachType
    <3>5. HeldOf(md, sh, s) + R("buy", X) <= HeldOf(md, sg, s) + Q("buy", X)
      BY <1>2, <3>1, <3>3, <3>4
    <3> QED BY <3>5 DEF ReachOf, Q, R
  <2>3. CASE x.side = "buy"
    <3>1. R("sell", {"traded", "filled"}) = Q("sell", {"traded", "filled"})
      BY <1>2, <1>4, <2>1, <2>3
    <3> DEFINE B == {"traded", "open", "closed"}
               O == {"open"}
    <3>2. /\ R("buy", B) + In(x, "buy", B) = Q("buy", B) + In(y, "buy", B)
          /\ R("buy", O) + In(x, "buy", O) = Q("buy", O) + In(y, "buy", O)
          /\ R("buy", X) + In(x, "buy", X) = Q("buy", X) + In(y, "buy", X)
      BY <2>1
    <3>3. CASE md = "paper"
      <4>1. R("buy", O) + R("buy", X) <= Q("buy", O) + Q("buy", X)
        <5>1. In(y, "buy", O) + In(y, "buy", X) <= In(x, "buy", O) + In(x, "buy", X)
          BY <1>3, <1>4, <1>5, <2>3, <3>3 DEF Settles, ComingOf, DecidedOf
        <5>2. /\ In(x, "buy", O) \in Nat /\ In(y, "buy", O) \in Nat
              /\ In(x, "buy", X) \in Nat /\ In(y, "buy", X) \in Nat
          BY <1>3
        <5> HIDE DEF In, O, B
        <5> QED BY <1>2, <3>2, <5>1, <5>2
      <4> QED BY <3>3, <4>1 DEF ReachOf, HeldOf, Q, R
    <3>4. CASE md # "paper"
      <4>1. /\ R("buy", B) + R("buy", X) <= Q("buy", B) + Q("buy", X)
            /\ R("buy", X) <= Q("buy", X)
        <5>1. /\ In(y, "buy", B) + In(y, "buy", X) <= In(x, "buy", B) + In(x, "buy", X)
              /\ In(y, "buy", X) <= In(x, "buy", X)
          BY <1>3, <1>4, <1>5, <2>3, <3>4 DEF Settles, ComingOf, DecidedOf
        <5>2. /\ In(x, "buy", B) \in Nat /\ In(y, "buy", B) \in Nat
              /\ In(x, "buy", X) \in Nat /\ In(y, "buy", X) \in Nat
          BY <1>3
        <5> HIDE DEF In, O, B
        <5> QED BY <1>2, <3>2, <5>1, <5>2
      <4> QED BY <1>2, <3>1, <3>4, <4>1 DEF ReachOf, HeldOf, Q, R
    <3> QED BY <3>3, <3>4
  <2> QED BY <2>2, <2>3
<1> QED BY <1>6, <1>7

\* Sales settle and lots are marked: what was bought and sold stays so.
LEMMA ReachCloses ==
  ASSUME NEW md, NEW sg \in Records, NEW sh \in Records, DOMAIN sh = DOMAIN sg,
         \A j \in DOMAIN sg :
           /\ sh[j].symbol = sg[j].symbol /\ sh[j].side = sg[j].side
           /\ sh[j].quantity = sg[j].quantity
           /\ \/ sh[j].status = sg[j].status
              \/ sg[j].side = "buy" /\ sg[j].status = "open" /\ sh[j].status = "closed"
              \/ sg[j].side = "sell" /\ sg[j].status = "traded" /\ sh[j].status = "filled",
         NEW X \in {ComingOf(md), DecidedOf(md)}, NEW s
  PROVE  ReachOf(md, sh, s, X) <= ReachOf(md, sg, s, X)
<1> DEFINE B == {"traded", "open", "closed"}
           F == {"traded", "filled"}
           Q(side, Y) == Quantity(sg, side, s, Y)
           R(side, Y) == Quantity(sh, side, s, Y)
<1>1. /\ Ids(sh, "buy", s, X) \subseteq Ids(sg, "buy", s, X)
      /\ Ids(sh, "buy", s, {"open"}) \subseteq Ids(sg, "buy", s, {"open"})
  BY DEF Ids, ComingOf, DecidedOf
<1>2. /\ Ids(sh, "buy", s, B) = Ids(sg, "buy", s, B)
      /\ Ids(sh, "sell", s, F) = Ids(sg, "sell", s, F)
  BY DEF Ids
<1>3. /\ \A j \in DOMAIN sg : sh[j].quantity = sg[j].quantity
      /\ \A j \in DOMAIN sh : sg[j].quantity = sh[j].quantity
  OBVIOUS
<1>4. R("buy", X) <= Q("buy", X) /\ R("buy", {"open"}) <= Q("buy", {"open"})
  BY <1>1, <1>3, QuantityShrinks
<1>5. /\ R("buy", B) <= Q("buy", B) /\ Q("buy", B) <= R("buy", B)
      /\ R("sell", F) <= Q("sell", F) /\ Q("sell", F) <= R("sell", F)
  <2> HIDE DEF B, F
  <2> QED BY <1>2, <1>3, QuantityShrinks
<1>6. \A side, Y : R(side, Y) \in Nat /\ Q(side, Y) \in Nat
  BY QuantityType
<1> HIDE DEF Q, R
<1>7. HeldOf(md, sh, s) <= HeldOf(md, sg, s)
  <2>1. R("buy", B) = Q("buy", B) /\ R("sell", F) = Q("sell", F)
    <3> HIDE DEF B, F
    <3> QED BY <1>5, <1>6
  <2> QED BY <1>4, <1>6, <2>1 DEF HeldOf, Q, R
<1>8. HeldOf(md, sh, s) \in Nat /\ HeldOf(md, sg, s) \in Nat
  BY ReachType
<1>9. HeldOf(md, sh, s) + R("buy", X) <= HeldOf(md, sg, s) + Q("buy", X)
  BY <1>4, <1>6, <1>7, <1>8
<1> QED BY <1>9 DEF ReachOf, Q, R

\* A signal is inserted.
LEMMA ReachInserts ==
  ASSUME NEW md, NEW sg \in Records, NEW x \in RowOf(Nat), x.status = "pending",
         NEW X \in {ComingOf(md), DecidedOf(md)}, NEW s
  PROVE  ReachOf(md, Append(sg, x), s, X)
           = ReachOf(md, sg, s, X) + Counted(x, "buy", s, X)
<1> DEFINE sh == Append(sg, x)
           Q(side, Y) == Quantity(sg, side, s, Y)
           R(side, Y) == Quantity(sh, side, s, Y)
<1>1. \A side, Y : R(side, Y) = Q(side, Y) + Counted(x, side, s, Y)
  BY QuantityGrows
<1>2. \A side, Y : Q(side, Y) \in Nat
  BY QuantityType
<1>3. \A side, Y : "pending" \notin Y => Counted(x, side, s, Y) = 0
  BY DEF Counted
<1>4. \A side, Y : "pending" \notin Y => R(side, Y) = Q(side, Y)
  BY <1>1, <1>2, <1>3
<1>5. HeldOf(md, sh, s) = HeldOf(md, sg, s)
  <2> HIDE DEF sh
  <2> QED BY <1>4 DEF HeldOf
<1>6. HeldOf(md, sg, s) \in Nat /\ Counted(x, "buy", s, X) \in Nat
  BY ReachType DEF Counted, RowOf
<1>7. HeldOf(md, sh, s) + R("buy", X) = (HeldOf(md, sg, s) + Q("buy", X)) + Counted(x, "buy", s, X)
  <2>1. R("buy", X) = Q("buy", X) + Counted(x, "buy", s, X) /\ Q("buy", X) \in Nat
    BY <1>1, <1>2
  <2> HIDE DEF R, Q, sh
  <2> QED BY <1>5, <1>6, <2>1
<1> QED BY <1>7 DEF ReachOf

\* What a signal of some shares commits.
Commits(x) == IF x.side = "buy" THEN Value(x) ELSE 0

LEMMA ExposureInserts ==
  ASSUME NEW md, NEW sg \in Records, NEW x \in RowOf(Nat), x.status = "pending"
  PROVE  /\ \A s \in Symbols :
              ExposureOf(md, Append(sg, x), s)
                = ExposureOf(md, sg, s) + IF s = x.symbol THEN Commits(x) ELSE 0
         /\ TotalOf(md, Append(sg, x)) = TotalOf(md, sg) + Commits(x)
<1> DEFINE sh == Append(sg, x)
           z == x.symbol
<1>1. z \in Symbols /\ x.quantity \in Nat /\ sh \in Records
  BY DEF RowOf, Records
<1>2. Value(x) \in Nat /\ Commits(x) \in Nat
  BY <1>1, ValueIsNatural DEF Commits
<1>3. ASSUME NEW s \in Symbols
      PROVE  ExposureOf(md, sh, s) = ExposureOf(md, sg, s) + IF s = z THEN Commits(x) ELSE 0
  <2> DEFINE a == ReachOf(md, sg, s, ComingOf(md))
             c == Counted(x, "buy", s, ComingOf(md))
  <2>1. ReachOf(md, sh, s, ComingOf(md)) = a + c
    BY ReachInserts
  <2>2. a \in Nat /\ c \in Nat /\ Price[s] \in Nat /\ ExposureOf(md, sg, s) \in Nat
    BY <1>1, ReachType, GateAssumption DEF Counted
  <2>3. Price[s] * c = IF s = z THEN Commits(x) ELSE 0
    <3>1. CASE s = z /\ x.side = "buy"
      BY <3>1 DEF Counted, ComingOf, Commits, Value
    <3>2. CASE ~ (s = z /\ x.side = "buy")
      <4>1. c = 0 /\ Price[s] * 0 = 0
        BY <2>2, <3>2 DEF Counted
      <4> QED BY <3>2, <4>1 DEF Commits
    <3> QED BY <3>1, <3>2
  <2>4. Price[s] * (a + c) = Price[s] * a + Price[s] * c
    <3> HIDE DEF a, c
    <3> QED BY <2>2
  <2> HIDE DEF sh
  <2> QED BY <2>1, <2>3, <2>4 DEF ExposureOf
<1>4. TotalOf(md, sh) = TotalOf(md, sg) + Commits(x)
  <2> DEFINE S == Symbols
             f == [s \in S |-> ExposureOf(md, sg, s)]
             g == [s \in S |-> ExposureOf(md, sh, s)]
             h == [s \in S |-> IF s = z THEN Commits(x) ELSE 0]
  <2>1. IsFiniteSet(S)
    BY GateAssumption, FS_Interval DEF Symbols
  <2>2. \A s \in S : f[s] \in Nat /\ h[s] \in Nat /\ g[s] = f[s] + h[s]
    BY <1>2, <1>3, ReachType
  <2>3. SumFunctionOnSet(g, S) = SumFunctionOnSet(f, S) + SumFunctionOnSet(h, S)
    <3> HIDE DEF f, g, h, S
    <3> QED BY <2>1, <2>2, SumPlus
  <2>4. SumFunctionOnSet(h, S) = Commits(x)
    <3>1. (\A s \in S : h[s] \in Nat) /\ (\A s \in S \ {z} : h[s] = 0) /\ h[z] = Commits(x)
      BY <1>1, <1>2
    <3>2. {z} \in SUBSET S
      BY <1>1
    <3> HIDE DEF h, S, z
    <3>3. SumFunctionOnSet(h, S) = SumFunctionOnSet(h, {z})
      BY <2>1, <3>1, <3>2, SumOfPart
    <3>4. SumFunctionOnSet(h, {z}) = h[z]
      BY <1>2, <3>1, SumOfOne
    <3> QED BY <3>1, <3>3, <3>4
  <2> QED BY <2>3, <2>4 DEF TotalOf
<1> QED BY <1>3, <1>4
-----------------------------------------------------------------------------
(* Types.  The sums are natural numbers, so everything keeps its shape.      *)

RowType ==
  [symbol : Symbols, side : {"buy", "sell"}, rule : AllRules, bar : Nat,
   quantity : Nat \ {0}, status : Statuses, created : Nat, stamp : Nat]

LocalType ==
  [pc : Steps, day : Nat, bar : Nat, rule : [Symbols -> Rules \cup {"none", "unseen"}],
   listed : SUBSET Symbols, held : [Symbols -> Nat], sellable : [Symbols -> Nat],
   pending : [Symbols -> Nat],
   candidates : SUBSET Candidates, due : SUBSET Candidates, committed : Nat]

Oversights == {"inflight", "decided", "unquoted", "pending", "overlap"}

LEMMA TypeIs ==
  TypeOK <=> /\ mode \in {"paper", "live"} /\ day \in Nat
             /\ fires \in [Symbols -> Rules \cup {"none", "unseen"}]
             /\ moved \subseteq Symbols \X Nat
             /\ signals \in Seq(RowType)
             /\ run \in [Runs -> LocalType]
             /\ overlooked \subseteq Oversights
BY DEF TypeOK, RowType, LocalType, Oversights, AllRules, Statuses, Steps

LEMMA TypeIsThen ==
  (TypeOK <=> /\ mode \in {"paper", "live"} /\ day \in Nat
              /\ fires \in [Symbols -> Rules \cup {"none", "unseen"}]
              /\ moved \subseteq Symbols \X Nat
              /\ signals \in Seq(RowType)
              /\ run \in [Runs -> LocalType]
              /\ overlooked \subseteq Oversights)'
BY TypeIs, PTL

LEMMA TypedRows ==
  ASSUME NEW sg \in Seq(RowType)
  PROVE  /\ sg \in Records
         /\ Len(sg) \in Nat /\ DOMAIN sg = 1 .. Len(sg)
         /\ \A i \in DOMAIN sg : sg[i] \in RowType
<1>1. RowType \subseteq RowOf(Nat)
  BY DEF RowType, RowOf
<1>2. sg \in Seq(RowOf(Nat))
  <2> HIDE DEF RowType
  <2> QED BY <1>1, Wider
<1> QED BY <1>2 DEF Records

\* Only a run moves.
LEMMA TypeRunMoves ==
  ASSUME TypeOK, NEW r \in Runs, NEW l \in LocalType, Goto(r, l),
         UNCHANGED <<mode, day, moved, signals>>,
         fires' \in [Symbols -> Rules \cup {"none", "unseen"}],
         overlooked' \subseteq overlooked \cup Oversights
  PROVE  TypeOK'
<1>1. run' \in [Runs -> LocalType]
  BY TypeIs DEF Goto
<1> QED BY <1>1, TypeIs, TypeIsThen

LEMMA HeldIsNatural ==
  ASSUME TypeOK, NEW s
  PROVE  Held(s) \in Nat /\ Sellable(s) \in Nat
<1>1. signals \in Records
  BY TypeIs, TypedRows
<1>2. Held(s) \in Nat
  BY <1>1, ExposureNow, ReachType
<1>3. Shares(Of("sell", Rows(s, {"approved"}))) \in Nat
  BY <1>1, SharesNow, QuantityType
<1> QED BY <1>2, <1>3 DEF Sellable

\* A run evaluates to at most one candidate of a symbol.
LEMMA EvaluateType ==
  ASSUME TypeOK, Inductive, NEW r \in Runs, run[r].pc = "positioned", NEW s \in Symbols
  PROVE  /\ \A c \in Evaluate(r, s) : c \in Candidates /\ c.symbol = s
         /\ \A c, d \in Evaluate(r, s) : c = d
<1>1. /\ run[r] \in LocalType /\ run[r].bar \in Nat /\ run[r].rule[s] \in Rules \cup {"none"}
      /\ run[r].sellable[s] \in Nat /\ Size[s] \in Nat
  BY TypeIs, PipelineAssumption DEF LocalType, Inductive, RunIsSound
<1>2. \A rule \in AllRules, q \in Nat :
        Candidate(r, s, rule, q) \in Candidates /\ Candidate(r, s, rule, q).symbol = s
  BY <1>1 DEF Candidate, Candidates, Side, AllRules
<1>3. CASE EvaluateTechnical(r, s) # {}
  <2> DEFINE q == IF run[r].rule[s] \in EntryRules THEN Size[s] ELSE run[r].sellable[s]
  <2>1. /\ Evaluate(r, s) = {Candidate(r, s, run[r].rule[s], q)}
        /\ run[r].rule[s] # "none"
    BY <1>3 DEF Evaluate, EvaluateTechnical
  <2>2. run[r].rule[s] \in AllRules /\ q \in Nat
    BY <1>1, <2>1 DEF AllRules
  <2> HIDE DEF q
  <2> QED BY <1>2, <2>1, <2>2
<1>4. CASE EvaluateTechnical(r, s) = {}
  <2>1. Evaluate(r, s) \subseteq {Candidate(r, s, "max_holding_period", run[r].sellable[s])}
    BY <1>4 DEF Evaluate, EvaluateExit
  <2> QED BY <1>1, <1>2, <2>1 DEF AllRules
<1> QED BY <1>3, <1>4

\* Candidates of different symbols are no more than the symbols.
LEMMA OnePerSymbolIsFinite ==
  ASSUME NEW C, \A c \in C : c.symbol \in Symbols,
         \A c, d \in C : c.symbol = d.symbol => c = d
  PROVE  IsFiniteSet(C)
<1> DEFINE f == [c \in C |-> c.symbol]
           S == Symbols
<1>1. f \in [C -> S] /\ \A c, d \in C : f[c] = f[d] => c = d
  OBVIOUS
<1>2. f \in Injection(C, S)
  <2> HIDE DEF f, S
  <2> QED BY <1>1 DEF Injection, IsInjective
<1>3. IsFiniteSet(S)
  BY GateAssumption, FS_Interval DEF Symbols
<1> HIDE DEF f, S
<1> QED BY <1>2, <1>3, FS_Injection

\* What a run counts: everything pending, and the positions it listed.
LEMMA PendingIs ==
  ASSUME NEW r, NEW quoted
  PROVE  PendingExposure(r, quoted)
           = SumFunctionOnSet([s \in quoted |-> Price[s] * run[r].pending[s]], quoted)
BY DEF PendingExposure, MapThenSumSet, SumFunctionOnSet, FoldFunctionOnSet, MapThenFoldSet

LEMMA OpenIs ==
  ASSUME TypeOK, NEW r \in Runs, NEW quoted \in SUBSET Symbols
  PROVE  LET L == run[r].listed \cap quoted
         IN  OpenExposure(r, quoted)
               = SumFunctionOnSet([s \in L |-> Price[s] * run[r].held[s]], L)
<1> DEFINE listed == run[r].listed
           held   == run[r].held
           L      == listed \cap quoted
           e      == [s \in listed |-> [symbol |-> s, quantity |-> held[s]]]
           H      == {[symbol |-> s, quantity |-> held[s]] : s \in listed}
           T      == {h \in H : h.symbol \in quoted}
           f      == [x \in T |-> Value(x)]
           g      == [s \in L |-> f[e[s]]]
<1>1. listed \subseteq Symbols /\ \A s \in Symbols : held[s] \in Nat /\ Price[s] \in Nat
  BY TypeIs, GateAssumption DEF LocalType
<1>2. OpenExposure(r, quoted) = SumFunctionOnSet(f, T)
  BY ExposureIsWorth DEF OpenExposure, Worth
<1>3. T = {e[s] : s \in L}
  <2>1. \A s \in listed : e[s] = [symbol |-> s, quantity |-> held[s]] /\ e[s].symbol = s
    OBVIOUS
  <2>2. ASSUME NEW h \in T PROVE h \in {e[s] : s \in L}
    <3>1. PICK s \in listed : h = [symbol |-> s, quantity |-> held[s]]
      OBVIOUS
    <3>2. h = e[s] /\ h.symbol = s /\ h.symbol \in quoted
      BY <3>1
    <3> HIDE DEF e, T, H, listed, held
    <3> QED BY <3>2
  <2>3. ASSUME NEW s \in L PROVE e[s] \in T
    <3>1. e[s] \in H
      BY <2>1
    <3>2. e[s].symbol \in quoted
      BY <2>1
    <3> HIDE DEF e, H
    <3> QED BY <3>1, <3>2
  <2> HIDE DEF e, T, L
  <2> QED BY <2>2, <2>3
<1>4. \A s \in L : f[e[s]] = Price[s] * held[s]
  <2>1. \A s \in L : e[s] \in T /\ e[s].symbol = s /\ e[s].quantity = held[s]
    OBVIOUS
  <2> HIDE DEF e, T
  <2> QED BY <2>1 DEF Value
<1>5. \A s \in L : f[e[s]] \in Nat
  <2>1. \A a, b \in Nat : a * b \in Nat
    OBVIOUS
  <2> HIDE DEF f, e
  <2> QED BY <1>1, <1>4, <2>1
<1>6. \A s, t \in L : e[s] = e[t] => s = t
  OBVIOUS
<1>7. IsFiniteSet(L)
  <2>1. IsFiniteSet(Symbols) /\ L \in SUBSET Symbols
    BY <1>1, GateAssumption, FS_Interval DEF Symbols
  <2> HIDE DEF L
  <2> QED BY <2>1, FS_Subset
<1>8. SumFunctionOnSet(f, {e[s] : s \in L}) = SumFunctionOnSet(g, L)
  <2> HIDE DEF f, e, L
  <2> QED BY <1>5, <1>6, <1>7, SumImage
<1>9. g = [s \in L |-> Price[s] * run[r].held[s]]
  <2> HIDE DEF f, e, L
  <2> QED BY <1>4 DEF held
<1> HIDE DEF f, g, T
<1> QED BY <1>2, <1>3, <1>8, <1>9

LEMMA SharesOfRows ==
  ASSUME TypeOK, NEW s
  PROVE  /\ Shares(Pending(s)) \in Nat
         /\ Quantity(signals, "buy", s, {"pending"}) <= Shares(Pending(s))
<1> DEFINE J == Pending(s)
           K == Ids(signals, "buy", s, {"pending"})
<1>1. signals \in Records
  BY TypeIs, TypedRows
<1>2. J \in SUBSET DOMAIN signals /\ K \in SUBSET J
  BY DEF Pending, Rows, Ids
<1>3. Shares(J) = SharesOf(signals, J)
  <2> HIDE DEF J
  <2> QED BY SharesAre
<1>4. SharesOf(signals, J) \in Nat /\ SharesOf(signals, K) <= SharesOf(signals, J)
  <2> HIDE DEF J, K
  <2> QED BY <1>1, <1>2, SharesType, SharesFewer
<1> HIDE DEF J, K
<1> QED BY <1>3, <1>4 DEF J, K, Quantity

LEMMA CommittedIs ==
  ASSUME TypeOK, NEW r \in Runs, NEW quoted \in SUBSET Symbols
  PROVE  LET listed == run[r].listed
             f == [s \in Symbols |-> IF s \in quoted THEN Price[s] * run[r].pending[s] ELSE 0]
             g == [s \in Symbols |->
                     IF s \in listed \cap quoted THEN Price[s] * run[r].held[s] ELSE 0]
         IN  /\ PendingExposure(r, quoted) = SumFunctionOnSet(f, Symbols)
             /\ OpenExposure(r, quoted) = SumFunctionOnSet(g, Symbols)
             /\ \A s \in Symbols : f[s] \in Nat /\ g[s] \in Nat
             /\ PendingExposure(r, quoted) + OpenExposure(r, quoted) \in Nat
<1> DEFINE S == Symbols
           L == run[r].listed \cap quoted
           f == [s \in S |-> IF s \in quoted THEN Price[s] * run[r].pending[s] ELSE 0]
           g == [s \in S |-> IF s \in L THEN Price[s] * run[r].held[s] ELSE 0]
           f0 == [s \in quoted |-> Price[s] * run[r].pending[s]]
           g0 == [s \in L |-> Price[s] * run[r].held[s]]
<1>1. IsFiniteSet(S) /\ quoted \in SUBSET S /\ L \in SUBSET S
  <2>1. IsFiniteSet(S)
    BY GateAssumption, FS_Interval DEF Symbols
  <2> QED BY <2>1
<1>2. \A s \in S : Price[s] * run[r].pending[s] \in Nat /\ Price[s] * run[r].held[s] \in Nat
  <2>1. \A s \in S : Price[s] \in Nat /\ run[r].pending[s] \in Nat /\ run[r].held[s] \in Nat
    BY TypeIs, GateAssumption DEF LocalType
  <2>2. \A a, b \in Nat : a * b \in Nat
    OBVIOUS
  <2> QED BY <2>1, <2>2
<1>3. \A s \in S : f[s] \in Nat /\ g[s] \in Nat
  <2> HIDE DEF L
  <2> QED BY <1>2
<1>4. /\ IsFiniteSet(quoted) /\ \A s \in quoted : f[s] \in Nat /\ f0[s] = f[s]
      /\ IsFiniteSet(L) /\ \A s \in L : g[s] \in Nat /\ g0[s] = g[s]
  <2> HIDE DEF L
  <2> QED BY <1>1, <1>2, FS_Subset
<1>5. /\ \A s \in S \ quoted : f[s] = 0
      /\ \A s \in S \ L : g[s] = 0
  <2> HIDE DEF L, S
  <2> QED OBVIOUS
<1>6. /\ PendingExposure(r, quoted) = SumFunctionOnSet(f0, quoted)
      /\ OpenExposure(r, quoted) = SumFunctionOnSet(g0, L)
  BY PendingIs, OpenIs
<1> HIDE DEF f, g, f0, g0, L
<1>7. /\ SumFunctionOnSet(f0, quoted) = SumFunctionOnSet(f, quoted)
      /\ SumFunctionOnSet(g0, L) = SumFunctionOnSet(g, L)
  BY <1>4, SumEqual
<1>8. /\ SumFunctionOnSet(f, S) = SumFunctionOnSet(f, quoted)
      /\ SumFunctionOnSet(g, S) = SumFunctionOnSet(g, L)
  <2> HIDE DEF S
  <2> QED BY <1>1, <1>3, <1>5, SumOfPart
<1>9. SumFunctionOnSet(f, S) \in Nat /\ SumFunctionOnSet(g, S) \in Nat
  <2> HIDE DEF S
  <2> QED BY <1>1, <1>3, SumType
<1> QED BY <1>3, <1>6, <1>7, <1>8, <1>9 DEF f, g, L
-----------------------------------------------------------------------------
(* The invariant, of a record and of where a run stands.                     *)

Waiting == {"positioned", "evaluated", "fresh"}
Listing == Waiting \cup {"quoting"}
Past == {"quoting", "read", "proposing"}

CountOf(sg, d) == Cardinality({i \in DOMAIN sg : sg[i].created >= d})

Tidy(l) ==
  /\ IsFiniteSet(l.candidates)
  /\ \A c, d \in l.candidates : c.symbol = d.symbol => c = d
  /\ l.pc \in Listing => l.listed = {s \in Symbols : l.held[s] > 0}

HeldCover(l, md, sg) ==
  l.pc \in Waiting =>
    \A s \in Symbols : ReachOf(md, sg, s, DecidedOf(md)) <= l.held[s]

TotalCovers(l, md, sg) ==
  /\ l.pc = "quoting" =>
       \A s \in Symbols : ReachOf(md, sg, s, ComingOf(md)) <= l.held[s] + l.pending[s]
  /\ l.pc = "read" => TotalOf(md, sg) <= l.committed
  /\ l.pc = "proposing" /\ Buys(l.candidates) # {} =>
       TotalOf(md, sg) + Worth(Buys(l.candidates)) <= MaxExposure

EachCovers(l, md, sg) ==
  \A c \in l.candidates :
    c.side = "buy" =>
      /\ l.pc \in {"quoting", "read"} =>
           ExposureOf(md, sg, c.symbol) <= Price[c.symbol] * l.held[c.symbol]
      /\ l.pc = "proposing" => ExposureOf(md, sg, c.symbol) + Value(c) <= MaxPosition

SlotsOf(l, sg, dy) ==
  l.pc = "proposing" /\ l.candidates # {} =>
    \E d \in 0 .. dy : CountOf(sg, d) + Cardinality(l.candidates) <= MaxDailyTrades

Sound(l, md, dy, sg, ov) ==
  /\ Tidy(l)
  /\ ov \cap {"inflight", "decided"} = {} => HeldCover(l, md, sg)
  /\ ov \subseteq {"pending"} => TotalCovers(l, md, sg)
  /\ ov = {} => EachCovers(l, md, sg)
  /\ "overlap" \notin ov => SlotsOf(l, sg, dy)

Capped(md, sg, ov) ==
  /\ "overlap" \notin ov =>
       \A d \in 1 .. MaxDay :
         Cardinality({i \in DOMAIN sg : sg[i].created = d}) <= MaxDailyTrades
  /\ ov \subseteq {"pending"} => TotalOf(md, sg) <= MaxExposure
  /\ ov = {} => \A s \in Symbols : ExposureOf(md, sg, s) <= MaxPosition

Covered ==
  /\ RunIsTidy /\ PositionsCover /\ CommittedCovers /\ PositionCovers /\ SlotsCover
  /\ DailyCapHolds /\ ExposureWithinCap /\ PositionWithinCap

LEMMA CoveredIs ==
  Covered <=> /\ \A r \in Runs : Sound(run[r], mode, day, signals, overlooked)
              /\ Capped(mode, signals, overlooked)
<1>1. ASSUME NEW S PROVE MapThenSumSet(LAMBDA c : Value(c), S) = Worth(S)
  BY DEF Worth, MapThenSumSet, SumFunctionOnSet, FoldFunctionOnSet, MapThenFoldSet
<1>2. RunIsTidy <=> \A r \in Runs : Tidy(run[r])
  BY DEF RunIsTidy, Tidy, Waiting, Listing
<1>3. PositionsCover <=>
        \A r \in Runs : overlooked \cap {"inflight", "decided"} = {} => HeldCover(run[r], mode, signals)
  BY ExposureNow DEF PositionsCover, HeldCover, Waiting
<1>4. CommittedCovers <=>
        \A r \in Runs : overlooked \subseteq {"pending"} => TotalCovers(run[r], mode, signals)
  BY <1>1, ExposureNow, ComingNow DEF CommittedCovers, TotalCovers, Buys
<1>5. PositionCovers <=>
        \A r \in Runs : overlooked = {} => EachCovers(run[r], mode, signals)
  BY ExposureNow DEF PositionCovers, EachCovers
<1>6. SlotsCover <=>
        \A r \in Runs : "overlap" \notin overlooked => SlotsOf(run[r], signals, day)
  BY DEF SlotsCover, SlotsOf, CountSignalsSince, CountOf
<1>7. DailyCapHolds /\ ExposureWithinCap /\ PositionWithinCap <=> Capped(mode, signals, overlooked)
  BY ExposureNow DEF DailyCapHolds, ExposureWithinCap, PositionWithinCap, Capped
<1> QED BY <1>2, <1>3, <1>4, <1>5, <1>6, <1>7 DEF Covered, Sound

LEMMA CoveredIsThen ==
  (Covered <=> /\ \A r \in Runs : Sound(run[r], mode, day, signals, overlooked)
               /\ Capped(mode, signals, overlooked))'
BY CoveredIs, PTL

\* The invariant of the caps, on top of that of the proposals.
CapsInvariant == TypeOK /\ Covered

\* The more was overlooked, the less is claimed.
LEMMA SoundWeakens ==
  ASSUME NEW l, NEW md, NEW dy, NEW sg, NEW ov, NEW ow, ov \subseteq ow, Sound(l, md, dy, sg, ov)
  PROVE  Sound(l, md, dy, sg, ow)
BY DEF Sound

LEMMA CappedWeakens ==
  ASSUME NEW md, NEW sg, NEW ov, NEW ow, ov \subseteq ow, Capped(md, sg, ov)
  PROVE  Capped(md, sg, ow)
BY DEF Capped

\* A run moves, and no row changes.
LEMMA CapsRunMoves ==
  ASSUME CapsInvariant, NEW r \in Runs, NEW l \in LocalType, Goto(r, l),
         UNCHANGED <<mode, day, moved, signals>>,
         fires' \in [Symbols -> Rules \cup {"none", "unseen"}],
         overlooked \subseteq overlooked', overlooked' \subseteq overlooked \cup Oversights,
         Sound(l, mode, day, signals, overlooked')
  PROVE  CapsInvariant'
<1>1. TypeOK'
  BY TypeRunMoves DEF CapsInvariant
<1>2. \A q \in Runs : run'[q] = IF q = r THEN l ELSE run[q]
  BY TypeIs DEF Goto, CapsInvariant
<1>3. \A q \in Runs : Sound(run'[q], mode, day, signals, overlooked')
  BY <1>2, CoveredIs, SoundWeakens DEF CapsInvariant
<1>4. Capped(mode, signals, overlooked')
  BY CoveredIs, CappedWeakens DEF CapsInvariant
<1> QED BY <1>1, <1>3, <1>4, CoveredIsThen DEF CapsInvariant

\* A run that is not past its reads claims nothing but its candidates.
LEMMA SoundBefore ==
  ASSUME NEW l, Tidy(l), l.pc \notin Waiting \cup Past,
         NEW md, NEW dy, NEW sg, NEW ov
  PROVE  Sound(l, md, dy, sg, ov)
BY DEF Sound, HeldCover, TotalCovers, EachCovers, SlotsOf, Past

LEMMA EndedIsSound ==
  /\ NotStarted \in LocalType /\ Ended \in LocalType
  /\ \A md, dy, sg, ov : /\ Sound(NotStarted, md, dy, sg, ov)
                         /\ Sound(Ended, md, dy, sg, ov)
<1>1. NotStarted \in LocalType /\ Ended \in LocalType
  BY DEF NotStarted, Ended, LocalType, Unseen, Zero, Steps
<1>2. IsFiniteSet({})
  BY FS_EmptySet
<1>3. Tidy(NotStarted) /\ Tidy(Ended)
  BY <1>2 DEF Tidy, NotStarted, Ended, Waiting, Listing
<1>4. NotStarted.pc = "idle" /\ Ended.pc = "done"
  BY DEF NotStarted, Ended
<1>5. \A x \in {"idle", "done"} : x \notin Waiting \cup Past
  BY DEF Waiting, Past
<1> QED BY <1>1, <1>3, <1>4, <1>5, SoundBefore
-----------------------------------------------------------------------------
(* A run.                                                                    *)

LEMMA RunIs ==
  ASSUME CapsInvariant, NEW r \in Runs
  PROVE  /\ run[r] \in LocalType
         /\ Sound(run[r], mode, day, signals, overlooked)
         /\ signals \in Records
BY TypeIs, TypedRows, CoveredIs DEF CapsInvariant

\* A run that has not read the positions moves on.
LEMMA EarlyCaps ==
  ASSUME CapsInvariant, NEW r \in Runs, NEW l \in LocalType, Goto(r, l),
         l.pc \in {"started", "fetching"}, l.candidates = run[r].candidates,
         UNCHANGED <<mode, day, fires, moved, signals, overlooked>>
  PROVE  CapsInvariant'
<1>1. Tidy(run[r])
  BY RunIs DEF Sound
<1>2. l.pc \notin Waiting \cup Past /\ l.pc \notin Listing
  BY DEF Waiting, Past, Listing
<1>3. Tidy(l)
  BY <1>1, <1>2 DEF Tidy
<1>4. Sound(l, mode, day, signals, overlooked')
  BY <1>2, <1>3, SoundBefore
<1>5. fires' \in [Symbols -> Rules \cup {"none", "unseen"}]
  BY TypeIs DEF CapsInvariant
<1> QED BY <1>4, <1>5, CapsRunMoves

LEMMA StartRunCaps ==
  ASSUME CapsInvariant, NEW r \in Runs, StartRun(r)
  PROVE  CapsInvariant'
<1> DEFINE l == [run[r] EXCEPT !.pc = "started", !.day = day]
<1>1. Goto(r, l) /\ UNCHANGED <<mode, day, fires, moved, signals, overlooked>>
  BY DEF StartRun
<1>2. run[r] \in LocalType /\ day \in Nat
  BY RunIs, TypeIs DEF CapsInvariant
<1>3. l \in LocalType /\ l.pc = "started" /\ l.candidates = run[r].candidates
  BY <1>2 DEF LocalType, Steps
<1> HIDE DEF l
<1> QED BY <1>1, <1>3, EarlyCaps

LEMMA ReadBarsCaps ==
  ASSUME CapsInvariant, NEW r \in Runs, ReadBars(r)
  PROVE  CapsInvariant'
<1>1. PICK bars \in [Symbols -> Rules \cup {"none"}] :
        /\ fires' = bars
        /\ Goto(r, [run[r] EXCEPT !.pc = "fetched", !.bar = day, !.rule = bars])
  BY DEF ReadBars
<1> DEFINE l == [run[r] EXCEPT !.pc = "fetched", !.bar = day, !.rule = bars]
<1>2. UNCHANGED <<mode, day, moved, signals, overlooked>>
  BY DEF ReadBars
<1>3. run[r] \in LocalType /\ Tidy(run[r]) /\ day \in Nat
  BY RunIs, TypeIs DEF Sound, CapsInvariant
<1>4. l \in LocalType /\ l.pc = "fetched" /\ l.candidates = run[r].candidates
  BY <1>3 DEF LocalType, Steps
<1>5. Tidy(l)
  BY <1>3, <1>4 DEF Tidy, Waiting, Listing
<1>6. "fetched" \notin Waiting \cup Past
  BY DEF Waiting, Past
<1> HIDE DEF l
<1>7. Sound(l, mode, day, signals, overlooked')
  BY <1>4, <1>5, <1>6, SoundBefore
<1>8. fires' \in [Symbols -> Rules \cup {"none", "unseen"}]
  BY <1>1
<1> QED BY <1>1, <1>2, <1>4, <1>7, <1>8, CapsRunMoves DEF l

\* Nothing bought is on its way: what the run reads is all there is.
LEMMA ReadPositionsCaps ==
  ASSUME CapsInvariant, NEW r \in Runs, ReadPositions(r)
  PROVE  CapsInvariant'
<1> DEFINE held     == [s \in Symbols |-> Held(s)]
           sellable == [s \in Symbols |-> Sellable(s)]
           listed   == {s \in Symbols : Held(s) > 0}
           l == [run[r] EXCEPT !.pc = "positioned", !.listed = listed,
                               !.held = held, !.sellable = sellable]
<1>1. /\ Goto(r, l) /\ UNCHANGED <<mode, day, fires, moved, signals>>
      /\ overlooked' = overlooked \cup (IF InFlight THEN {"inflight"} ELSE {})
  BY DEF ReadPositions
<1>2. run[r] \in LocalType /\ Tidy(run[r]) /\ signals \in Records
  BY RunIs DEF Sound
<1>3. held \in [Symbols -> Nat] /\ sellable \in [Symbols -> Nat] /\ listed \in SUBSET Symbols
  BY HeldIsNatural DEF CapsInvariant
<1>4. listed = {s \in Symbols : held[s] > 0}
  OBVIOUS
<1>5. \A s \in Symbols : held[s] = Held(s)
  OBVIOUS
<1> HIDE DEF held, sellable, listed
<1>6. /\ l \in LocalType /\ l.pc = "positioned" /\ l.candidates = run[r].candidates
      /\ l.listed = listed /\ l.held = held
  BY <1>2, <1>3 DEF LocalType, Steps
<1> HIDE DEF l
<1>7. Tidy(l)
  BY <1>2, <1>4, <1>6 DEF Tidy
<1>8. overlooked' \cap {"inflight", "decided"} = {} => HeldCover(l, mode, signals)
  <2> SUFFICES ASSUME ~ InFlight, NEW s \in Symbols
               PROVE  ReachOf(mode, signals, s, DecidedOf(mode)) <= held[s]
    BY <1>1, <1>6 DEF HeldCover
  <2>1. Ids(signals, "buy", s, DecidedOf(mode)) = {}
    BY DEF InFlight, Of, Rows, Ids, DecidedOf, ComingOf
  <2>2. Quantity(signals, "buy", s, DecidedOf(mode)) = 0
    BY <2>1, QuantityOfNone
  <2>3. HeldOf(mode, signals, s) \in Nat /\ held[s] = HeldOf(mode, signals, s)
    BY <1>2, <1>5, ReachType, ExposureNow
  <2> QED BY <2>2, <2>3 DEF ReachOf
<1>9. Sound(l, mode, day, signals, overlooked')
  BY <1>6, <1>7, <1>8 DEF Sound, TotalCovers, EachCovers, SlotsOf
<1>10. fires' \in [Symbols -> Rules \cup {"none", "unseen"}]
  BY <1>1, TypeIs DEF CapsInvariant
<1>11. overlooked \subseteq overlooked' /\ overlooked' \subseteq overlooked \cup Oversights
  BY <1>1 DEF Oversights
<1> QED BY <1>1, <1>6, <1>9, <1>10, <1>11, CapsRunMoves

LEMMA EndCaps ==
  ASSUME CapsInvariant, NEW r \in Runs, Goto(r, Ended),
         UNCHANGED <<mode, day, fires, moved, signals, overlooked>>
  PROVE  CapsInvariant'
<1>1. fires' \in [Symbols -> Rules \cup {"none", "unseen"}]
  BY TypeIs DEF CapsInvariant
<1> QED BY <1>1, EndedIsSound, CapsRunMoves

LEMMA ReadSettingsCaps ==
  ASSUME CapsInvariant, NEW r \in Runs, ReadSettings(r)
  PROVE  CapsInvariant'
<1> DEFINE l == [run[r] EXCEPT !.pc = "fetching"]
<1>1. /\ UNCHANGED <<mode, day, fires, moved, signals, overlooked>>
      /\ Goto(r, Ended) \/ Goto(r, l)
  BY DEF ReadSettings
<1>2. run[r] \in LocalType
  BY RunIs
<1>3. l \in LocalType /\ l.pc = "fetching" /\ l.candidates = run[r].candidates
  BY <1>2 DEF LocalType, Steps
<1> HIDE DEF l
<1> QED BY <1>1, <1>3, EndCaps, EarlyCaps

LEMMA EvaluateSymbolsCaps ==
  ASSUME Inductive, CapsInvariant, NEW r \in Runs, EvaluateSymbols(r)
  PROVE  CapsInvariant'
<1> DEFINE candidates == UNION {Evaluate(r, s) : s \in Allowlist}
           due == {c \in candidates : c.rule = "max_holding_period"}
           l == [run[r] EXCEPT !.pc = "evaluated", !.bar = 0, !.rule = Unseen,
                               !.candidates = candidates, !.due = due]
<1>1. /\ run[r].pc = "positioned" /\ UNCHANGED <<mode, day, fires, moved, signals, overlooked>>
      /\ Goto(r, Ended) \/ Goto(r, l)
  BY DEF EvaluateSymbols
<1>2. CASE Goto(r, Ended)
  BY <1>1, <1>2, EndCaps
<1>3. CASE Goto(r, l)
  <2>1. /\ run[r] \in LocalType /\ Tidy(run[r])
        /\ overlooked \cap {"inflight", "decided"} = {} => HeldCover(run[r], mode, signals)
    BY RunIs DEF Sound
  <2>2. \A s \in Allowlist : /\ \A c \in Evaluate(r, s) : c \in Candidates /\ c.symbol = s
                             /\ \A c, d \in Evaluate(r, s) : c = d
    BY <1>1, EvaluateType, GateAssumption DEF CapsInvariant
  <2>3. /\ candidates \in SUBSET Candidates /\ due \in SUBSET Candidates
        /\ \A c, d \in candidates : c.symbol = d.symbol => c = d
    BY <2>2
  <2> HIDE DEF candidates, due
  <2>4. IsFiniteSet(candidates)
    <3>1. \A c \in candidates : c.symbol \in Symbols
      BY <2>3 DEF Candidates
    <3> QED BY <2>3, <3>1, OnePerSymbolIsFinite
  <2>5. Unseen \in [Symbols -> Rules \cup {"none", "unseen"}]
    BY DEF Unseen
  <2>6. /\ l \in LocalType /\ l.pc = "evaluated" /\ l.candidates = candidates
        /\ l.listed = run[r].listed /\ l.held = run[r].held
    BY <2>1, <2>3, <2>5 DEF LocalType, Steps
  <2> HIDE DEF l
  <2>7. Tidy(l)
    BY <1>1, <2>1, <2>3, <2>4, <2>6 DEF Tidy, Waiting, Listing
  <2>8. overlooked \cap {"inflight", "decided"} = {} => HeldCover(l, mode, signals)
    BY <1>1, <2>1, <2>6 DEF HeldCover, Waiting
  <2>9. Sound(l, mode, day, signals, overlooked')
    BY <1>1, <2>6, <2>7, <2>8 DEF Sound, TotalCovers, EachCovers, SlotsOf
  <2>10. fires' \in [Symbols -> Rules \cup {"none", "unseen"}]
    BY <1>1, TypeIs DEF CapsInvariant
  <2> QED BY <1>1, <1>3, <2>6, <2>9, <2>10, CapsRunMoves
<1> QED BY <1>1, <1>2, <1>3

\* Candidates are dropped, nothing else that is claimed about.
LEMMA TidySubset ==
  ASSUME NEW l, NEW k, Tidy(k), l.candidates \in SUBSET k.candidates,
         l.pc \in Listing => k.pc \in Listing /\ l.listed = k.listed /\ l.held = k.held
  PROVE  Tidy(l)
<1>1. IsFiniteSet(l.candidates)
  BY FS_Subset DEF Tidy
<1> QED BY <1>1 DEF Tidy

LEMMA FindExistingKeysCaps ==
  ASSUME CapsInvariant, NEW r \in Runs, FindExistingKeys(r)
  PROVE  CapsInvariant'
<1> DEFINE fresh == {c \in run[r].candidates : DedupeKeyFor(c) \notin Keys}
           l == [run[r] EXCEPT !.pc = "fresh", !.candidates = fresh]
<1>1. /\ run[r].pc = "evaluated" /\ UNCHANGED <<mode, day, fires, moved, signals, overlooked>>
      /\ Goto(r, l)
  BY DEF FindExistingKeys
<1>2. /\ run[r] \in LocalType /\ Tidy(run[r])
      /\ overlooked \cap {"inflight", "decided"} = {} => HeldCover(run[r], mode, signals)
  BY RunIs DEF Sound
<1>3. fresh \in SUBSET run[r].candidates
  OBVIOUS
<1> HIDE DEF fresh
<1>4. /\ l \in LocalType /\ l.pc = "fresh" /\ l.candidates = fresh
      /\ l.listed = run[r].listed /\ l.held = run[r].held
  BY <1>2, <1>3 DEF LocalType, Steps
<1> HIDE DEF l
<1>5. Tidy(l)
  BY <1>1, <1>2, <1>3, <1>4, TidySubset DEF Waiting, Listing
<1>6. overlooked \cap {"inflight", "decided"} = {} => HeldCover(l, mode, signals)
  BY <1>1, <1>2, <1>4 DEF HeldCover, Waiting
<1>7. Sound(l, mode, day, signals, overlooked')
  BY <1>1, <1>4, <1>5, <1>6 DEF Sound, TotalCovers, EachCovers, SlotsOf
<1>8. fires' \in [Symbols -> Rules \cup {"none", "unseen"}]
  BY <1>1, TypeIs DEF CapsInvariant
<1> QED BY <1>1, <1>4, <1>7, <1>8, CapsRunMoves

\* What a run holds and finds pending covers what there is.
LEMMA PendingCovers ==
  ASSUME CapsInvariant, NEW r \in Runs, run[r].pc = "fresh",
         HeldCover(run[r], mode, signals), NEW s \in Symbols
  PROVE  /\ ReachOf(mode, signals, s, ComingOf(mode)) <= run[r].held[s] + Shares(Pending(s))
         /\ Of("buy", Pending(s)) = {} =>
              ExposureOf(mode, signals, s) <= Price[s] * run[r].held[s]
<1> DEFINE held == run[r].held
           q == Quantity(signals, "buy", s, {"pending"})
           p == Shares(Pending(s))
           x == ReachOf(mode, signals, s, ComingOf(mode))
<1>1. /\ signals \in Records /\ TypeOK
      /\ held[s] \in Nat /\ Price[s] \in Nat
  BY RunIs, GateAssumption DEF CapsInvariant, LocalType
<1>2. p \in Nat /\ q \in Nat /\ q <= p
  BY <1>1, SharesOfRows, QuantityType
<1>3. x \in Nat /\ x <= held[s] + q
  <2>1. ReachOf(mode, signals, s, DecidedOf(mode)) <= held[s]
    BY DEF HeldCover, Waiting
  <2>2. ComingOf(mode) = DecidedOf(mode) \cup {"pending"} /\ DecidedOf(mode) \cap {"pending"} = {}
    BY DEF ComingOf, DecidedOf
  <2>3. Quantity(signals, "buy", s, DecidedOf(mode) \cup {"pending"})
          = Quantity(signals, "buy", s, DecidedOf(mode)) + q
    BY <1>1, <2>2, QuantityJoins
  <2>4. Quantity(signals, "buy", s, ComingOf(mode))
          = Quantity(signals, "buy", s, DecidedOf(mode)) + q
    BY <2>2, <2>3
  <2>5. /\ HeldOf(mode, signals, s) \in Nat
        /\ Quantity(signals, "buy", s, DecidedOf(mode)) \in Nat
    BY <1>1, ReachType, QuantityType
  <2> HIDE DEF q, held
  <2> QED BY <1>1, <1>2, <2>1, <2>4, <2>5 DEF ReachOf
<1>4. x <= held[s] + p
  <2> HIDE DEF x, held, p, q
  <2> QED BY <1>1, <1>2, <1>3
<1>5. ASSUME Of("buy", Pending(s)) = {}
      PROVE  ExposureOf(mode, signals, s) <= Price[s] * held[s]
  <2>1. Ids(signals, "buy", s, {"pending"}) = {}
    BY <1>5 DEF Of, Pending, Rows, Ids
  <2>2. q = 0
    BY <2>1, QuantityOfNone
  <2>3. x <= held[s]
    BY <1>1, <1>3, <2>2
  <2> QED BY <1>1, <1>3, <2>3, TimesGrows DEF ExposureOf
<1> QED BY <1>4, <1>5

LEMMA ReadPendingCaps ==
  ASSUME CapsInvariant, NEW r \in Runs, ReadPending(r)
  PROVE  CapsInvariant'
<1> DEFINE pending == [s \in Symbols |-> Shares(Pending(s))]
           doubled == \E c \in run[r].candidates :
                        c.side = "buy" /\ Of("buy", Pending(c.symbol)) # {}
           l == [run[r] EXCEPT !.pc = "quoting", !.pending = pending]
<1>1. /\ run[r].pc = "fresh" /\ Goto(r, l) /\ UNCHANGED <<mode, day, fires, moved, signals>>
      /\ overlooked' = overlooked \cup (IF doubled THEN {"pending"} ELSE {})
  BY DEF ReadPending
<1>2. run[r] \in LocalType /\ Sound(run[r], mode, day, signals, overlooked) /\ TypeOK
  BY RunIs DEF CapsInvariant
<1>3. /\ pending \in [Symbols -> Nat]
      /\ \A s \in Symbols : pending[s] = Shares(Pending(s))
  BY <1>2, SharesOfRows
<1> HIDE DEF pending
<1>4. /\ l \in LocalType /\ l.pc = "quoting" /\ l.candidates = run[r].candidates
      /\ l.held = run[r].held /\ l.listed = run[r].listed /\ l.pending = pending
  BY <1>2, <1>3 DEF LocalType, Steps
<1> HIDE DEF l
<1>5. Tidy(l)
  BY <1>1, <1>2, <1>4 DEF Tidy, Waiting, Listing, Sound
<1>6. overlooked' \subseteq {"pending"} => TotalCovers(l, mode, signals)
  <2> SUFFICES ASSUME overlooked' \subseteq {"pending"}, NEW s \in Symbols
               PROVE  ReachOf(mode, signals, s, ComingOf(mode)) <= run[r].held[s] + pending[s]
    BY <1>4 DEF TotalCovers
  <2>1. HeldCover(run[r], mode, signals)
    BY <1>1, <1>2 DEF Sound
  <2> QED BY <1>1, <1>3, <2>1, PendingCovers
<1>7. overlooked' = {} => EachCovers(l, mode, signals)
  <2> SUFFICES ASSUME overlooked' = {}, NEW c \in run[r].candidates, c.side = "buy"
               PROVE  ExposureOf(mode, signals, c.symbol) <= Price[c.symbol] * run[r].held[c.symbol]
    BY <1>4 DEF EachCovers
  <2>1. ~ doubled /\ overlooked = {}
    <3> HIDE DEF doubled
    <3> QED BY <1>1
  <2>2. HeldCover(run[r], mode, signals)
    BY <1>2, <2>1 DEF Sound
  <2>3. c.symbol \in Symbols /\ Of("buy", Pending(c.symbol)) = {}
    BY <1>2, <2>1 DEF LocalType, Candidates
  <2> QED BY <1>1, <2>2, <2>3, PendingCovers
<1>8. Sound(l, mode, day, signals, overlooked')
  BY <1>4, <1>5, <1>6, <1>7 DEF Sound, HeldCover, SlotsOf, Waiting
<1>9. overlooked \subseteq overlooked' /\ overlooked' \subseteq overlooked \cup Oversights
  <2> HIDE DEF doubled
  <2> QED BY <1>1 DEF Oversights
<1>10. fires' \in [Symbols -> Rules \cup {"none", "unseen"}]
  BY <1>1, TypeIs DEF CapsInvariant
<1> QED BY <1>1, <1>4, <1>8, <1>9, <1>10, CapsRunMoves

\* What the run counted covers what there is, unless a quote was missing.
LEMMA ReadQuotesCovers ==
  ASSUME CapsInvariant, NEW r \in Runs, run[r].pc = "quoting", NEW quoted \in SUBSET Symbols,
         \A s \in Symbols \ quoted : s \notin run[r].listed /\ run[r].pending[s] = 0,
         TotalCovers(run[r], mode, signals)
  PROVE  TotalOf(mode, signals) <= PendingExposure(r, quoted) + OpenExposure(r, quoted)
<1> DEFINE S == Symbols
           held == run[r].held
           pending == run[r].pending
           h == [s \in S |-> ExposureOf(mode, signals, s)]
           f == [s \in S |-> IF s \in quoted THEN Price[s] * pending[s] ELSE 0]
           g == [s \in S |-> IF s \in run[r].listed \cap quoted THEN Price[s] * held[s] ELSE 0]
           m == [s \in S |-> f[s] + g[s]]
<1>1. /\ signals \in Records /\ TypeOK
      /\ \A s \in S : held[s] \in Nat /\ pending[s] \in Nat /\ Price[s] \in Nat
      /\ run[r].listed = {s \in S : held[s] > 0}
  BY RunIs, GateAssumption DEF CapsInvariant, LocalType, Sound, Tidy, Listing
<1>2. ASSUME NEW s \in S PROVE ExposureOf(mode, signals, s) <= f[s] + g[s]
  <2> DEFINE x == ReachOf(mode, signals, s, ComingOf(mode))
             fs == IF s \in quoted THEN Price[s] * pending[s] ELSE 0
             gs == IF s \in run[r].listed \cap quoted THEN Price[s] * held[s] ELSE 0
  <2>1. x \in Nat /\ x <= held[s] + pending[s]
    BY <1>1, ReachType DEF TotalCovers
  <2>2. Price[s] * x <= Price[s] * (held[s] + pending[s])
    BY <1>1, <2>1, TimesGrows
  <2>3. Price[s] * (held[s] + pending[s]) = Price[s] * held[s] + Price[s] * pending[s]
    BY <1>1
  <2>4. Price[s] * 0 = 0 /\ Price[s] * held[s] \in Nat /\ Price[s] * pending[s] \in Nat
    BY <1>1
  <2>5. CASE s \in quoted
    <3>1. fs = Price[s] * pending[s]
      BY <2>5
    <3>2. gs = Price[s] * held[s]
      BY <1>1, <2>4, <2>5
    <3>3. Price[s] * x <= fs + gs
      <4> HIDE DEF x, fs, gs, pending, held
      <4> QED BY <2>2, <2>3, <2>4, <3>1, <3>2
    <3> QED BY <3>3 DEF ExposureOf
  <2>6. CASE s \notin quoted
    <3>1. held[s] = 0 /\ pending[s] = 0
      BY <1>1, <2>6
    <3>2. x = 0 /\ fs = 0 /\ gs = 0
      BY <2>1, <2>6, <3>1
    <3>3. Price[s] * x <= fs + gs
      BY <2>4, <3>2
    <3> QED BY <3>3 DEF ExposureOf
  <2> QED BY <2>5, <2>6
<1>3. TotalOf(mode, signals) <= PendingExposure(r, quoted) + OpenExposure(r, quoted)
  <2>1. /\ PendingExposure(r, quoted) = SumFunctionOnSet(f, S)
        /\ OpenExposure(r, quoted) = SumFunctionOnSet(g, S)
        /\ \A s \in S : f[s] \in Nat /\ g[s] \in Nat
    BY <1>1, CommittedIs
  <2>2. IsFiniteSet(S)
    BY GateAssumption, FS_Interval DEF Symbols
  <2>3. \A s \in S : h[s] \in Nat /\ h[s] = ExposureOf(mode, signals, s)
    BY <1>1, ReachType
  <2> HIDE DEF f, g, h, S
  <2>4. \A s \in S : f[s] \in Nat /\ g[s] \in Nat /\ m[s] = f[s] + g[s] /\ m[s] \in Nat
    BY <2>1
  <2>5. \A s \in S : h[s] \in Nat /\ m[s] \in Nat /\ h[s] <= m[s]
    BY <1>2, <2>3, <2>4
  <2> HIDE DEF m
  <2>6. SumFunctionOnSet(h, S) <= SumFunctionOnSet(m, S)
    BY <2>2, <2>5, SumBound
  <2>7. SumFunctionOnSet(m, S) = SumFunctionOnSet(f, S) + SumFunctionOnSet(g, S)
    BY <2>2, <2>4, SumPlus
  <2>8. TotalOf(mode, signals) = SumFunctionOnSet(h, S)
    BY DEF TotalOf, h, S
  <2> QED BY <2>1, <2>6, <2>7, <2>8
<1> QED BY <1>3

LEMMA ReadQuotesCaps ==
  ASSUME CapsInvariant, NEW r \in Runs, ReadQuotes(r)
  PROVE  CapsInvariant'
<1>1. PICK unquoted \in {{}} \cup {{s} : s \in Symbols} :
        LET quoted == Symbols \ unquoted
            missed == {s \in unquoted : s \in run[r].listed \/ run[r].pending[s] > 0}
        IN  /\ Goto(r, [run[r] EXCEPT !.pc = "read", !.listed = {}, !.pending = Zero,
                          !.held = [s \in Symbols |-> IF s \in quoted THEN run[r].held[s] ELSE 0],
                          !.committed = PendingExposure(r, quoted) + OpenExposure(r, quoted)])
            /\ overlooked' = overlooked \cup (IF missed # {} THEN {"unquoted"} ELSE {})
  BY DEF ReadQuotes
<1> DEFINE quoted == Symbols \ unquoted
           missed == {s \in unquoted : s \in run[r].listed \/ run[r].pending[s] > 0}
           held      == [s \in Symbols |-> IF s \in quoted THEN run[r].held[s] ELSE 0]
           committed == PendingExposure(r, quoted) + OpenExposure(r, quoted)
           l == [run[r] EXCEPT !.pc = "read", !.listed = {}, !.pending = Zero,
                               !.held = held, !.committed = committed]
<1>2. /\ run[r].pc = "quoting" /\ Goto(r, l) /\ UNCHANGED <<mode, day, fires, moved, signals>>
      /\ overlooked' = overlooked \cup (IF missed # {} THEN {"unquoted"} ELSE {})
  BY <1>1 DEF ReadQuotes
<1>3. quoted \in SUBSET Symbols /\ Symbols \ quoted \subseteq unquoted
  OBVIOUS
<1>4. /\ run[r] \in LocalType /\ Sound(run[r], mode, day, signals, overlooked) /\ TypeOK
      /\ Zero \in [Symbols -> Nat]
      /\ \A s \in Symbols : run[r].held[s] \in Nat /\ run[r].pending[s] \in Nat
  BY RunIs DEF CapsInvariant, Zero, LocalType
<1>5. held \in [Symbols -> Nat] /\ committed \in Nat
  <2>1. committed \in Nat
    <3> HIDE DEF quoted
    <3> QED BY <1>3, <1>4, CommittedIs
  <2> QED BY <1>4, <2>1
<1>6. ASSUME missed = {}
      PROVE  /\ \A s \in Symbols \ quoted : s \notin run[r].listed /\ run[r].pending[s] = 0
             /\ \A s \in Symbols : held[s] = run[r].held[s]
  <2>1. \A s \in unquoted \cap Symbols : s \notin run[r].listed /\ run[r].pending[s] = 0
    BY <1>4, <1>6
  <2>2. run[r].listed = {s \in Symbols : run[r].held[s] > 0}
    BY <1>2, <1>4 DEF Sound, Tidy, Listing
  <2>3. \A s \in Symbols \ quoted : run[r].held[s] = 0
    BY <1>4, <2>1, <2>2
  <2> QED BY <2>1, <2>3
<1> HIDE DEF held, committed, quoted
<1>7. /\ l \in LocalType /\ l.pc = "read" /\ l.candidates = run[r].candidates
      /\ l.held = held /\ l.committed = committed
  BY <1>4, <1>5 DEF LocalType, Steps
<1> HIDE DEF l
<1>8. Tidy(l)
  BY <1>4, <1>7 DEF Tidy, Waiting, Listing, Sound
<1>9. overlooked' \subseteq {"pending"} => TotalCovers(l, mode, signals)
  <2> SUFFICES ASSUME overlooked' \subseteq {"pending"} PROVE TotalOf(mode, signals) <= committed
    BY <1>7 DEF TotalCovers
  <2>1. missed = {} /\ overlooked \subseteq {"pending"}
    <3> HIDE DEF missed
    <3> QED BY <1>2
  <2>2. TotalCovers(run[r], mode, signals)
    BY <1>4, <2>1 DEF Sound
  <2> HIDE DEF missed
  <2> QED BY <1>2, <1>3, <1>6, <2>1, <2>2, ReadQuotesCovers DEF committed
<1>10. overlooked' = {} => EachCovers(l, mode, signals)
  <2> SUFFICES ASSUME overlooked' = {}, NEW c \in run[r].candidates, c.side = "buy"
               PROVE  ExposureOf(mode, signals, c.symbol) <= Price[c.symbol] * held[c.symbol]
    BY <1>7 DEF EachCovers
  <2>1. missed = {} /\ overlooked = {}
    <3> HIDE DEF missed
    <3> QED BY <1>2
  <2>2. c.symbol \in Symbols /\ held[c.symbol] = run[r].held[c.symbol]
    BY <1>4, <1>6, <2>1 DEF LocalType, Candidates
  <2> QED BY <1>2, <1>4, <2>1, <2>2 DEF Sound, EachCovers
<1>11. Sound(l, mode, day, signals, overlooked')
  BY <1>7, <1>8, <1>9, <1>10 DEF Sound, HeldCover, SlotsOf, Waiting
<1>12. overlooked \subseteq overlooked' /\ overlooked' \subseteq overlooked \cup Oversights
  <2> HIDE DEF missed
  <2> QED BY <1>2 DEF Oversights
<1>13. fires' \in [Symbols -> Rules \cup {"none", "unseen"}]
  BY <1>2, TypeIs DEF CapsInvariant
<1> QED BY <1>2, <1>7, <1>11, <1>12, <1>13, CapsRunMoves

\* What passes the gate fits on top of what the run counted.
LEMMA GateCaps ==
  ASSUME Inductive, CapsInvariant, NEW r \in Runs, Gate(r)
  PROVE  CapsInvariant'
<1> DEFINE in == GateInputs(r)
           C == run[r].candidates
           accepted == ApplyRiskCaps(C, in)
           due == run[r].due \ (C \ accepted)
           l == [NotStarted EXCEPT !.pc = "proposing", !.candidates = accepted, !.due = due]
<1>1. /\ run[r].pc = "read" /\ Goto(r, l)
      /\ UNCHANGED <<mode, day, fires, moved, signals, overlooked>>
  BY DEF Gate
<1>2. /\ run[r] \in LocalType /\ signals \in Records
      /\ Sound(run[r], mode, day, signals, overlooked)
  BY RunIs
<1>3. /\ in.today = CountOf(signals, run[r].day) /\ in.committed = run[r].committed
      /\ \A s \in Symbols : in.position[s] = Price[s] * run[r].held[s]
  BY DEF GateInputs, CountSignalsSince, CountOf
<1>4. in.today \in Nat /\ in.committed \in Nat
  <2>1. IsFiniteSet({i \in DOMAIN signals : signals[i].created >= run[r].day})
    <3>1. Len(signals) \in Nat /\ DOMAIN signals = 1 .. Len(signals)
      BY <1>2, RecordRows
    <3>2. IsFiniteSet(1 .. Len(signals))
      BY <3>1, FS_Interval
    <3>3. {i \in DOMAIN signals : signals[i].created >= run[r].day} \in SUBSET (1 .. Len(signals))
      BY <3>1
    <3> QED BY <3>2, <3>3, FS_Subset
  <2>2. CountOf(signals, run[r].day) \in Nat
    BY <2>1, FS_CardinalityType DEF CountOf
  <2> QED BY <1>2, <1>3, <2>2 DEF LocalType
<1>5. OneEach(C)
  BY <1>2 DEF OneEach, LocalType, Candidates, Sound, Tidy
<1> HIDE DEF in
<1>6. accepted \in SUBSET C
  BY GateChooses
<1>7. accepted # {} => in.today + Cardinality(accepted) <= MaxDailyTrades
  BY <1>4, <1>5, GateKeepsDailyCap
<1>8. Buys(accepted) # {} => in.committed + Worth(Buys(accepted)) <= MaxExposure
  BY <1>4, <1>5, GateKeepsExposureCap
<1>9. \A c \in accepted : c.side = "buy" => in.position[c.symbol] + Value(c) <= MaxPosition
  BY GateKeepsPositionCap
<1> HIDE DEF accepted
<1>10. l \in LocalType /\ l.pc = "proposing" /\ l.candidates = accepted
  <2>1. accepted \in SUBSET Candidates /\ due \in SUBSET Candidates
    BY <1>2, <1>6 DEF LocalType
  <2> HIDE DEF due
  <2> QED BY <2>1, EndedIsSound DEF LocalType, Steps
<1> HIDE DEF l
<1>11. IsFiniteSet(accepted) /\ Tidy(l)
  <2>1. IsFiniteSet(accepted)
    BY <1>5, <1>6, FS_Subset DEF OneEach
  <2> QED BY <1>2, <1>6, <1>10, <2>1 DEF Tidy, Waiting, Listing, Sound
<1>12. \A c \in accepted : c.symbol \in Symbols /\ Value(c) \in Nat
  BY <1>5, <1>6, ValueIsNatural DEF OneEach
<1>13. MaxDailyTrades \in Nat /\ MaxExposure \in Nat /\ MaxPosition \in Nat
  BY GateAssumption
<1>14. overlooked \subseteq {"pending"} => TotalCovers(l, mode, signals)
  <2> SUFFICES ASSUME overlooked \subseteq {"pending"}, Buys(accepted) # {}
               PROVE  TotalOf(mode, signals) + Worth(Buys(accepted)) <= MaxExposure
    BY <1>10 DEF TotalCovers
  <2>1. TotalOf(mode, signals) <= in.committed
    BY <1>1, <1>2, <1>3 DEF Sound, TotalCovers
  <2>2. Worth(Buys(accepted)) \in Nat
    <3>1. IsFiniteSet(Buys(accepted)) /\ \A c \in Buys(accepted) : Value(c) \in Nat
      BY <1>11, <1>12, FS_Subset DEF Buys
    <3> QED BY <3>1, WorthType
  <2>3. TotalOf(mode, signals) \in Nat
    BY <1>2, ReachType
  <2> QED BY <1>4, <1>8, <1>13, <2>1, <2>2, <2>3
<1>15. overlooked = {} => EachCovers(l, mode, signals)
  <2> SUFFICES ASSUME overlooked = {}, NEW c \in accepted, c.side = "buy"
               PROVE  ExposureOf(mode, signals, c.symbol) + Value(c) <= MaxPosition
    BY <1>10 DEF EachCovers
  <2>1. ExposureOf(mode, signals, c.symbol) <= Price[c.symbol] * run[r].held[c.symbol]
    BY <1>1, <1>2, <1>6 DEF Sound, EachCovers
  <2>2. Price[c.symbol] * run[r].held[c.symbol] + Value(c) <= MaxPosition
    BY <1>3, <1>9, <1>12
  <2>3. Price[c.symbol] * run[r].held[c.symbol] \in Nat
    <3>1. Price[c.symbol] \in Nat /\ run[r].held[c.symbol] \in Nat
      BY <1>2, <1>12, GateAssumption DEF LocalType
    <3>2. \A a, b \in Nat : a * b \in Nat
      OBVIOUS
    <3> QED BY <3>1, <3>2
  <2>4. ExposureOf(mode, signals, c.symbol) \in Nat /\ Value(c) \in Nat
    BY <1>2, <1>12, ReachType
  <2> QED BY <1>13, <2>1, <2>2, <2>3, <2>4
<1>16. SlotsOf(l, signals, day)
  <2>1. run[r].day \in 0 .. day
    BY <1>2, TypeIs DEF CapsInvariant, LocalType, Inductive, NothingAhead
  <2> QED BY <1>3, <1>7, <1>10, <2>1 DEF SlotsOf
<1>17. Sound(l, mode, day, signals, overlooked')
  BY <1>1, <1>10, <1>11, <1>14, <1>15, <1>16 DEF Sound, HeldCover, Waiting
<1>18. fires' \in [Symbols -> Rules \cup {"none", "unseen"}]
  BY <1>1, TypeIs DEF CapsInvariant
<1> QED BY <1>1, <1>10, <1>17, <1>18, CapsRunMoves

\* The candidates of a type, and what the buys among them are worth.
LEMMA BuysAre ==
  ASSUME NEW C \in SUBSET Candidates, IsFiniteSet(C)
  PROVE  /\ IsFiniteSet(Buys(C)) /\ Worth(Buys(C)) \in Nat
         /\ \A c \in C : Value(c) \in Nat /\ Commits(c) \in Nat
         /\ \A c \in C : Worth(Buys(C)) = Worth(Buys(C \ {c})) + Commits(c)
         /\ Cardinality(C) \in Nat
         /\ \A c \in C : Cardinality(C \ {c}) + 1 = Cardinality(C)
<1>1. \A c \in C : Value(c) \in Nat /\ Commits(c) \in Nat
  BY ValueIsNatural DEF Candidates, Commits
<1>2. \A B \in SUBSET C : IsFiniteSet(Buys(B)) /\ Worth(Buys(B)) \in Nat
  <2> SUFFICES ASSUME NEW B \in SUBSET C PROVE IsFiniteSet(Buys(B)) /\ Worth(Buys(B)) \in Nat
    OBVIOUS
  <2>1. Buys(B) \in SUBSET C
    BY DEF Buys
  <2>2. IsFiniteSet(Buys(B))
    BY <2>1, FS_Subset
  <2> QED BY <1>1, <2>1, <2>2, WorthType
<1>3. ASSUME NEW c \in C
      PROVE  /\ Worth(Buys(C)) = Worth(Buys(C \ {c})) + Commits(c)
             /\ Cardinality(C \ {c}) + 1 = Cardinality(C)
  <2> DEFINE D == C \ {c}
  <2>1. D \in SUBSET C /\ Worth(Buys(D)) \in Nat /\ IsFiniteSet(Buys(D))
    BY <1>2
  <2>2. Worth(Buys(C)) = Worth(Buys(D)) + Commits(c)
    <3>1. CASE c.side = "buy"
      <4>1. Buys(C) = Buys(D) \cup {c} /\ c \notin Buys(D)
        BY <3>1 DEF Buys
      <4>2. \A x \in Buys(D) : Value(x) \in Nat
        BY <1>1 DEF Buys
      <4>3. Worth(Buys(D) \cup {c}) = Worth(Buys(D)) + Value(c)
        <5> HIDE DEF D
        <5> QED BY <1>1, <2>1, <4>1, <4>2, WorthAdd
      <4> QED BY <3>1, <4>1, <4>3 DEF Commits
    <3>2. CASE c.side # "buy"
      <4>1. Buys(C) = Buys(D)
        BY <3>2 DEF Buys
      <4> HIDE DEF D
      <4> QED BY <2>1, <3>2, <4>1 DEF Commits
    <3> QED BY <3>1, <3>2
  <2>3. Cardinality(D) + 1 = Cardinality(C)
    <3>1. Cardinality(D) = Cardinality(C) - 1
      BY FS_RemoveElement
    <3>2. Cardinality(C) \in Nat
      BY FS_CardinalityType
    <3> HIDE DEF D
    <3> QED BY <3>1, <3>2
  <2> QED BY <2>2, <2>3
<1> QED BY <1>1, <1>2, <1>3, FS_CardinalityType

LEMMA CountType ==
  ASSUME NEW sg \in Records, NEW d
  PROVE  CountOf(sg, d) \in Nat /\ IsFiniteSet(DOMAIN sg)
<1>1. Len(sg) \in Nat /\ DOMAIN sg = 1 .. Len(sg)
  BY RecordRows
<1>2. IsFiniteSet(DOMAIN sg)
  BY <1>1, FS_Interval
<1>3. {i \in DOMAIN sg : sg[i].created >= d} \in SUBSET DOMAIN sg
  OBVIOUS
<1>4. IsFiniteSet({i \in DOMAIN sg : sg[i].created >= d})
  BY <1>2, <1>3, FS_Subset
<1> QED BY <1>2, <1>4, FS_CardinalityType DEF CountOf

\* The next candidate of a run goes, with or without a signal.
LEMMA PassOverCaps ==
  ASSUME CapsInvariant, NEW r \in Runs, ReviewFails(r) \/ SkipDuplicate(r)
  PROVE  CapsInvariant'
<1>1. run[r] \in LocalType /\ Sound(run[r], mode, day, signals, overlooked) /\ signals \in Records
  BY RunIs
<1>2. PICK c \in run[r].candidates, due \in SUBSET run[r].due :
        /\ run[r].pc = "proposing"
        /\ Goto(r, [run[r] EXCEPT !.candidates = run[r].candidates \ {c}, !.due = due])
  <2>1. CASE ReviewFails(r)
    <3>1. PICK c \in run[r].candidates :
            /\ run[r].pc = "proposing"
            /\ Goto(r, [run[r] EXCEPT !.candidates = run[r].candidates \ {c},
                                      !.due = run[r].due \ {c}])
      BY <2>1 DEF ReviewFails, NextToPropose
    <3> WITNESS c \in run[r].candidates, run[r].due \ {c} \in SUBSET run[r].due
    <3> QED BY <3>1
  <2>2. CASE SkipDuplicate(r)
    <3>1. PICK c \in run[r].candidates :
            /\ run[r].pc = "proposing"
            /\ Goto(r, [run[r] EXCEPT !.candidates = run[r].candidates \ {c}])
      BY <2>2 DEF SkipDuplicate, NextToPropose, Proposed
    <3>2. [run[r] EXCEPT !.candidates = run[r].candidates \ {c}]
            = [run[r] EXCEPT !.candidates = run[r].candidates \ {c}, !.due = run[r].due]
      BY <1>1 DEF LocalType
    <3>3. Goto(r, [run[r] EXCEPT !.candidates = run[r].candidates \ {c}, !.due = run[r].due])
      BY <3>1, <3>2 DEF Goto
    <3> WITNESS c \in run[r].candidates, run[r].due \in SUBSET run[r].due
    <3> QED BY <3>1, <3>3
  <2> QED BY <2>1, <2>2
<1> DEFINE C == run[r].candidates
           D == C \ {c}
           l == [run[r] EXCEPT !.candidates = D, !.due = due]
<1>3. UNCHANGED <<mode, day, fires, moved, signals, overlooked>>
  BY DEF ReviewFails, SkipDuplicate
<1>4. /\ C \in SUBSET Candidates /\ IsFiniteSet(C)
      /\ l \in LocalType /\ l.pc = "proposing" /\ l.candidates = D
  BY <1>1, <1>2 DEF LocalType, Sound, Tidy
<1>5. /\ Worth(Buys(C)) = Worth(Buys(D)) + Commits(c) /\ Commits(c) \in Nat
      /\ Cardinality(D) + 1 = Cardinality(C) /\ IsFiniteSet(D)
  BY <1>4, BuysAre, FS_RemoveElement
<1>6. Worth(Buys(D)) \in Nat /\ Cardinality(D) \in Nat
  BY <1>4, <1>5, BuysAre
<1> HIDE DEF l
<1>7. Tidy(l)
  <2>1. l.candidates \in SUBSET C
    BY <1>4
  <2> QED BY <1>1, <1>4, <2>1, TidySubset DEF Sound, Waiting, Listing
<1>8. overlooked \subseteq {"pending"} => TotalCovers(l, mode, signals)
  <2> SUFFICES ASSUME overlooked \subseteq {"pending"}, Buys(D) # {}
               PROVE  TotalOf(mode, signals) + Worth(Buys(D)) <= MaxExposure
    BY <1>4 DEF TotalCovers
  <2>1. Buys(C) # {}
    BY DEF Buys
  <2>2. TotalOf(mode, signals) + Worth(Buys(C)) <= MaxExposure
    BY <1>1, <1>2, <2>1 DEF Sound, TotalCovers
  <2>3. TotalOf(mode, signals) \in Nat /\ MaxExposure \in Nat
    BY <1>1, ReachType, GateAssumption
  <2> HIDE DEF C, D
  <2> QED BY <1>5, <1>6, <2>2, <2>3
<1>9. overlooked = {} => EachCovers(l, mode, signals)
  BY <1>1, <1>2, <1>4 DEF Sound, EachCovers
<1>10. "overlap" \notin overlooked => SlotsOf(l, signals, day)
  <2> SUFFICES ASSUME "overlap" \notin overlooked
               PROVE  \E d \in 0 .. day : CountOf(signals, d) + Cardinality(D) <= MaxDailyTrades
    BY <1>4 DEF SlotsOf
  <2>1. PICK d \in 0 .. day : CountOf(signals, d) + Cardinality(C) <= MaxDailyTrades
    BY <1>1, <1>2 DEF Sound, SlotsOf
  <2>2. CountOf(signals, d) \in Nat /\ MaxDailyTrades \in Nat
    BY <1>1, CountType, GateAssumption
  <2>3. CountOf(signals, d) + Cardinality(D) <= MaxDailyTrades
    <3> HIDE DEF C, D
    <3> QED BY <1>5, <1>6, <2>1, <2>2
  <2> QED BY <2>3
<1>11. Sound(l, mode, day, signals, overlooked')
  BY <1>3, <1>4, <1>7, <1>8, <1>9, <1>10 DEF Sound, HeldCover, Waiting
<1>12. fires' \in [Symbols -> Rules \cup {"none", "unseen"}]
  BY <1>3, TypeIs DEF CapsInvariant
<1>13. Goto(r, l)
  BY <1>2 DEF l
<1> QED BY <1>3, <1>4, <1>11, <1>12, <1>13, CapsRunMoves

LEMMA EndRunCaps ==
  ASSUME CapsInvariant, NEW r \in Runs, EndRun(r)
  PROVE  CapsInvariant'
<1> DEFINE l == [run[r] EXCEPT !.pc = "done"]
<1>1. Goto(r, l) /\ UNCHANGED <<mode, day, fires, moved, signals, overlooked>>
  BY DEF EndRun
<1>2. run[r] \in LocalType /\ Tidy(run[r])
  BY RunIs DEF Sound
<1>3. l \in LocalType /\ l.pc = "done" /\ l.candidates = run[r].candidates
  BY <1>2 DEF LocalType, Steps
<1>4. Tidy(l) /\ "done" \notin Waiting \cup Past
  BY <1>2, <1>3 DEF Tidy, Waiting, Listing, Past
<1> HIDE DEF l
<1>5. Sound(l, mode, day, signals, overlooked')
  BY <1>3, <1>4, SoundBefore
<1>6. fires' \in [Symbols -> Rules \cup {"none", "unseen"}]
  BY <1>1, TypeIs DEF CapsInvariant
<1> QED BY <1>1, <1>3, <1>5, <1>6, CapsRunMoves

\* The rows of a day, when one is added.
LEMMA CountInserts ==
  ASSUME NEW sg \in Records, NEW x \in RowOf(Nat), NEW d \in Nat
  PROVE  /\ CountOf(Append(sg, x), d) <= CountOf(sg, d) + 1
         /\ \A e \in Nat : e # x.created =>
              {i \in DOMAIN Append(sg, x) : Append(sg, x)[i].created = e}
                = {i \in DOMAIN sg : sg[i].created = e}
         /\ x.created >= d =>
              Cardinality({i \in DOMAIN Append(sg, x) : Append(sg, x)[i].created = x.created})
                <= CountOf(Append(sg, x), d)
<1> DEFINE sh == Append(sg, x)
           n  == Len(sg) + 1
           A  == {i \in DOMAIN sg : sg[i].created >= d}
           B  == {i \in DOMAIN sh : sh[i].created >= d}
<1>1. /\ sh \in Records /\ Len(sg) \in Nat /\ DOMAIN sg = 1 .. Len(sg) /\ DOMAIN sh = 1 .. n
      /\ sh[n] = x /\ \A j \in DOMAIN sg : sh[j] = sg[j]
  BY DEF Records
<1> HIDE DEF sh
<1>2. n \in DOMAIN sh /\ n \notin DOMAIN sg /\ DOMAIN sh = DOMAIN sg \cup {n}
  BY <1>1
<1> HIDE DEF n
<1>3. IsFiniteSet(A) /\ IsFiniteSet(B)
  <2>1. IsFiniteSet(DOMAIN sg) /\ IsFiniteSet(DOMAIN sh)
    BY <1>1, CountType
  <2>2. A \in SUBSET DOMAIN sg /\ B \in SUBSET DOMAIN sh
    OBVIOUS
  <2> HIDE DEF A, B
  <2> QED BY <2>1, <2>2, FS_Subset
<1>4. CountOf(sh, d) <= CountOf(sg, d) + 1
  <2>1. B \in SUBSET (A \cup {n})
    BY <1>1, <1>2
  <2> HIDE DEF A, B
  <2>2. IsFiniteSet(A \cup {n}) /\ Cardinality(B) <= Cardinality(A \cup {n})
    BY <1>3, <2>1, FS_AddElement, FS_Subset
  <2>3. Cardinality(A \cup {n}) <= Cardinality(A) + 1
    <3>1. Cardinality(A \cup {n}) = IF n \in A THEN Cardinality(A) ELSE Cardinality(A) + 1
      BY <1>3, FS_AddElement
    <3>2. Cardinality(A) \in Nat
      BY <1>3, FS_CardinalityType
    <3> QED BY <3>1, <3>2
  <2>4. Cardinality(A) \in Nat /\ Cardinality(B) \in Nat /\ Cardinality(A \cup {n}) \in Nat
    BY <1>3, <2>2, FS_CardinalityType
  <2>5. Cardinality(B) <= Cardinality(A) + 1
    BY <2>2, <2>3, <2>4
  <2> QED BY <2>5 DEF CountOf, A, B
<1>5. \A e \in Nat : e # x.created =>
        {i \in DOMAIN sh : sh[i].created = e} = {i \in DOMAIN sg : sg[i].created = e}
  BY <1>1, <1>2
<1>6. ASSUME x.created >= d
      PROVE  Cardinality({i \in DOMAIN sh : sh[i].created = x.created}) <= CountOf(sh, d)
  <2> DEFINE E == {i \in DOMAIN sh : sh[i].created = x.created}
  <2>1. E \in SUBSET B
    BY <1>6
  <2>2. Cardinality(E) <= Cardinality(B)
    <3> HIDE DEF E, B
    <3> QED BY <1>3, <2>1, FS_Subset
  <2> QED BY <2>2 DEF CountOf
<1> QED BY <1>4, <1>5, <1>6 DEF sh

\* A signal takes the room its run had kept for it; a run that overlaps has
\* nothing kept any more.
LEMMA InsertSignalCaps ==
  ASSUME Inductive, CapsInvariant, NEW r \in Runs, InsertSignal(r)
  PROVE  CapsInvariant'
<1>1. PICK c \in run[r].candidates :
        /\ run[r].pc = "proposing" /\ c.quantity > 0
        /\ Goto(r, [run[r] EXCEPT !.candidates = run[r].candidates \ {c}])
        /\ signals' = Append(signals, Row(c))
  BY DEF InsertSignal, NextToPropose, Reviewed, Proposed
<1>2. /\ UNCHANGED <<mode, day, fires, moved>>
      /\ overlooked' = overlooked \cup (IF Overlapped(r) THEN {"overlap"} ELSE {})
  BY DEF InsertSignal
<1>3. run[r] \in LocalType /\ Sound(run[r], mode, day, signals, overlooked) /\ signals \in Records
  BY RunIs
<1>4. TypeOK /\ day \in Nat /\ signals \in Seq(RowType)
  BY TypeIs DEF CapsInvariant
<1> DEFINE C == run[r].candidates
           D == C \ {c}
           x == Row(c)
           l == [run[r] EXCEPT !.candidates = D]
<1>5. /\ C \in SUBSET Candidates /\ IsFiniteSet(C) /\ c \in Candidates
      /\ l \in LocalType /\ l.pc = "proposing" /\ l.candidates = D
  BY <1>1, <1>3 DEF LocalType, Sound, Tidy
<1>6. /\ x \in RowType /\ x.symbol = c.symbol /\ x.side = c.side /\ x.quantity = c.quantity
      /\ x.status = "pending" /\ x.created = day
  BY <1>1, <1>4, <1>5 DEF Row, RowType, Candidates, Statuses, AllRules
<1>7. x \in RowOf(Nat)
  BY <1>6 DEF RowType, RowOf
<1>8. Commits(x) = Commits(c) /\ Value(x) = Value(c)
  BY <1>6 DEF Commits, Value
<1>9. /\ Worth(Buys(C)) = Worth(Buys(D)) + Commits(c) /\ Commits(c) \in Nat /\ Value(c) \in Nat
      /\ Cardinality(D) + 1 = Cardinality(C) /\ IsFiniteSet(D)
      /\ Worth(Buys(D)) \in Nat /\ Cardinality(D) \in Nat
  <2>1. D \in SUBSET Candidates /\ IsFiniteSet(D)
    BY <1>5, FS_RemoveElement
  <2> QED BY <1>5, <2>1, BuysAre
<1>10. /\ MaxExposure \in Nat /\ MaxPosition \in Nat /\ MaxDailyTrades \in Nat
       /\ TotalOf(mode, signals) \in Nat
       /\ \A s \in Symbols : ExposureOf(mode, signals, s) \in Nat
  BY <1>3, ReachType, GateAssumption
<1> HIDE DEF l, x
<1>11. /\ TotalOf(mode, signals') = TotalOf(mode, signals) + Commits(c)
       /\ \A s \in Symbols :
            ExposureOf(mode, signals', s)
              = ExposureOf(mode, signals, s) + IF s = c.symbol THEN Commits(c) ELSE 0
  <2>1. signals' = Append(signals, x)
    BY <1>1 DEF x
  <2> QED BY <1>3, <1>6, <1>7, <1>8, <2>1, ExposureInserts
<1>12. signals' \in Seq(RowType) /\ run' \in [Runs -> LocalType]
       /\ \A q \in Runs : run'[q] = IF q = r THEN l ELSE run[q]
  <2>1. signals' = Append(signals, x) /\ run' = [run EXCEPT ![r] = l]
    BY <1>1 DEF x, l, Goto
  <2>2. run \in [Runs -> LocalType]
    BY <1>4, TypeIs
  <2> QED BY <1>4, <1>5, <1>6, <2>1, <2>2
<1>13. TypeOK'
  BY <1>2, <1>4, <1>12, TypeIs, TypeIsThen DEF Oversights
<1>14. overlooked \subseteq overlooked'
  BY <1>2
<1>15. ASSUME overlooked' \subseteq {"pending"}
       PROVE  TotalCovers(l, mode, signals') /\ TotalOf(mode, signals') <= MaxExposure
  <2>1. /\ Buys(C) # {} => TotalOf(mode, signals) + Worth(Buys(C)) <= MaxExposure
        /\ TotalOf(mode, signals) <= MaxExposure
    BY <1>1, <1>3, <1>14, <1>15, CoveredIs DEF Sound, TotalCovers, Capped, CapsInvariant
  <2>2. Buys(D) # {} \/ c.side = "buy" => Buys(C) # {}
    BY DEF Buys
  <2>3. TotalOf(mode, signals') <= MaxExposure
    <3>1. CASE c.side = "buy"
      <4> HIDE DEF C, D
      <4> QED BY <1>9, <1>10, <1>11, <2>1, <2>2, <3>1
    <3>2. CASE c.side # "buy"
      BY <1>10, <1>11, <2>1, <3>2 DEF Commits
    <3> QED BY <3>1, <3>2
  <2>4. Buys(D) # {} => TotalOf(mode, signals') + Worth(Buys(D)) <= MaxExposure
    <3> HIDE DEF C, D
    <3> QED BY <1>9, <1>10, <1>11, <2>1, <2>2
  <2> QED BY <1>5, <2>3, <2>4 DEF TotalCovers
<1>16. ASSUME overlooked' = {}
       PROVE  /\ EachCovers(l, mode, signals')
              /\ \A s \in Symbols : ExposureOf(mode, signals', s) <= MaxPosition
  <2>1. /\ \A d \in C : d.side = "buy" =>
             ExposureOf(mode, signals, d.symbol) + Value(d) <= MaxPosition
        /\ \A s \in Symbols : ExposureOf(mode, signals, s) <= MaxPosition
        /\ \A d \in D : d.symbol # c.symbol /\ d.symbol \in Symbols
    BY <1>1, <1>3, <1>5, <1>14, <1>16, CoveredIs
       DEF Sound, EachCovers, Capped, CapsInvariant, Tidy, Candidates
  <2>2. \A d \in D : d.side = "buy" =>
          ExposureOf(mode, signals', d.symbol) + Value(d) <= MaxPosition
    <3>1. \A d \in D : ExposureOf(mode, signals', d.symbol) = ExposureOf(mode, signals, d.symbol)
      BY <1>10, <1>11, <2>1
    <3> QED BY <2>1, <3>1
  <2>3. \A s \in Symbols : ExposureOf(mode, signals', s) <= MaxPosition
    <3> SUFFICES ASSUME NEW s \in Symbols PROVE ExposureOf(mode, signals', s) <= MaxPosition
      OBVIOUS
    <3>1. CASE s = c.symbol /\ c.side = "buy"
      BY <1>11, <2>1, <3>1 DEF Commits
    <3>2. CASE ~ (s = c.symbol /\ c.side = "buy")
      <4>1. ExposureOf(mode, signals', s) = ExposureOf(mode, signals, s) + 0
        BY <1>11, <3>2 DEF Commits
      <4> QED BY <1>10, <2>1, <4>1
    <3> QED BY <3>1, <3>2
  <2> QED BY <1>5, <2>2, <2>3 DEF EachCovers
<1>17. ASSUME "overlap" \notin overlooked'
       PROVE  /\ SlotsOf(l, signals', day)
              /\ \A d \in 1 .. MaxDay :
                   Cardinality({i \in DOMAIN signals' : signals'[i].created = d}) <= MaxDailyTrades
  <2>1. PICK d \in 0 .. day : CountOf(signals, d) + Cardinality(C) <= MaxDailyTrades
    BY <1>1, <1>3, <1>14, <1>17 DEF Sound, SlotsOf
  <2>2. d \in Nat /\ day >= d
    BY <1>4
  <2>3. signals' = Append(signals, x)
    BY <1>1 DEF x
  <2>4. /\ CountOf(signals', d) <= CountOf(signals, d) + 1
        /\ \A e \in Nat : e # day =>
             {i \in DOMAIN signals' : signals'[i].created = e}
               = {i \in DOMAIN signals : signals[i].created = e}
        /\ Cardinality({i \in DOMAIN signals' : signals'[i].created = day}) <= CountOf(signals', d)
    <3>1. /\ CountOf(Append(signals, x), d) <= CountOf(signals, d) + 1
          /\ \A e \in Nat : e # x.created =>
               {i \in DOMAIN Append(signals, x) : Append(signals, x)[i].created = e}
                 = {i \in DOMAIN signals : signals[i].created = e}
          /\ x.created >= d =>
               Cardinality({i \in DOMAIN Append(signals, x) :
                              Append(signals, x)[i].created = x.created})
                 <= CountOf(Append(signals, x), d)
      BY <1>3, <1>7, <2>2, CountInserts
    <3> QED BY <1>6, <2>2, <2>3, <3>1
  <2>5. signals' \in Records
    BY <1>12, TypedRows
  <2>6. CountOf(signals, d) \in Nat /\ CountOf(signals', d) \in Nat
    BY <1>3, <2>5, CountType
  <2>7. CountOf(signals', d) + Cardinality(D) <= MaxDailyTrades
    <3> HIDE DEF C, D
    <3> QED BY <1>9, <1>10, <2>1, <2>4, <2>6
  <2>8. SlotsOf(l, signals', day)
    BY <1>5, <2>7 DEF SlotsOf
  <2>9. ASSUME NEW e \in 1 .. MaxDay
        PROVE  Cardinality({i \in DOMAIN signals' : signals'[i].created = e}) <= MaxDailyTrades
    <3>1. CASE e = day
      <4> DEFINE E == {i \in DOMAIN signals' : signals'[i].created = day}
      <4>1. Cardinality(E) <= CountOf(signals', d) /\ E \in SUBSET DOMAIN signals'
        BY <2>4
      <4>2. Cardinality(E) \in Nat
        <5>1. IsFiniteSet(DOMAIN signals')
          BY <2>5, CountType
        <5> HIDE DEF E
        <5> QED BY <4>1, <5>1, FS_Subset, FS_CardinalityType
      <4>3. Cardinality(E) <= MaxDailyTrades
        <5> HIDE DEF E, C, D
        <5> QED BY <1>9, <1>10, <2>6, <2>7, <4>1, <4>2
      <4> QED BY <3>1, <4>3
    <3>2. CASE e # day
      <4>1. {i \in DOMAIN signals' : signals'[i].created = e}
              = {i \in DOMAIN signals : signals[i].created = e}
        BY <2>4, <3>2
      <4>2. Cardinality({i \in DOMAIN signals : signals[i].created = e}) <= MaxDailyTrades
        BY <1>14, <1>17, CoveredIs DEF Capped, CapsInvariant
      <4> QED BY <4>1, <4>2
    <3> QED BY <3>1, <3>2
  <2> QED BY <2>8, <2>9
<1>18. Capped(mode, signals', overlooked')
  BY <1>15, <1>16, <1>17 DEF Capped
<1>19. Sound(l, mode, day, signals', overlooked')
  <2>1. Tidy(l)
    <3>1. l.candidates \in SUBSET C
      BY <1>5
    <3> QED BY <1>3, <1>5, <3>1, TidySubset DEF Sound, Waiting, Listing
  <2> QED BY <1>5, <1>15, <1>16, <1>17, <2>1 DEF Sound, HeldCover, Waiting
<1>20. ASSUME NEW q \in Runs, q # r PROVE Sound(run[q], mode, day, signals', overlooked')
  <2>1. Sound(run[q], mode, day, signals, overlooked) /\ run[q] \in LocalType
    BY RunIs
  <2>2. CASE run[q].pc \in Waiting
    <3>1. \A s \in Symbols :
            ReachOf(mode, signals', s, DecidedOf(mode)) = ReachOf(mode, signals, s, DecidedOf(mode))
      <4> SUFFICES ASSUME NEW s \in Symbols
                   PROVE  ReachOf(mode, signals', s, DecidedOf(mode))
                            = ReachOf(mode, signals, s, DecidedOf(mode))
        OBVIOUS
      <4>1. signals' = Append(signals, x)
        BY <1>1 DEF x
      <4>2. ReachOf(mode, signals', s, DecidedOf(mode))
              = ReachOf(mode, signals, s, DecidedOf(mode)) + Counted(x, "buy", s, DecidedOf(mode))
        BY <1>3, <1>6, <1>7, <4>1, ReachInserts
      <4>3. Counted(x, "buy", s, DecidedOf(mode)) = 0
        BY <1>6 DEF Counted, DecidedOf
      <4>4. ReachOf(mode, signals, s, DecidedOf(mode)) \in Nat
        BY <1>3, ReachType
      <4> QED BY <4>2, <4>3, <4>4
    <3>2. overlooked' \cap {"inflight", "decided"} = {} => HeldCover(run[q], mode, signals')
      BY <1>14, <2>1, <3>1 DEF Sound, HeldCover
    <3> QED BY <2>1, <2>2, <3>2 DEF Sound, TotalCovers, EachCovers, SlotsOf, Waiting
  <2>3. CASE run[q].pc \in Past
    <3>1. "overlap" \in overlooked'
      BY <1>2, <1>20, <2>3 DEF Overlapped, Past
    <3> QED BY <2>1, <2>3, <3>1 DEF Sound, HeldCover, Waiting, Past
  <2>4. CASE run[q].pc \notin Waiting \cup Past
    BY <2>1, <2>4, SoundBefore DEF Sound
  <2> QED BY <2>2, <2>3, <2>4
<1>21. \A q \in Runs : Sound(run'[q], mode, day, signals', overlooked')
  BY <1>12, <1>19, <1>20
<1> QED BY <1>2, <1>13, <1>18, <1>21, CoveredIsThen DEF CapsInvariant

LEMMA RunStepCaps ==
  ASSUME Inductive, CapsInvariant, NEW r \in Runs, RunStep(r)
  PROVE  CapsInvariant'
<1>1. CASE Abort(r)
  <2>1. Goto(r, Ended) /\ UNCHANGED <<mode, day, fires, moved, signals, overlooked>>
    BY <1>1 DEF Abort
  <2> QED BY <2>1, EndCaps
<1> QED
  BY <1>1, StartRunCaps, ReadSettingsCaps, ReadBarsCaps, ReadPositionsCaps,
     EvaluateSymbolsCaps, FindExistingKeysCaps, ReadPendingCaps, ReadQuotesCaps, GateCaps,
     PassOverCaps, InsertSignalCaps, EndRunCaps DEF RunStep
-----------------------------------------------------------------------------
(* The steps around the runs.                                                *)

\* A step that makes nothing more of the record leaves all of it covered; what
\* a waiting run has read it must not outgrow either, unless that is noted.
LEMMA RowsLessCaps ==
  ASSUME CapsInvariant, UNCHANGED <<mode, day, fires, moved, run>>,
         signals' \in Seq(RowType), DOMAIN signals' = DOMAIN signals,
         \A i \in DOMAIN signals : signals'[i].created = signals[i].created,
         overlooked \subseteq overlooked', overlooked' \subseteq overlooked \cup Oversights,
         \A s \in Symbols :
           ReachOf(mode, signals', s, ComingOf(mode)) <= ReachOf(mode, signals, s, ComingOf(mode)),
         \/ "decided" \in overlooked'
         \/ \A s \in Symbols :
              ReachOf(mode, signals', s, DecidedOf(mode))
                <= ReachOf(mode, signals, s, DecidedOf(mode))
         \/ \A r \in Runs : run[r].pc \notin Waiting
  PROVE  CapsInvariant'
<1>1. /\ TypeOK /\ TypeOK'
      /\ signals \in Records /\ signals' \in Records
  BY TypeIs, TypeIsThen, TypedRows DEF CapsInvariant, Oversights
<1>2. /\ \A s \in Symbols : ExposureOf(mode, signals', s) <= ExposureOf(mode, signals, s)
      /\ TotalOf(mode, signals') <= TotalOf(mode, signals)
  BY <1>1, ReachesExposure
<1>3. /\ \A d : CountOf(signals', d) = CountOf(signals, d)
      /\ \A d : {i \in DOMAIN signals' : signals'[i].created = d}
                  = {i \in DOMAIN signals : signals[i].created = d}
  <2>1. \A d : {i \in DOMAIN signals' : signals'[i].created >= d}
                 = {i \in DOMAIN signals : signals[i].created >= d}
    OBVIOUS
  <2>2. \A d : {i \in DOMAIN signals' : signals'[i].created = d}
                 = {i \in DOMAIN signals : signals[i].created = d}
    OBVIOUS
  <2> QED BY <2>1, <2>2 DEF CountOf
<1>4. /\ TotalOf(mode, signals) \in Nat /\ TotalOf(mode, signals') \in Nat
      /\ MaxExposure \in Nat /\ MaxPosition \in Nat
      /\ \A s \in Symbols : /\ ExposureOf(mode, signals, s) \in Nat
                            /\ ExposureOf(mode, signals', s) \in Nat
  BY <1>1, ReachType, GateAssumption
<1>5. Capped(mode, signals', overlooked')
  <2>1. Capped(mode, signals, overlooked')
    BY CoveredIs, CappedWeakens DEF CapsInvariant
  <2>2. TotalOf(mode, signals) <= MaxExposure => TotalOf(mode, signals') <= MaxExposure
    BY <1>2, <1>4
  <2>3. ASSUME \A s \in Symbols : ExposureOf(mode, signals, s) <= MaxPosition
        PROVE  \A s \in Symbols : ExposureOf(mode, signals', s) <= MaxPosition
    BY <1>2, <1>4, <2>3
  <2> QED BY <1>3, <2>1, <2>2, <2>3 DEF Capped
<1>6. ASSUME NEW r \in Runs PROVE Sound(run[r], mode, day, signals', overlooked')
  <2>1. Sound(run[r], mode, day, signals, overlooked') /\ run[r] \in LocalType
    BY RunIs, SoundWeakens
  <2>2. overlooked' \cap {"inflight", "decided"} = {} => HeldCover(run[r], mode, signals')
    <3> SUFFICES ASSUME overlooked' \cap {"inflight", "decided"} = {}, run[r].pc \in Waiting,
                        NEW s \in Symbols
                 PROVE  ReachOf(mode, signals', s, DecidedOf(mode)) <= run[r].held[s]
      BY DEF HeldCover
    <3>1. ReachOf(mode, signals, s, DecidedOf(mode)) <= run[r].held[s]
      BY <2>1 DEF Sound, HeldCover
    <3>2. /\ ReachOf(mode, signals, s, DecidedOf(mode)) \in Nat
          /\ ReachOf(mode, signals', s, DecidedOf(mode)) \in Nat
          /\ run[r].held[s] \in Nat
      BY <1>1, <2>1, ReachType DEF LocalType
    <3>3. ReachOf(mode, signals', s, DecidedOf(mode)) <= ReachOf(mode, signals, s, DecidedOf(mode))
      OBVIOUS
    <3> QED BY <3>1, <3>2, <3>3
  <2>3. overlooked' \subseteq {"pending"} => TotalCovers(run[r], mode, signals')
    <3>1. run[r].committed \in Nat /\ Worth(Buys(run[r].candidates)) \in Nat
      BY <2>1, BuysAre DEF LocalType, Sound, Tidy
    <3>2. TotalOf(mode, signals) <= run[r].committed
            => TotalOf(mode, signals') <= run[r].committed
      BY <1>2, <1>4, <3>1
    <3>3. TotalOf(mode, signals) + Worth(Buys(run[r].candidates)) <= MaxExposure
            => TotalOf(mode, signals') + Worth(Buys(run[r].candidates)) <= MaxExposure
      BY <1>2, <1>4, <3>1
    <3>4. ASSUME NEW s \in Symbols,
                 ReachOf(mode, signals, s, ComingOf(mode)) <= run[r].held[s] + run[r].pending[s]
          PROVE  ReachOf(mode, signals', s, ComingOf(mode)) <= run[r].held[s] + run[r].pending[s]
      <4>1. /\ run[r].held[s] \in Nat /\ run[r].pending[s] \in Nat
            /\ ReachOf(mode, signals, s, ComingOf(mode)) \in Nat
            /\ ReachOf(mode, signals', s, ComingOf(mode)) \in Nat
        BY <1>1, <2>1, ReachType DEF LocalType
      <4>2. ReachOf(mode, signals', s, ComingOf(mode)) <= ReachOf(mode, signals, s, ComingOf(mode))
        OBVIOUS
      <4> QED BY <3>4, <4>1, <4>2
    <3> QED BY <2>1, <3>2, <3>3, <3>4 DEF Sound, TotalCovers
  <2>4. overlooked' = {} => EachCovers(run[r], mode, signals')
    <3> SUFFICES ASSUME overlooked' = {}, NEW c \in run[r].candidates, c.side = "buy"
                 PROVE  /\ run[r].pc \in {"quoting", "read"} =>
                             ExposureOf(mode, signals', c.symbol)
                               <= Price[c.symbol] * run[r].held[c.symbol]
                        /\ run[r].pc = "proposing" =>
                             ExposureOf(mode, signals', c.symbol) + Value(c) <= MaxPosition
      BY DEF EachCovers
    <3>1. /\ run[r].pc \in {"quoting", "read"} =>
               ExposureOf(mode, signals, c.symbol) <= Price[c.symbol] * run[r].held[c.symbol]
          /\ run[r].pc = "proposing" =>
               ExposureOf(mode, signals, c.symbol) + Value(c) <= MaxPosition
      BY <2>1 DEF Sound, EachCovers
    <3>2. /\ c.symbol \in Symbols /\ Value(c) \in Nat
          /\ Price[c.symbol] \in Nat /\ run[r].held[c.symbol] \in Nat
      BY <2>1, BuysAre, GateAssumption DEF LocalType, Candidates, Sound, Tidy
    <3>3. Price[c.symbol] * run[r].held[c.symbol] \in Nat
      BY <3>2
    <3> QED BY <1>2, <1>4, <3>1, <3>2, <3>3
  <2>5. "overlap" \notin overlooked' => SlotsOf(run[r], signals', day)
    BY <1>3, <2>1 DEF Sound, SlotsOf
  <2> QED BY <2>1, <2>2, <2>3, <2>4, <2>5 DEF Sound
<1> QED BY <1>1, <1>5, <1>6, CoveredIsThen DEF CapsInvariant

\* The row of one signal after a decision, an execution or a fill.
RowMoves(i, status, stamp) ==
  \/ signals' = [signals EXCEPT ![i].status = status]
  \/ signals' = [signals EXCEPT ![i].status = status, ![i].stamp = stamp]

LEMMA RowBecomes ==
  ASSUME TypeOK, NEW i \in DOMAIN signals, NEW status \in Statuses, NEW stamp \in Nat,
         RowMoves(i, status, stamp)
  PROVE  /\ signals' \in Seq(RowType) /\ DOMAIN signals' = DOMAIN signals
         /\ \A j \in DOMAIN signals : j # i => signals'[j] = signals[j]
         /\ signals'[i].status = status
         /\ \A j \in DOMAIN signals :
              /\ signals'[j].symbol = signals[j].symbol /\ signals'[j].side = signals[j].side
              /\ signals'[j].quantity = signals[j].quantity
              /\ signals'[j].created = signals[j].created
<1>1. /\ signals \in Seq(RowType) /\ Len(signals) \in Nat /\ DOMAIN signals = 1 .. Len(signals)
      /\ \A j \in DOMAIN signals : signals[j] \in RowType
  BY TypeIs, TypedRows
<1>2. PICK y \in RowType :
        /\ y.status = status /\ y.symbol = signals[i].symbol /\ y.side = signals[i].side
        /\ y.quantity = signals[i].quantity /\ y.created = signals[i].created
        /\ signals' = [signals EXCEPT ![i] = y]
  <2>1. CASE signals' = [signals EXCEPT ![i].status = status]
    <3> DEFINE y == [signals[i] EXCEPT !.status = status]
    <3>1. y \in RowType /\ signals' = [signals EXCEPT ![i] = y]
      BY <1>1, <2>1 DEF RowType
    <3> QED BY <1>1, <3>1 DEF RowType
  <2>2. CASE signals' = [signals EXCEPT ![i].status = status, ![i].stamp = stamp]
    <3> DEFINE y == [signals[i] EXCEPT !.status = status, !.stamp = stamp]
    <3>1. y \in RowType
      BY <1>1 DEF RowType
    <3>2. signals' = [signals EXCEPT ![i] = y]
      BY <1>1, <2>2
    <3> QED BY <1>1, <3>1, <3>2 DEF RowType
  <2> QED BY <2>1, <2>2 DEF RowMoves
<1>3. /\ DOMAIN signals' = DOMAIN signals /\ signals'[i] = y
      /\ \A j \in DOMAIN signals : j # i => signals'[j] = signals[j]
  BY <1>1, <1>2
<1>4. signals' \in Seq(RowType)
  <2>1. signals' = [signals EXCEPT ![i] = y]
    BY <1>2
  <2> QED BY <1>1, <1>2, <2>1
<1> QED BY <1>2, <1>3, <1>4

LEMMA SettlesCaps ==
  ASSUME CapsInvariant, NEW i \in DOMAIN signals, NEW status \in Statuses, NEW stamp \in Nat,
         RowMoves(i, status, stamp),
         UNCHANGED <<mode, day, fires, moved, run, overlooked>>,
         \/ signals[i].status \in {"pending", "approved"} /\ status = "dropped"
         \/ signals[i].status = "approved" /\ status = "traded"
         \/ signals[i].status = "traded" /\ signals[i].side = "buy" /\ status = "open"
  PROVE  CapsInvariant'
<1>1. /\ signals' \in Seq(RowType) /\ DOMAIN signals' = DOMAIN signals
      /\ \A j \in DOMAIN signals : j # i => signals'[j] = signals[j]
      /\ signals'[i].status = status
      /\ \A j \in DOMAIN signals :
           /\ signals'[j].symbol = signals[j].symbol /\ signals'[j].side = signals[j].side
           /\ signals'[j].quantity = signals[j].quantity
           /\ signals'[j].created = signals[j].created
  BY RowBecomes DEF CapsInvariant
<1>2. signals \in Records /\ signals' \in Records
  BY <1>1, TypeIs, TypedRows DEF CapsInvariant
<1>3. ASSUME NEW X \in {ComingOf(mode), DecidedOf(mode)}, NEW s
      PROVE  ReachOf(mode, signals', s, X) <= ReachOf(mode, signals, s, X)
  <2>1. Settles(signals[i], signals'[i], X)
    BY <1>1 DEF Settles
  <2> QED BY <1>1, <1>2, <2>1, ReachSettles
<1> QED BY <1>1, <1>3, RowsLessCaps

\* A buy that is approved leaves the pending signals; a run that has read the
\* positions but not them sees it in neither, which is noted.
LEMMA ApproveCaps ==
  ASSUME CapsInvariant, NEW i \in DOMAIN signals, Approve(i)
  PROVE  CapsInvariant'
<1>1. /\ signals' = [signals EXCEPT ![i].status = "approved"] /\ signals[i].status = "pending"
      /\ overlooked' = overlooked \cup (IF Decided(i) THEN {"decided"} ELSE {})
      /\ UNCHANGED <<mode, day, fires, moved, run>>
  BY DEF Approve, Become
<1>2. /\ signals' \in Seq(RowType) /\ DOMAIN signals' = DOMAIN signals
      /\ \A j \in DOMAIN signals : j # i => signals'[j] = signals[j]
      /\ signals'[i].status = "approved"
      /\ \A j \in DOMAIN signals :
           /\ signals'[j].symbol = signals[j].symbol /\ signals'[j].side = signals[j].side
           /\ signals'[j].quantity = signals[j].quantity
           /\ signals'[j].created = signals[j].created
  <2>1. "approved" \in Statuses /\ 0 \in Nat
    BY DEF Statuses
  <2> QED BY <1>1, <2>1, RowBecomes DEF CapsInvariant, RowMoves
<1>3. signals \in Records /\ signals' \in Records
  BY <1>2, TypeIs, TypedRows DEF CapsInvariant
<1>4. ASSUME NEW X \in {ComingOf(mode), DecidedOf(mode)}, NEW s,
             signals[i].side # "buy" \/ "pending" \in X
      PROVE  ReachOf(mode, signals', s, X) <= ReachOf(mode, signals, s, X)
  <2>1. Settles(signals[i], signals'[i], X)
    BY <1>1, <1>2, <1>4 DEF Settles
  <2> QED BY <1>2, <1>3, <2>1, ReachSettles
<1>5. \A s : ReachOf(mode, signals', s, ComingOf(mode)) <= ReachOf(mode, signals, s, ComingOf(mode))
  BY <1>4 DEF ComingOf
<1>6. \/ "decided" \in overlooked'
      \/ \A s : ReachOf(mode, signals', s, DecidedOf(mode))
                  <= ReachOf(mode, signals, s, DecidedOf(mode))
      \/ \A r \in Runs : run[r].pc \notin Waiting
  <2>1. CASE signals[i].side # "buy"
    BY <1>4, <2>1
  <2>2. CASE signals[i].side = "buy"
    BY <1>1, <2>2 DEF Decided, Waiting
  <2> QED BY <2>1, <2>2
<1>7. overlooked \subseteq overlooked' /\ overlooked' \subseteq overlooked \cup Oversights
  BY <1>1 DEF Oversights
<1> QED BY <1>1, <1>2, <1>5, <1>6, <1>7, RowsLessCaps

\* Every row of the record may change at once.
LEMMA RowsAtOnce ==
  ASSUME TypeOK, signals' = [j \in DOMAIN signals |-> signals'[j]],
         \A j \in DOMAIN signals : signals'[j] \in RowType
  PROVE  signals' \in Seq(RowType) /\ DOMAIN signals' = DOMAIN signals
<1>1. Len(signals) \in Nat /\ DOMAIN signals = 1 .. Len(signals)
  BY TypeIs, TypedRows
<1>2. signals' \in [1 .. Len(signals) -> RowType]
  BY <1>1
<1> QED BY <1>1, <1>2, FromFunction

LEMMA CloseLotsCaps ==
  ASSUME CapsInvariant, NEW i \in DOMAIN signals, CloseLots(i)
  PROVE  CapsInvariant'
<1>1. PICK chosen \in Selections(i) :
        signals' = [j \in DOMAIN signals |->
          IF j \in chosen THEN [signals[j] EXCEPT !.status = "closed"]
          ELSE IF j = i THEN [signals[j] EXCEPT !.status = "filled"] ELSE signals[j]]
  BY DEF CloseLots
<1>2. /\ signals[i].status = "traded" /\ signals[i].side = "sell"
      /\ UNCHANGED <<mode, day, fires, moved, run, overlooked>>
  BY DEF CloseLots
<1>3. \A j \in chosen : signals[j].side = "buy" /\ signals[j].status = "open"
  BY DEF Selections, Lots, Of, Rows
<1>4. TypeOK /\ \A j \in DOMAIN signals : signals[j] \in RowType
  BY TypeIs, TypedRows DEF CapsInvariant
<1>5. ASSUME NEW j \in DOMAIN signals
      PROVE  /\ signals'[j] \in RowType
             /\ signals'[j].symbol = signals[j].symbol /\ signals'[j].side = signals[j].side
             /\ signals'[j].quantity = signals[j].quantity
             /\ signals'[j].created = signals[j].created
             /\ \/ signals'[j].status = signals[j].status
                \/ /\ signals[j].side = "buy" /\ signals[j].status = "open"
                   /\ signals'[j].status = "closed"
                \/ /\ signals[j].side = "sell" /\ signals[j].status = "traded"
                   /\ signals'[j].status = "filled"
  <2>1. signals[j] \in RowType
    BY <1>4
  <2>2. signals'[j] = IF j \in chosen THEN [signals[j] EXCEPT !.status = "closed"]
                      ELSE IF j = i THEN [signals[j] EXCEPT !.status = "filled"] ELSE signals[j]
    BY <1>1
  <2>3. CASE j \in chosen
    BY <1>3, <2>1, <2>2, <2>3 DEF RowType, Statuses
  <2>4. CASE j \notin chosen
    BY <1>2, <2>1, <2>2, <2>4 DEF RowType, Statuses
  <2> QED BY <2>3, <2>4
<1>6. signals' \in Seq(RowType) /\ DOMAIN signals' = DOMAIN signals
  <2>1. signals' = [j \in DOMAIN signals |-> signals'[j]]
    BY <1>1
  <2> QED BY <1>4, <1>5, <2>1, RowsAtOnce
<1>7. signals \in Records /\ signals' \in Records
  BY <1>6, TypeIs, TypedRows DEF CapsInvariant
<1>8. ASSUME NEW X \in {ComingOf(mode), DecidedOf(mode)}, NEW s
      PROVE  ReachOf(mode, signals', s, X) <= ReachOf(mode, signals, s, X)
  BY <1>5, <1>6, <1>7, ReachCloses
<1> QED BY <1>2, <1>5, <1>6, <1>8, RowsLessCaps

LEMMA MarkCaps ==
  ASSUME CapsInvariant, Mark
  PROVE  CapsInvariant'
<1>1. /\ signals' = [i \in DOMAIN signals |->
           IF signals[i].status = "open" THEN [signals[i] EXCEPT !.stamp = day] ELSE signals[i]]
      /\ UNCHANGED <<mode, day, fires, moved, run, overlooked>>
  BY DEF Mark
<1>2. TypeOK /\ day \in Nat /\ \A j \in DOMAIN signals : signals[j] \in RowType
  BY TypeIs, TypedRows DEF CapsInvariant
<1>3. ASSUME NEW j \in DOMAIN signals
      PROVE  /\ signals'[j] \in RowType
             /\ signals'[j].symbol = signals[j].symbol /\ signals'[j].side = signals[j].side
             /\ signals'[j].quantity = signals[j].quantity
             /\ signals'[j].created = signals[j].created
             /\ signals'[j].status = signals[j].status
  <2>1. signals[j] \in RowType
    BY <1>2
  <2>2. signals'[j] = IF signals[j].status = "open" THEN [signals[j] EXCEPT !.stamp = day]
                      ELSE signals[j]
    BY <1>1
  <2> QED BY <1>2, <2>1, <2>2 DEF RowType
<1>4. signals' \in Seq(RowType) /\ DOMAIN signals' = DOMAIN signals
  <2>1. signals' = [j \in DOMAIN signals |-> signals'[j]]
    BY <1>1
  <2> QED BY <1>2, <1>3, <2>1, RowsAtOnce
<1>5. signals \in Records /\ signals' \in Records
  BY <1>4, TypeIs, TypedRows DEF CapsInvariant
<1>6. ASSUME NEW X \in {ComingOf(mode), DecidedOf(mode)}, NEW s
      PROVE  ReachOf(mode, signals', s, X) <= ReachOf(mode, signals, s, X)
  BY <1>3, <1>4, <1>5, ReachCloses
<1> QED BY <1>1, <1>3, <1>4, <1>6, RowsLessCaps

LEMMA SignalStepCaps ==
  ASSUME CapsInvariant, NEW i \in DOMAIN signals, SignalStep(i)
  PROVE  CapsInvariant'
<1>1. /\ {"dropped", "traded", "open"} \subseteq Statuses /\ day \in Nat /\ 0 \in Nat
  BY TypeIs DEF CapsInvariant, Statuses
<1>2. CASE Drop(i)
  <2>1. /\ signals' = [signals EXCEPT ![i].status = "dropped"]
        /\ signals[i].status \in {"pending", "approved"}
        /\ UNCHANGED <<mode, day, fires, moved, run, overlooked>>
    BY <1>2 DEF Drop, Become
  <2> QED BY <1>1, <2>1, SettlesCaps DEF RowMoves
<1>3. CASE Trade(i)
  <2>1. /\ signals' = [signals EXCEPT ![i].status = "traded"]
        /\ signals[i].status = "approved"
        /\ UNCHANGED <<mode, day, fires, moved, run, overlooked>>
    BY <1>3 DEF Trade, Become
  <2> QED BY <1>1, <2>1, SettlesCaps DEF RowMoves
<1>4. CASE OpenLot(i)
  <2>1. /\ signals' = [signals EXCEPT ![i].status = "open", ![i].stamp = day]
        /\ signals[i].status = "traded" /\ signals[i].side = "buy"
        /\ UNCHANGED <<mode, day, fires, moved, run, overlooked>>
    BY <1>4 DEF OpenLot
  <2> QED BY <1>1, <2>1, SettlesCaps DEF RowMoves
<1> QED BY <1>2, <1>3, <1>4, ApproveCaps, CloseLotsCaps DEF SignalStep

\* Days and bars touch nothing that is counted.
LEMMA AroundCaps ==
  ASSUME CapsInvariant, UNCHANGED <<mode, signals, run, overlooked>>,
         day' \in Nat, day <= day',
         fires' \in [Symbols -> Rules \cup {"none", "unseen"}], moved' \subseteq Symbols \X Nat
  PROVE  CapsInvariant'
<1>1. TypeOK' /\ day \in Nat
  BY TypeIs, TypeIsThen DEF CapsInvariant
<1>2. 0 .. day \subseteq 0 .. day'
  BY <1>1
<1>3. ASSUME NEW r \in Runs PROVE Sound(run[r], mode, day', signals, overlooked)
  BY <1>2, RunIs DEF Sound, SlotsOf
<1>4. Capped(mode, signals, overlooked)
  BY CoveredIs DEF CapsInvariant
<1> QED BY <1>1, <1>3, <1>4, CoveredIsThen DEF CapsInvariant

LEMMA CapsStep ==
  ASSUME Inductive, CapsInvariant, [Next]_vars
  PROVE  CapsInvariant'
<1>1. /\ mode \in {"paper", "live"} /\ day \in Nat /\ moved \subseteq Symbols \X Nat
      /\ fires \in [Symbols -> Rules \cup {"none", "unseen"}]
  BY TypeIs DEF CapsInvariant
<1>2. CASE NewDay
  <2>1. /\ UNCHANGED <<mode, moved, signals, run, overlooked>>
        /\ day' = day + 1 /\ fires' = Unseen
    BY <1>2 DEF NewDay
  <2>2. fires' \in [Symbols -> Rules \cup {"none", "unseen"}]
    BY <2>1 DEF Unseen
  <2>3. day' \in Nat /\ day <= day' /\ moved' \subseteq Symbols \X Nat
    BY <1>1, <2>1
  <2> QED BY <2>1, <2>2, <2>3, AroundCaps
<1>3. CASE \E s \in Symbols : BarMoves(s)
  <2>1. PICK s \in Symbols : BarMoves(s)
    BY <1>3
  <2>2. /\ UNCHANGED <<mode, day, signals, run, overlooked>> /\ moved' = moved \cup {<<s, day>>}
        /\ \E rule \in (Rules \cup {"none"}) : fires' = [fires EXCEPT ![s] = rule]
    BY <2>1 DEF BarMoves
  <2>3. fires' \in [Symbols -> Rules \cup {"none", "unseen"}] /\ moved' \subseteq Symbols \X Nat
    BY <1>1, <2>2
  <2>4. day' \in Nat /\ day <= day'
    BY <1>1, <2>2
  <2> QED BY <2>2, <2>3, <2>4, AroundCaps
<1>4. CASE UNCHANGED vars
  <2>1. /\ UNCHANGED <<mode, signals, run, overlooked>> /\ day' = day /\ fires' = fires
        /\ moved' = moved
    BY <1>4 DEF vars
  <2>2. day' \in Nat /\ day <= day'
    BY <1>1, <2>1
  <2> QED BY <1>1, <2>1, <2>2, AroundCaps
<1> QED BY <1>2, <1>3, <1>4, RunStepCaps, SignalStepCaps, MarkCaps DEF Next

-----------------------------------------------------------------------------
(* The start.                                                                *)

\* A single row, bought and open: what it commits is its shares at the price.
LEMMA OneRow ==
  ASSUME NEW x \in RowOf(Nat), x.side = "buy", x.status = "open", NEW md \in {"paper", "live"}
  PROVE  /\ \A s \in Symbols :
              ExposureOf(md, <<x>>, s) = IF s = x.symbol THEN Price[s] * x.quantity ELSE 0
         /\ TotalOf(md, <<x>>) = Price[x.symbol] * x.quantity
<1> DEFINE sg == <<x>>
           q(side, s, X) == IF side = "buy" /\ s = x.symbol /\ "open" \in X THEN x.quantity ELSE 0
<1>1. sg \in Records /\ DOMAIN sg = {1} /\ sg[1] = x /\ x.quantity \in Nat /\ x.symbol \in Symbols
  BY DEF Records, RowOf
<1>2. ASSUME NEW side, NEW s, NEW X PROVE Quantity(sg, side, s, X) = q(side, s, X)
  <2>1. Quantity(sg, side, s, X) = SharesOf(sg, Ids(sg, side, s, X) \ {1}) + Counted(x, side, s, X)
    <3> HIDE DEF sg
    <3> QED BY <1>1, QuantitySplit
  <2>2. Ids(sg, side, s, X) \ {1} = {}
    BY <1>1 DEF Ids
  <2>3. SharesOf(sg, Ids(sg, side, s, X) \ {1}) = 0
    BY <2>2, SumOfNone DEF SharesOf
  <2>4. Counted(x, side, s, X) = q(side, s, X)
    BY DEF Counted
  <2> HIDE DEF sg, q
  <2>5. q(side, s, X) \in Nat
    BY <1>1 DEF q
  <2> QED BY <2>1, <2>3, <2>4, <2>5
<1>3. ASSUME NEW s \in Symbols
      PROVE  ReachOf(md, sg, s, ComingOf(md)) = IF s = x.symbol THEN x.quantity ELSE 0
  <2>1. Quantity(sg, "buy", s, ComingOf(md)) = 0
    BY <1>2 DEF ComingOf
  <2>2. HeldOf(md, sg, s) = IF s = x.symbol THEN x.quantity ELSE 0
    <3>1. CASE md = "paper"
      BY <1>2, <3>1 DEF HeldOf
    <3>2. CASE md = "live"
      <4>1. /\ Quantity(sg, "buy", s, {"traded", "open", "closed"})
                 = IF s = x.symbol THEN x.quantity ELSE 0
            /\ Quantity(sg, "sell", s, {"traded", "filled"}) = 0
        BY <1>2
      <4> QED BY <1>1, <3>2, <4>1 DEF HeldOf
    <3> QED BY <3>1, <3>2
  <2> QED BY <1>1, <2>1, <2>2 DEF ReachOf
<1>4. ASSUME NEW s \in Symbols
      PROVE  ExposureOf(md, sg, s) = IF s = x.symbol THEN Price[s] * x.quantity ELSE 0
  <2>1. Price[s] \in Nat /\ Price[s] * 0 = 0
    BY GateAssumption
  <2>2. ExposureOf(md, sg, s) = Price[s] * (IF s = x.symbol THEN x.quantity ELSE 0)
    BY <1>3 DEF ExposureOf
  <2> HIDE DEF sg
  <2>3. CASE s = x.symbol
    BY <2>2, <2>3
  <2>4. CASE s # x.symbol
    BY <2>1, <2>2, <2>4
  <2> QED BY <2>3, <2>4
<1>5. TotalOf(md, sg) = Price[x.symbol] * x.quantity
  <2> DEFINE h == [s \in Symbols |-> ExposureOf(md, sg, s)]
  <2>1. IsFiniteSet(Symbols) /\ Price[x.symbol] * x.quantity \in Nat
    <3>1. IsFiniteSet(Symbols)
      BY GateAssumption, FS_Interval DEF Symbols
    <3>2. Price[x.symbol] \in Nat
      BY <1>1, GateAssumption
    <3> HIDE DEF sg
    <3> QED BY <1>1, <3>1, <3>2
  <2>2. \A s \in Symbols : h[s] = IF s = x.symbol THEN Price[x.symbol] * x.quantity ELSE 0
    <3> SUFFICES ASSUME NEW s \in Symbols
                 PROVE  ExposureOf(md, sg, s)
                          = IF s = x.symbol THEN Price[x.symbol] * x.quantity ELSE 0
      OBVIOUS
    <3> HIDE DEF sg
    <3>1. CASE s = x.symbol
      BY <1>4, <3>1
    <3>2. CASE s # x.symbol
      BY <1>4, <3>2
    <3> QED BY <3>1, <3>2
  <2>3. \A s \in Symbols : h[s] \in Nat
    BY <2>1, <2>2
  <2>4. \A s \in Symbols \ {x.symbol} : h[s] = 0
    BY <2>2
  <2>5. h[x.symbol] = Price[x.symbol] * x.quantity
    BY <1>1, <2>2
  <2>6. TotalOf(md, sg) = SumFunctionOnSet(h, Symbols)
    BY DEF TotalOf
  <2> HIDE DEF h, sg
  <2>7. SumFunctionOnSet(h, Symbols) = h[x.symbol]
    <3>1. {x.symbol} \in SUBSET Symbols
      BY <1>1
    <3>2. SumFunctionOnSet(h, Symbols) = SumFunctionOnSet(h, {x.symbol})
      BY <2>1, <2>3, <2>4, <3>1, SumOfPart
    <3> QED BY <1>1, <2>3, <3>2, SumOfOne
  <2> QED BY <2>5, <2>6, <2>7
<1> QED BY <1>4, <1>5

\* The same of no row at all.
LEMMA NoRow ==
  ASSUME NEW md \in {"paper", "live"}
  PROVE  /\ \A s \in Symbols : ExposureOf(md, <<>>, s) = 0
         /\ TotalOf(md, <<>>) = 0
<1>1. \A side, s, X : Quantity(<<>>, side, s, X) = 0
  <2>1. \A side, s, X : Ids(<<>>, side, s, X) = {}
    BY DEF Ids
  <2> QED BY <2>1, QuantityOfNone
<1>2. ASSUME NEW s \in Symbols PROVE ExposureOf(md, <<>>, s) = 0
  <2>1. HeldOf(md, <<>>, s) = 0
    BY <1>1 DEF HeldOf
  <2>2. ReachOf(md, <<>>, s, ComingOf(md)) = 0
    BY <1>1, <2>1 DEF ReachOf
  <2> QED BY <2>2, GateAssumption DEF ExposureOf
<1>3. TotalOf(md, <<>>) = 0
  <2> DEFINE h == [s \in Symbols |-> ExposureOf(md, <<>>, s)]
  <2>1. IsFiniteSet(Symbols)
    BY GateAssumption, FS_Interval DEF Symbols
  <2>2. \A s \in Symbols : h[s] \in Nat /\ h[s] = 0
    BY <1>2
  <2>3. TotalOf(md, <<>>) = SumFunctionOnSet(h, Symbols)
    BY DEF TotalOf
  <2> HIDE DEF h
  <2>4. SumFunctionOnSet(h, Symbols) = SumFunctionOnSet(h, {})
    BY <2>1, <2>2, SumOfPart
  <2> QED BY <2>3, <2>4, SumOfNone
<1> QED BY <1>2, <1>3

LEMMA InitCaps == Init => CapsInvariant
<1> SUFFICES ASSUME Init PROVE CapsInvariant
  OBVIOUS
<1>1. /\ mode \in {"paper", "live"} /\ day = 1 /\ fires = Unseen /\ moved = {}
      /\ run = [r \in Runs |-> NotStarted] /\ overlooked = {}
  BY DEF Init
<1>2. /\ MaxExposure \in Nat /\ MaxPosition \in Nat /\ MaxDailyTrades \in Nat
  BY GateAssumption
<1>3. /\ signals \in Seq(RowType)
      /\ \A i \in DOMAIN signals : signals[i].created = 0
      /\ TotalOf(mode, signals) <= MaxExposure
      /\ \A s \in Symbols : ExposureOf(mode, signals, s) <= MaxPosition
  <2>1. CASE signals = <<>>
    BY <1>1, <1>2, <2>1, NoRow
  <2>2. CASE signals # <<>>
    <3>1. PICK s \in Opened, rule \in EntryRules : Size[s] > 0 /\ signals = <<OldLot(s, rule)>>
      BY <2>2 DEF Init
    <3> DEFINE x == OldLot(s, rule)
    <3>2. s \in Symbols /\ Size[s] \in Nat \ {0} /\ rule \in AllRules
      BY <3>1, GateAssumption, PipelineAssumption DEF AllRules, Rules
    <3>3. /\ x \in RowType /\ x.created = 0 /\ x.side = "buy" /\ x.status = "open"
          /\ x.symbol = s /\ x.quantity = Size[s]
      BY <3>2 DEF OldLot, RowType, Statuses
    <3>4. x \in RowOf(Nat)
      BY <3>3 DEF RowType, RowOf
    <3> HIDE DEF x
    <3>5. signals = <<x>>
      BY <3>1 DEF x
    <3>6. Passes(x, [position |-> Zero], [today |-> 0, committed |-> 0])
      <4>1. 1 \in DOMAIN signals /\ signals[1] = x
        BY <3>5
      <4> QED BY <4>1 DEF Init
    <3>7. Value(x) = Price[s] * Size[s] /\ Value(x) \in Nat
      BY <3>2, <3>3, GateAssumption DEF Value
    <3>8. Value(x) <= MaxPosition /\ Value(x) <= MaxExposure
      <4>1. Zero[x.symbol] + Value(x) <= MaxPosition /\ 0 + Value(x) <= MaxExposure
        BY <3>3, <3>6 DEF Passes
      <4>2. Zero[x.symbol] = 0
        BY <3>2, <3>3 DEF Zero
      <4> QED BY <3>7, <4>1, <4>2
    <3>9. /\ \A t \in Symbols :
               ExposureOf(mode, signals, t) = IF t = s THEN Price[t] * Size[s] ELSE 0
          /\ TotalOf(mode, signals) = Price[s] * Size[s]
      BY <1>1, <3>3, <3>4, <3>5, OneRow
    <3>10. \A t \in Symbols : ExposureOf(mode, signals, t) <= MaxPosition
      <4>1. \A t \in Symbols : ExposureOf(mode, signals, t) = IF t = s THEN Value(x) ELSE 0
        BY <3>7, <3>9
      <4> QED BY <1>2, <3>8, <4>1
    <3>11. signals \in Seq(RowType) /\ \A i \in DOMAIN signals : signals[i].created = 0
      BY <3>3, <3>5
    <3> QED BY <3>7, <3>8, <3>9, <3>10, <3>11
  <2> QED BY <2>1, <2>2
<1>4. TypeOK
  <2>1. Unseen \in [Symbols -> Rules \cup {"none", "unseen"}]
    BY DEF Unseen
  <2> QED BY <1>1, <1>3, <2>1, TypeIs, EndedIsSound DEF Oversights
<1>5. Capped(mode, signals, overlooked)
  <2>1. \A d \in 1 .. MaxDay : {i \in DOMAIN signals : signals[i].created = d} = {}
    BY <1>3
  <2>2. \A d \in 1 .. MaxDay :
          Cardinality({i \in DOMAIN signals : signals[i].created = d}) <= MaxDailyTrades
    BY <1>2, <2>1, FS_EmptySet
  <2> QED BY <1>3, <2>2 DEF Capped
<1>6. \A r \in Runs : Sound(run[r], mode, day, signals, overlooked)
  BY <1>1, EndedIsSound
<1> QED BY <1>4, <1>5, <1>6, CoveredIs DEF CapsInvariant
-----------------------------------------------------------------------------
(* The theorems.                                                             *)

\* Type, tidiness and cover hold in every state, whatever the runs do.
THEOREM CapsInvariantHolds == Spec => []CapsInvariant
<1>1. Init => CapsInvariant
  BY InitCaps
<1>2. Inductive /\ CapsInvariant /\ [Next]_vars => CapsInvariant'
  BY CapsStep
<1> QED BY <1>1, <1>2, InductiveHolds, PTL DEF Spec

\* The rows, the positions, the candidates and the committed sum keep their
\* shapes; no signal is of no shares, though the time stop of a position whose
\* shares all work in other orders sizes its candidate to none (pipeline.ts
\* passes it on, the broker's review turns it away).
THEOREM TypeHolds == Spec => []TypeOK
<1>1. CapsInvariant => TypeOK
  BY DEF CapsInvariant
<1> QED BY <1>1, CapsInvariantHolds, PTL

\* MAX_DAILY_TRADES: no more signals are created in a UTC day than that, for
\* any number of runs, in any order, unless one inserted while another was
\* between its count and its inserts.
THEOREM DailyCapIsKept == Spec => []DailyCapHolds
<1>1. CapsInvariant => DailyCapHolds
  BY DEF CapsInvariant, Covered
<1> QED BY <1>1, CapsInvariantHolds, PTL

\* MAX_TOTAL_EXPOSURE_USD: what is held, on its way and proposed together, at
\* the quotes, stays within it unless a run missed a buy in one of the ways
\* the history names.
THEOREM ExposureIsCapped == Spec => []ExposureWithinCap
<1>1. CapsInvariant => ExposureWithinCap
  BY DEF CapsInvariant, Covered
<1> QED BY <1>1, CapsInvariantHolds, PTL

\* MAX_POSITION_USD: the same of each symbol, which also asks that no run
\* proposed a buy of a symbol that had one pending.
THEOREM PositionIsCapped == Spec => []PositionWithinCap
<1>1. CapsInvariant => PositionWithinCap
  BY DEF CapsInvariant, Covered
<1> QED BY <1>1, CapsInvariantHolds, PTL
=============================================================================
