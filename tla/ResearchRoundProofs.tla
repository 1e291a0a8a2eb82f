------------------------- MODULE ResearchRoundProofs -------------------------
(***************************************************************************)
(* ResearchRound, for any runs, researchers, chain, slots and ceilings:    *)
(* its types, sums of costs included; who waits for a shared search waits  *)
(* for someone who makes it; slots are neither lost nor lent twice; a      *)
(* guard is passed by no more than what it had granted; and no run counts  *)
(* a cost that was not paid, or counts one twice.                          *)
(***************************************************************************)
EXTENDS ResearchRound, FiniteSetTheorems, NaturalsInduction, WellFoundedInduction, TLAPS

-----------------------------------------------------------------------------
(* Counting *)

\* A set of numbers that is not empty has a least.
LEMMA Least ==
    ASSUME NEW S \in SUBSET Nat, S # {}
    PROVE  \E m \in S : \A d \in S : m <= d
<1>1. PICK m \in S : \A d \in S : ~ (<<d, m>> \in OpToRel(<, Nat))
  BY NatLessThanWellFounded, WFMin
<1>2. \A d \in S : ~ (d < m)
  BY <1>1 DEF OpToRel
<1> QED
  BY <1>2

\* A set of numbers with zero, and with the successor of each of its members,
\* is the set of all.
LEMMA Numbers ==
    ASSUME NEW U \in SUBSET Nat, 0 \in U, \A n \in U : n + 1 \in U
    PROVE  U = Nat
<1> SUFFICES ASSUME Nat \ U # {} PROVE FALSE
  OBVIOUS
<1>1. PICK m \in Nat \ U : \A d \in Nat \ U : m <= d
  BY Least
<1>2. m # 0 /\ m - 1 \in Nat /\ ~ (m <= m - 1)
  BY <1>1
<1>3. m - 1 \in U
  BY <1>1, <1>2
<1>4. (m - 1) + 1 \in U
  BY <1>3
<1> QED
  BY <1>1, <1>2, <1>4

-----------------------------------------------------------------------------
(* Sums of costs *)

\* What the costs f of the members of S add up to.
Total(f, S) == MapThenSumSet(LAMBDA c : f[c], S)

Chosen(s) == CHOOSE x \in s : TRUE
Rest(s) == s \ {Chosen(s)}

\* The recursive function a sum is a value of.
Adds(g, f, S) == g = [s \in SUBSET S |-> IF s = {} THEN 0 ELSE f[Chosen(s)] + g[Rest(s)]]
Adding(f, S) == CHOOSE g : Adds(g, f, S)

LEMMA RestSmaller ==
    ASSUME NEW S, IsFiniteSet(S), NEW s \in SUBSET S, s # {}
    PROVE  /\ Chosen(s) \in s /\ Rest(s) \in SUBSET S
           /\ IsFiniteSet(s) /\ Cardinality(s) \in Nat
           /\ Cardinality(Rest(s)) \in Nat /\ Cardinality(s) = Cardinality(Rest(s)) + 1
<1>1. Chosen(s) \in s
  BY DEF Chosen
<1>2. IsFiniteSet(s) /\ Cardinality(s) \in Nat
  BY FS_Subset, FS_CardinalityType
<1>3. Cardinality(Rest(s)) = Cardinality(s) - 1 /\ IsFiniteSet(Rest(s))
  BY <1>1, <1>2, FS_RemoveElement DEF Rest
<1>4. Cardinality(Rest(s)) \in Nat
  BY <1>3, FS_CardinalityType
<1> QED
  BY <1>1, <1>2, <1>3, <1>4 DEF Rest

\* A set of sets with the empty one, and with each from which the chosen member
\* may be taken, is the set of all.
LEMMA Gathering ==
    ASSUME NEW S, IsFiniteSet(S), NEW U \in SUBSET SUBSET S, {} \in U,
           \A s \in SUBSET S : s # {} /\ Rest(s) \in U => s \in U
    PROVE  U = SUBSET S
<1> DEFINE V == {n \in Nat : \A s \in SUBSET S : Cardinality(s) = n => s \in U}
<1>1. 0 \in V
  BY FS_Subset, FS_EmptySet
<1>2. ASSUME NEW n \in V PROVE n + 1 \in V
  <2> SUFFICES ASSUME NEW s \in SUBSET S, Cardinality(s) = n + 1 PROVE s \in U
    OBVIOUS
  <2>1. s # {}
    BY FS_EmptySet
  <2>2. Rest(s) \in SUBSET S /\ Cardinality(Rest(s)) = n
    BY <2>1, RestSmaller
  <2> QED
    BY <2>1, <2>2
<1>3. V = Nat
  <2> V \in SUBSET Nat
    OBVIOUS
  <2> HIDE DEF V
  <2> QED
    BY <1>1, <1>2, Numbers
<1> SUFFICES ASSUME NEW s \in SUBSET S PROVE s \in U
  OBVIOUS
<1>4. Cardinality(s) \in Nat
  BY FS_Subset, FS_CardinalityType
<1> QED
  BY <1>3, <1>4

\* There is such a function.
LEMMA AddingExists ==
    ASSUME NEW f, NEW S, IsFiniteSet(S), \A c \in S : f[c] \in Nat
    PROVE  Adds(Adding(f, S), f, S)
<1> DEFINE Body(g) == [s \in SUBSET S |-> IF s = {} THEN 0 ELSE f[Chosen(s)] + g[Rest(s)]]
           UpTo(g, n) == \A s \in SUBSET S : Cardinality(s) <= n => g[s] = Body(g)[s]
           V == {n \in Nat : \E g : g = [s \in SUBSET S |-> g[s]] /\ UpTo(g, n)}
<1>1. 0 \in V
  <2> DEFINE g == [s \in SUBSET S |-> 0]
  <2>1. \A s \in SUBSET S : Cardinality(s) <= 0 => s = {}
    BY FS_Subset, FS_EmptySet, FS_CardinalityType
  <2>2. UpTo(g, 0) /\ g = [s \in SUBSET S |-> g[s]]
    BY <2>1
  <2> QED
    BY <2>2
<1>2. ASSUME NEW n \in V PROVE n + 1 \in V
  <2>1. PICK g : g = [s \in SUBSET S |-> g[s]] /\ UpTo(g, n)
    OBVIOUS
  <2> DEFINE h == Body(g)
  <2>2. h = [s \in SUBSET S |-> h[s]]
    OBVIOUS
  <2>3. ASSUME NEW s \in SUBSET S, Cardinality(s) <= n + 1, s # {} PROVE h[Rest(s)] = g[Rest(s)]
    <3>1. Rest(s) \in SUBSET S /\ Cardinality(Rest(s)) <= n
      BY <2>3, RestSmaller
    <3> QED
      BY <2>1, <3>1
  <2>4. UpTo(h, n + 1)
    BY <2>3
  <2>5. n + 1 \in Nat
    OBVIOUS
  <2>6. \E k : k = [s \in SUBSET S |-> k[s]] /\ UpTo(k, n + 1)
    <3> HIDE DEF h, UpTo
    <3> QED
      BY <2>2, <2>4
  <2> QED
    BY <2>5, <2>6
<1>3. V = Nat
  <2> V \in SUBSET Nat
    OBVIOUS
  <2> HIDE DEF V
  <2> QED
    BY <1>1, <1>2, Numbers
<1>4. Cardinality(S) \in Nat
  BY FS_CardinalityType
<1>5. PICK g : g = [s \in SUBSET S |-> g[s]] /\ UpTo(g, Cardinality(S))
  <2>1. Cardinality(S) \in V
    <3> HIDE DEF V
    <3> QED
      BY <1>3, <1>4
  <2> HIDE DEF UpTo
  <2> QED
    BY <2>1
<1>6. \A s \in SUBSET S : Cardinality(s) <= Cardinality(S)
  BY FS_Subset
<1>7. Adds(g, f, S)
  BY <1>5, <1>6 DEF Adds
<1> QED
  BY <1>7 DEF Adding

LEMMA AddingSteps ==
    ASSUME NEW f, NEW S, IsFiniteSet(S), \A c \in S : f[c] \in Nat
    PROVE  /\ Adding(f, S)[{}] = 0
           /\ \A s \in SUBSET S : s # {} => Adding(f, S)[s] = f[Chosen(s)] + Adding(f, S)[Rest(s)]
<1> DEFINE g == Adding(f, S)
<1>1. g = [s \in SUBSET S |-> IF s = {} THEN 0 ELSE f[Chosen(s)] + g[Rest(s)]]
  <2>1. Adds(g, f, S)
    BY AddingExists
  <2> QED
    BY <2>1 DEF Adds
<1> HIDE DEF g
<1>2. \A s \in SUBSET S : g[s] = IF s = {} THEN 0 ELSE f[Chosen(s)] + g[Rest(s)]
  BY <1>1
<1> QED
  BY <1>2 DEF g

LEMMA Unfold ==
    ASSUME NEW f, NEW S
    PROVE  Total(f, S) = Adding(f, S)[S]
  BY DEF Total, MapThenSumSet, MapThenFoldSet, Adding, Adds, Chosen, Rest

\* A sum of costs is a cost.
LEMMA TotalType ==
    ASSUME NEW f, NEW S, IsFiniteSet(S), \A c \in S : f[c] \in Nat
    PROVE  Total(f, S) \in Nat
<1> DEFINE U == {s \in SUBSET S : Adding(f, S)[s] \in Nat}
<1>1. {} \in U
  BY AddingSteps
<1>2. ASSUME NEW s \in SUBSET S, s # {}, Rest(s) \in U PROVE s \in U
  BY <1>2, AddingSteps, RestSmaller
<1>3. U = SUBSET S
  <2> U \in SUBSET SUBSET S
    OBVIOUS
  <2> HIDE DEF U
  <2> QED
    BY <1>1, <1>2, Gathering
<1> QED
  BY <1>3, Unfold

\* Costs that are no smaller have a sum that is no smaller.
LEMMA TotalMonotone ==
    ASSUME NEW f, NEW g, NEW S, IsFiniteSet(S), \A c \in S : f[c] \in Nat /\ g[c] \in Nat /\ f[c] <= g[c]
    PROVE  Total(f, S) <= Total(g, S)
<1> DEFINE U == {s \in SUBSET S : Adding(f, S)[s] \in Nat /\ Adding(g, S)[s] \in Nat
                                   /\ Adding(f, S)[s] <= Adding(g, S)[s]}
<1>1. {} \in U
  BY AddingSteps
<1>2. ASSUME NEW s \in SUBSET S, s # {}, Rest(s) \in U PROVE s \in U
  <2>1. /\ Adding(f, S)[s] = f[Chosen(s)] + Adding(f, S)[Rest(s)]
        /\ Adding(g, S)[s] = g[Chosen(s)] + Adding(g, S)[Rest(s)]
    BY <1>2, AddingSteps
  <2> QED
    BY <1>2, <2>1, RestSmaller
<1>3. U = SUBSET S
  <2> U \in SUBSET SUBSET S
    OBVIOUS
  <2> HIDE DEF U
  <2> QED
    BY <1>1, <1>2, Gathering
<1> QED
  BY <1>3, Unfold

\* A cost that changes changes the sum as much.
LEMMA TotalOfOne ==
    ASSUME NEW f, NEW g, NEW S, IsFiniteSet(S), \A c \in S : f[c] \in Nat /\ g[c] \in Nat,
           NEW c \in S, \A d \in S \ {c} : g[d] = f[d]
    PROVE  Total(g, S) = Total(f, S) + (g[c] - f[c])
<1> DEFINE More(s) == IF c \in s THEN g[c] - f[c] ELSE 0
           U == {s \in SUBSET S : Adding(f, S)[s] \in Nat /\ Adding(g, S)[s] \in Nat
                                   /\ Adding(g, S)[s] = Adding(f, S)[s] + More(s)}
<1>1. {} \in U
  BY AddingSteps
<1>2. ASSUME NEW s \in SUBSET S, s # {}, Rest(s) \in U PROVE s \in U
  <2>1. /\ Adding(f, S)[s] = f[Chosen(s)] + Adding(f, S)[Rest(s)]
        /\ Adding(g, S)[s] = g[Chosen(s)] + Adding(g, S)[Rest(s)]
    BY <1>2, AddingSteps
  <2>2. Chosen(s) \in s /\ Rest(s) = s \ {Chosen(s)}
    BY <1>2, RestSmaller DEF Rest
  <2>3. g[Chosen(s)] - f[Chosen(s)] + More(Rest(s)) = More(s)
    <3>1. CASE Chosen(s) = c
      BY <2>2, <3>1
    <3>2. CASE Chosen(s) # c
      BY <2>2, <3>2
    <3> QED
      BY <3>1, <3>2
  <2>4. More(Rest(s)) \in Int
    OBVIOUS
  <2> HIDE DEF More
  <2> QED
    BY <1>2, <2>1, <2>2, <2>3, <2>4
<1>3. U = SUBSET S
  <2> U \in SUBSET SUBSET S
    OBVIOUS
  <2> HIDE DEF U
  <2> QED
    BY <1>1, <1>2, Gathering
<1> QED
  BY <1>3, Unfold

\* Equal costs have one sum, and nothing adds up to nothing.
LEMMA TotalSame ==
    ASSUME NEW f, NEW g, NEW S, IsFiniteSet(S), \A c \in S : f[c] \in Nat /\ g[c] = f[c]
    PROVE  Total(g, S) = Total(f, S)
<1>1. Total(f, S) \in Nat /\ Total(g, S) \in Nat
  BY TotalType
<1>2. Total(f, S) <= Total(g, S) /\ Total(g, S) <= Total(f, S)
  BY TotalMonotone
<1> QED
  BY <1>1, <1>2

LEMMA TotalOfNothing ==
    ASSUME NEW f, NEW S, IsFiniteSet(S), \A c \in S : f[c] = 0
    PROVE  Total(f, S) = 0
<1> DEFINE U == {s \in SUBSET S : Adding(f, S)[s] = 0}
<1>1. {} \in U
  BY AddingSteps
<1>2. ASSUME NEW s \in SUBSET S, s # {}, Rest(s) \in U PROVE s \in U
  BY <1>2, AddingSteps, RestSmaller
<1>3. U = SUBSET S
  <2> U \in SUBSET SUBSET S
    OBVIOUS
  <2> HIDE DEF U
  <2> QED
    BY <1>1, <1>2, Gathering
<1> QED
  BY <1>3, Unfold

-----------------------------------------------------------------------------
(* A queue that some leave *)

\* The recursive function Without is a value of.
Keeps(g, q, who) ==
    g = [i \in 0 .. Len(q) |-> IF i = 0 THEN <<>>
                               ELSE IF q[i] \in who THEN g[i - 1] ELSE Append(g[i - 1], q[i])]
Keeping(q, who) == CHOOSE g : Keeps(g, q, who)

LEMMA UnfoldWithout ==
    ASSUME NEW q, NEW who
    PROVE  Without(q, who) = Keeping(q, who)[Len(q)]
  BY DEF Without, Keeping, Keeps

\* There is such a function.
LEMMA KeepingExists ==
    ASSUME NEW q, NEW who, Len(q) \in Nat
    PROVE  Keeps(Keeping(q, who), q, who)
<1> DEFINE Body(g) == [i \in 0 .. Len(q) |-> IF i = 0 THEN <<>>
                               ELSE IF q[i] \in who THEN g[i - 1] ELSE Append(g[i - 1], q[i])]
           UpTo(g, n) == \A i \in 0 .. Len(q) : i <= n => g[i] = Body(g)[i]
           V == {n \in Nat : \E g : g = [i \in 0 .. Len(q) |-> g[i]] /\ UpTo(g, n)}
<1>1. 0 \in V
  <2> DEFINE g == [i \in 0 .. Len(q) |-> <<>>]
  <2>1. UpTo(g, 0) /\ g = [i \in 0 .. Len(q) |-> g[i]]
    OBVIOUS
  <2> QED
    BY <2>1
<1>2. ASSUME NEW n \in V PROVE n + 1 \in V
  <2>1. PICK g : g = [i \in 0 .. Len(q) |-> g[i]] /\ UpTo(g, n)
    OBVIOUS
  <2> DEFINE h == Body(g)
  <2>2. h = [i \in 0 .. Len(q) |-> h[i]]
    OBVIOUS
  <2>3. ASSUME NEW i \in 0 .. Len(q), i <= n + 1, i # 0 PROVE h[i - 1] = g[i - 1]
    <3>1. i - 1 \in 0 .. Len(q) /\ i - 1 <= n
      BY <2>3
    <3> QED
      BY <2>1, <3>1
  <2>4. UpTo(h, n + 1)
    BY <2>3
  <2>5. n + 1 \in Nat
    OBVIOUS
  <2>6. \E k : k = [i \in 0 .. Len(q) |-> k[i]] /\ UpTo(k, n + 1)
    <3> HIDE DEF h, UpTo
    <3> QED
      BY <2>2, <2>4
  <2> QED
    BY <2>5, <2>6
<1>3. V = Nat
  <2> V \in SUBSET Nat
    OBVIOUS
  <2> HIDE DEF V
  <2> QED
    BY <1>1, <1>2, Numbers
<1>5. PICK g : g = [i \in 0 .. Len(q) |-> g[i]] /\ UpTo(g, Len(q))
  <2>1. Len(q) \in V
    <3> HIDE DEF V
    <3> QED
      BY <1>3
  <2> HIDE DEF UpTo
  <2> QED
    BY <2>1
<1>7. Keeps(g, q, who)
  BY <1>5 DEF Keeps
<1> QED
  BY <1>7 DEF Keeping

\* Whoever waits, waits at one place.
InLine(q) == \A i, j \in 1 .. Len(q) : q[i] = q[j] => i = j
FirstOf(q, n) == {q[i] : i \in 1 .. n}

\* Those who did not leave are still in line, and only they.
LEMMA WithoutKeeps ==
    ASSUME NEW S, NEW q \in Seq(S), NEW who, InLine(q)
    PROVE  /\ Without(q, who) \in Seq(S) /\ InLine(Without(q, who))
           /\ ToSet(Without(q, who)) = ToSet(q) \ who
           /\ q = <<>> => Without(q, who) = <<>>
<1> DEFINE g == Keeping(q, who)
           V == {n \in Nat : n <= Len(q) => /\ g[n] \in Seq(S) /\ InLine(g[n])
                                            /\ ToSet(g[n]) = FirstOf(q, n) \ who}
<1>1. g = [i \in 0 .. Len(q) |-> IF i = 0 THEN <<>>
                                 ELSE IF q[i] \in who THEN g[i - 1] ELSE Append(g[i - 1], q[i])]
  BY KeepingExists DEF Keeps
<1> HIDE DEF g
<1>2. \A i \in 0 .. Len(q) : g[i] = IF i = 0 THEN <<>>
                                 ELSE IF q[i] \in who THEN g[i - 1] ELSE Append(g[i - 1], q[i])
  BY <1>1
<1>3. g[0] = <<>>
  BY <1>2
<1>4. 0 \in V
  <2>1. /\ g[0] \in Seq(S) /\ InLine(g[0]) /\ ToSet(g[0]) = {}
    BY <1>3 DEF InLine, ToSet
  <2>2. FirstOf(q, 0) = {}
    BY DEF FirstOf
  <2> QED
    BY <2>1, <2>2
<1>5. ASSUME NEW n \in V PROVE n + 1 \in V
  <2> SUFFICES ASSUME n + 1 <= Len(q)
               PROVE  /\ g[n + 1] \in Seq(S) /\ InLine(g[n + 1])
                      /\ ToSet(g[n + 1]) = FirstOf(q, n + 1) \ who
    OBVIOUS
  <2>1. /\ n \in Nat /\ n + 1 \in 1 .. Len(q) /\ q[n + 1] \in S
        /\ g[n] \in Seq(S) /\ InLine(g[n]) /\ ToSet(g[n]) = FirstOf(q, n) \ who
    OBVIOUS
  <2>2. g[n + 1] = IF q[n + 1] \in who THEN g[n] ELSE Append(g[n], q[n + 1])
    BY <1>2, <2>1
  <2>3. FirstOf(q, n + 1) = FirstOf(q, n) \cup {q[n + 1]} /\ q[n + 1] \notin FirstOf(q, n)
    BY <2>1 DEF FirstOf, InLine
  <2>4. CASE q[n + 1] \in who
    BY <2>1, <2>2, <2>3, <2>4
  <2>5. CASE q[n + 1] \notin who
    <3>1. /\ Append(g[n], q[n + 1]) \in Seq(S) /\ Len(Append(g[n], q[n + 1])) = Len(g[n]) + 1
          /\ \A i \in 1 .. Len(g[n]) : Append(g[n], q[n + 1])[i] = g[n][i]
          /\ Append(g[n], q[n + 1])[Len(g[n]) + 1] = q[n + 1]
      BY <2>1
    <3>2. \A i \in 1 .. Len(g[n]) : g[n][i] # q[n + 1]
      BY <2>1, <2>3 DEF ToSet
    <3>3. InLine(Append(g[n], q[n + 1]))
      BY <2>1, <3>1, <3>2 DEF InLine
    <3>4. ToSet(Append(g[n], q[n + 1])) = ToSet(g[n]) \cup {q[n + 1]}
      <4> DEFINE h == Append(g[n], q[n + 1])
                 k == Len(g[n])
      <4>1. DOMAIN g[n] = 1 .. k /\ k \in Nat /\ DOMAIN h = (1 .. k) \cup {k + 1}
        BY <2>1, <3>1
      <4>2. (\A i \in 1 .. k : h[i] = g[n][i]) /\ h[k + 1] = q[n + 1]
        BY <3>1
      <4> HIDE DEF h, k
      <4>3. {h[i] : i \in (1 .. k) \cup {k + 1}} = {g[n][i] : i \in 1 .. k} \cup {q[n + 1]}
        BY <4>2
      <4>4. ToSet(h) = ToSet(g[n]) \cup {q[n + 1]}
        BY <4>1, <4>3 DEF ToSet
      <4> QED
        BY <4>4 DEF h
    <3> QED
      BY <2>1, <2>2, <2>3, <2>5, <3>1, <3>3, <3>4
  <2> QED
    BY <2>4, <2>5
<1>6. V = Nat
  <2> V \in SUBSET Nat
    OBVIOUS
  <2> HIDE DEF V
  <2> QED
    BY <1>4, <1>5, Numbers
<1>7. Len(q) \in Nat /\ FirstOf(q, Len(q)) = ToSet(q)
  BY DEF FirstOf, ToSet
<1>8. Without(q, who) = g[Len(q)]
  BY UnfoldWithout DEF g
<1> QED
  BY <1>3, <1>6, <1>7, <1>8

\* One more in line.
LEMMA Appended ==
    ASSUME NEW S, NEW q \in Seq(S), InLine(q), NEW c \in S, c \notin ToSet(q)
    PROVE  /\ Append(q, c) \in Seq(S) /\ InLine(Append(q, c))
           /\ ToSet(Append(q, c)) = ToSet(q) \cup {c}
<1> DEFINE h == Append(q, c)
           k == Len(q)
<1>1. DOMAIN q = 1 .. k /\ k \in Nat /\ Len(h) = k + 1 /\ DOMAIN h = (1 .. k) \cup {k + 1} /\ h \in Seq(S)
  OBVIOUS
<1>2. (\A i \in 1 .. k : h[i] = q[i]) /\ h[k + 1] = c
  OBVIOUS
<1>3. \A i \in 1 .. k : q[i] # c
  BY <1>1 DEF ToSet
<1> HIDE DEF h, k
<1>4. InLine(h)
  BY <1>1, <1>2, <1>3 DEF InLine, k
<1>5. {h[i] : i \in (1 .. k) \cup {k + 1}} = {q[i] : i \in 1 .. k} \cup {c}
  BY <1>2
<1>6. ToSet(h) = ToSet(q) \cup {c}
  BY <1>1, <1>5 DEF ToSet
<1> QED
  BY <1>1, <1>4, <1>6 DEF h

\* The first in line leaves.
LEMMA Tailed ==
    ASSUME NEW S, NEW q \in Seq(S), InLine(q), q # <<>>
    PROVE  /\ Tail(q) \in Seq(S) /\ InLine(Tail(q))
           /\ ToSet(Tail(q)) = ToSet(q) \ {Head(q)}
<1> DEFINE t == Tail(q)
           k == Len(q)
<1>1. /\ t \in Seq(S) /\ Len(t) = k - 1 /\ k \in Nat \ {0} /\ DOMAIN q = 1 .. k /\ DOMAIN t = 1 .. k - 1
      /\ \A i \in 1 .. k - 1 : t[i] = q[i + 1]
      /\ Head(q) = q[1]
  OBVIOUS
<1> HIDE DEF t, k
<1>2. InLine(t)
  BY <1>1 DEF InLine, k
<1>3. ASSUME NEW x PROVE x \in ToSet(t) <=> x \in ToSet(q) \ {Head(q)}
  <2>1. ASSUME x \in ToSet(t) PROVE x \in ToSet(q) \ {Head(q)}
    <3>1. PICK i \in 1 .. k - 1 : x = q[i + 1]
      BY <1>1, <2>1 DEF ToSet
    <3> QED
      BY <1>1, <3>1 DEF ToSet, InLine, k
  <2>2. ASSUME x \in ToSet(q), x # q[1] PROVE x \in ToSet(t)
    <3>1. PICK i \in 1 .. k : x = q[i]
      BY <1>1, <2>2 DEF ToSet
    <3>2. i - 1 \in 1 .. k - 1 /\ t[i - 1] = x
      BY <1>1, <2>2, <3>1
    <3> QED
      BY <1>1, <3>2 DEF ToSet
  <2> QED
    BY <1>1, <2>1, <2>2
<1> QED
  BY <1>1, <1>2, <1>3 DEF t

\* The first n in line leave.
LEMMA Served ==
    ASSUME NEW S, NEW q \in Seq(S), InLine(q), NEW n \in 0 .. Len(q)
    PROVE  LET rest == SubSeq(q, n + 1, Len(q))
           IN  /\ rest \in Seq(S) /\ InLine(rest) /\ ToSet(rest) = ToSet(q) \ FirstOf(q, n)
               /\ FirstOf(q, n) \subseteq ToSet(q) /\ Cardinality(FirstOf(q, n)) = n /\ IsFiniteSet(FirstOf(q, n))
               /\ n = Len(q) => rest = <<>>
<1> DEFINE rest == SubSeq(q, n + 1, Len(q))
           heirs == {q[i] : i \in 1 .. n}
           k == Len(q)
<1>1. /\ rest \in Seq(S) /\ k \in Nat /\ n \in Nat /\ n <= k /\ Len(rest) = k - n /\ DOMAIN q = 1 .. k /\ DOMAIN rest = 1 .. k - n
      /\ \A i \in 1 .. k - n : rest[i] = q[n + i]
      /\ n = k => rest = <<>>
  OBVIOUS
<1> HIDE DEF rest, k
<1>2. InLine(rest)
  BY <1>1 DEF InLine, k
<1>3. heirs \subseteq ToSet(q)
  BY <1>1 DEF ToSet
<1>4. ASSUME NEW x PROVE x \in ToSet(rest) <=> x \in ToSet(q) \ heirs
  <2>1. ASSUME x \in ToSet(rest) PROVE x \in ToSet(q) \ heirs
    <3>1. PICK i \in 1 .. k - n : x = q[n + i]
      BY <1>1, <2>1 DEF ToSet
    <3>2. n + i \in 1 .. k /\ \A j \in 1 .. n : j \in 1 .. k /\ j # n + i
      BY <1>1, <3>1
    <3> QED
      BY <1>1, <3>1, <3>2 DEF ToSet, InLine, k
  <2>2. ASSUME x \in ToSet(q), x \notin heirs PROVE x \in ToSet(rest)
    <3>1. PICK i \in 1 .. k : x = q[i]
      BY <1>1, <2>2 DEF ToSet
    <3>2. i - n \in 1 .. k - n
      BY <1>1, <2>2, <3>1
    <3>3. rest[i - n] = x
      BY <1>1, <3>1, <3>2
    <3> QED
      BY <1>1, <3>2, <3>3 DEF ToSet
  <2> QED
    BY <2>1, <2>2
<1>5. Cardinality(heirs) = n /\ IsFiniteSet(heirs)
  <2> DEFINE f == [i \in 1 .. n |-> q[i]]
  <2>1. IsFiniteSet(1 .. n) /\ Cardinality(1 .. n) = n
    BY <1>1, FS_Interval
  <2>2. f \in Bijection(1 .. n, heirs)
    <3>1. \A i, j \in 1 .. n : f[i] = f[j] => i = j
      BY <1>1 DEF InLine, k
    <3>2. f \in Surjection(1 .. n, heirs)
      BY DEF Surjection
    <3> QED
      BY <3>1, <3>2 DEF Bijection, Injection, Surjection, IsInjective
  <2>3. IsFiniteSet(heirs) /\ Cardinality(heirs) = Cardinality(1 .. n)
    <3>1. ExistsBijection(1 .. n, heirs)
      BY <2>2, Zenon DEF ExistsBijection
    <3> QED
      BY <2>1, <3>1, FS_Bijection
  <2> QED
    BY <2>1, <2>3
<1>6. ToSet(rest) = ToSet(q) \ heirs
  BY <1>4
<1>7. FirstOf(q, n) = heirs
  BY DEF FirstOf
<1> HIDE DEF heirs
<1> QED
  BY <1>1, <1>2, <1>3, <1>5, <1>6, <1>7, Zenon DEF rest, k

-----------------------------------------------------------------------------
(* Slots *)

InPhase(p) == {c \in Calls : call[c] = p}

\* Every slot is free or held, the calls that wait are in line, once each, and
\* nobody waits for a slot that is free.
SlotInv ==
    /\ call \in [Calls -> Phases]
    /\ queue \in Seq(Calls) /\ InLine(queue)
    /\ ToSet(queue) = InPhase("queued")
    /\ free \in Nat /\ free + Cardinality(InPhase("calling")) = Slots
    /\ free > 0 => queue = <<>>

LEMMA SomeCalls ==
    ASSUME NEW p
    PROVE  IsFiniteSet(InPhase(p)) /\ Cardinality(InPhase(p)) \in Nat
  BY GatewayAssumption, FS_Subset, FS_CardinalityType DEF InPhase

\* One call that takes a slot.
LEMMA TakesSlot ==
    ASSUME SlotInv, NEW c \in Calls, call[c] \in Attempting, free > 0, Goes(c, "calling"),
           free' = free - 1, queue' = queue
    PROVE  SlotInv'
<1>1. call' = [call EXCEPT ![c] = "calling"]
  BY DEF Goes, Attempting, SlotInv
<1>2. InPhase("queued")' = InPhase("queued") /\ InPhase("calling")' = InPhase("calling") \cup {c}
  BY <1>1 DEF InPhase, Attempting, SlotInv
<1>3. c \notin InPhase("calling")
  BY DEF InPhase, Attempting
<1>4. Cardinality(InPhase("calling")') = Cardinality(InPhase("calling")) + 1
  BY <1>2, <1>3, SomeCalls, FS_AddElement
<1>5. call' \in [Calls -> Phases]
  BY <1>1 DEF SlotInv, Phases
<1> QED
  BY <1>2, <1>4, <1>5, SomeCalls DEF SlotInv

\* One call that queues.
LEMMA GetsInLine ==
    ASSUME SlotInv, NEW c \in Calls, call[c] \in Attempting, ~ (free > 0 /\ queue = <<>>), Goes(c, "queued"),
           queue' = Append(queue, c), free' = free
    PROVE  SlotInv'
<1>1. call' = [call EXCEPT ![c] = "queued"]
  BY DEF Goes, Attempting, SlotInv
<1>2. InPhase("calling")' = InPhase("calling") /\ InPhase("queued")' = InPhase("queued") \cup {c}
  BY <1>1 DEF InPhase, Attempting, SlotInv
<1>3. call' \in [Calls -> Phases]
  BY <1>1 DEF SlotInv, Phases
<1>4. free = 0
  BY DEF SlotInv
<1>5. c \notin ToSet(queue)
  BY DEF SlotInv, InPhase, Attempting
<1>6. queue' \in Seq(Calls) /\ InLine(queue') /\ ToSet(queue') = ToSet(queue) \cup {c}
  BY <1>5, Appended DEF SlotInv
<1> QED
  BY <1>2, <1>3, <1>4, <1>6 DEF SlotInv

\* One call that goes on without a slot, or waits no more.
LEMMA Pauses ==
    ASSUME SlotInv, NEW c \in Calls, call[c] \in Attempting, NEW p \in Phases \ {"queued", "calling"}, Goes(c, p),
           UNCHANGED <<queue, free>>
    PROVE  SlotInv'
<1>1. call' = [call EXCEPT ![c] = p]
  BY DEF Goes, Attempting, SlotInv
<1>2. InPhase("calling")' = InPhase("calling") /\ InPhase("queued")' = InPhase("queued")
  BY <1>1 DEF InPhase, Attempting, SlotInv
<1>3. call' \in [Calls -> Phases]
  BY <1>1 DEF SlotInv
<1> QED
  BY <1>2, <1>3 DEF SlotInv

\* One call that gives its slot back, to the first in line.
LEMMA PassesSlot ==
    ASSUME SlotInv, NEW c \in Calls, call[c] = "calling", NEW p \in Phases \ {"queued", "calling"}, Goes(c, p),
           Release
    PROVE  SlotInv'
<1>1. call' \in [Calls -> Phases]
  BY DEF Goes, SlotInv, Phases
<1>2. c \in InPhase("calling")
  BY DEF InPhase
<1>3. CASE queue = <<>>
  <2>1. call' = [call EXCEPT ![c] = p]
    BY <1>3 DEF Goes, First, SlotInv
  <2>2. InPhase("calling")' = InPhase("calling") \ {c} /\ InPhase("queued")' = InPhase("queued")
    BY <2>1 DEF InPhase, SlotInv
  <2>3. Cardinality(InPhase("calling")') = Cardinality(InPhase("calling")) - 1
    BY <1>2, <2>2, SomeCalls, FS_RemoveElement
  <2>4. free' = free + 1 /\ queue' = queue
    BY <1>3 DEF Release
  <2> QED
    BY <1>1, <1>3, <2>2, <2>3, <2>4, SomeCalls DEF SlotInv
<1>4. CASE queue # <<>>
  <2> DEFINE h == Head(queue)
  <2>1. h \in InPhase("queued") /\ queue' = Tail(queue) /\ free' = free
    BY <1>4 DEF SlotInv, ToSet, Release
  <2>2. call' = [call EXCEPT ![c] = p, ![h] = "calling"]
    BY <1>4, <2>1 DEF Goes, First, SlotInv, InPhase
  <2>3. /\ InPhase("calling")' = (InPhase("calling") \ {c}) \cup {h}
        /\ InPhase("queued")' = InPhase("queued") \ {h}
    BY <2>1, <2>2 DEF InPhase, SlotInv
  <2>4. h \notin InPhase("calling")
    BY <2>1 DEF InPhase
  <2>5. Cardinality(InPhase("calling")') = Cardinality(InPhase("calling"))
    <3>1. /\ Cardinality(InPhase("calling") \ {c}) = Cardinality(InPhase("calling")) - 1
          /\ IsFiniteSet(InPhase("calling") \ {c})
      BY <1>2, SomeCalls, FS_RemoveElement
    <3>2. Cardinality((InPhase("calling") \ {c}) \cup {h}) = Cardinality(InPhase("calling") \ {c}) + 1
      BY <2>4, <3>1, FS_AddElement
    <3>3. Cardinality(InPhase("calling")) \in Nat
      BY SomeCalls
    <3> HIDE DEF h
    <3> QED
      BY <2>3, <3>1, <3>2, <3>3
  <2>6. queue' \in Seq(Calls) /\ InLine(queue') /\ ToSet(queue') = ToSet(queue) \ {h}
    BY <1>4, <2>1, Tailed DEF SlotInv
  <2> HIDE DEF h
  <2>7. free = 0
    BY <1>4 DEF SlotInv
  <2>8. ToSet(queue') = InPhase("queued")'
    BY <2>3, <2>6 DEF SlotInv
  <2>9. free' + Cardinality(InPhase("calling")') = Slots
    BY <2>1, <2>5 DEF SlotInv
  <2> QED
    BY <1>1, <2>1, <2>6, <2>7, <2>8, <2>9 DEF SlotInv
<1> QED
  BY <1>3, <1>4

LEMMA AttemptSlots ==
    ASSUME SlotInv, NEW c \in Calls, Attempt(c) \/ Answer(c) \/ Err(c)
    PROVE  SlotInv'
<1>1. CASE Authorise(c)
  BY <1>1, TakesSlot, GetsInLine DEF Authorise
<1>2. CASE Refuse(c)
  BY <1>2, Pauses DEF Refuse, semaphore, Phases
<1>3. CASE PassOver(c)
  <2>1. PICK p \in {"pausing", "moving", "errored"} : Goes(c, p)
    BY <1>3 DEF PassOver, Raises
  <2> QED
    BY <1>3, <2>1, Pauses DEF PassOver, semaphore, Phases, Attempting
<1>4. CASE Answer(c)
  BY <1>4, PassesSlot DEF Answer, Phases
<1>5. CASE Err(c)
  <2>1. PICK p \in {"pausing", "moving", "errored"} : Goes(c, p)
    BY <1>5 DEF Err, Raises
  <2> QED
    BY <1>5, <2>1, PassesSlot DEF Err, Phases, Attempting
<1> QED
  BY <1>1, <1>2, <1>3, <1>4, <1>5 DEF Attempt

\* Calls that are cancelled, and slots that pass to the first of those in line
\* who stay.
LEMMA DropSlots ==
    ASSUME SlotInv, NEW who \in SUBSET Calls, Drop(who)
    PROVE  SlotInv'
<1> DEFINE keep == Without(queue, who)
           back == Cardinality({c \in who : call[c] = "calling"})
           given == IF back <= Len(keep) THEN back ELSE Len(keep)
           heirs == FirstOf(keep, given)
           rest == SubSeq(keep, given + 1, Len(keep))
<1>1. /\ keep \in Seq(Calls) /\ InLine(keep) /\ ToSet(keep) = InPhase("queued") \ who
      /\ queue = <<>> => keep = <<>>
  BY WithoutKeeps DEF SlotInv
<1>2. {c \in who : call[c] = "calling"} = InPhase("calling") \cap who
  BY DEF InPhase
<1>3. back \in Nat /\ given \in 0 .. Len(keep) /\ Len(keep) \in Nat
  <2>1. IsFiniteSet(InPhase("calling") \cap who)
    BY SomeCalls, FS_Subset
  <2>2. back \in Nat
    BY <1>2, <2>1, FS_CardinalityType
  <2>3. Len(keep) \in Nat
    BY <1>1
  <2> HIDE DEF back, keep
  <2> QED
    BY <2>2, <2>3
<1>4. /\ queue' = rest /\ free' = free + (back - given)
      /\ call' = [c \in Calls |-> IF c \in who THEN "idle"
                                  ELSE IF call[c] = "queued" /\ c \in heirs THEN "calling" ELSE call[c]]
  <2>1. \A c : c \in heirs <=> \E i \in 1 .. given : keep[i] = c
    BY DEF FirstOf
  <2> HIDE DEF heirs
  <2> QED
    BY <2>1 DEF Drop
<1> HIDE DEF keep, back, given
<1>5. /\ queue' \in Seq(Calls) /\ InLine(queue') /\ ToSet(queue') = ToSet(keep) \ heirs
      /\ heirs \subseteq ToSet(keep) /\ Cardinality(heirs) = given /\ IsFiniteSet(heirs)
      /\ given = Len(keep) => queue' = <<>>
  <2>1. /\ rest \in Seq(Calls) /\ InLine(rest) /\ ToSet(rest) = ToSet(keep) \ heirs
        /\ heirs \subseteq ToSet(keep) /\ Cardinality(heirs) = given /\ IsFiniteSet(heirs)
        /\ given = Len(keep) => rest = <<>>
    BY <1>1, <1>3, Served, Zenon
  <2> HIDE DEF rest, heirs
  <2> QED
    BY <1>4, <2>1
<1> HIDE DEF heirs
<1>6. call' \in [Calls -> Phases]
  BY <1>4 DEF SlotInv, Phases, Attempting
<1>7. /\ InPhase("queued")' = InPhase("queued") \ (who \cup heirs)
      /\ InPhase("calling")' = (InPhase("calling") \ who) \cup heirs
  BY <1>1, <1>4, <1>5 DEF InPhase
<1>8. Cardinality(InPhase("calling")') = Cardinality(InPhase("calling")) - back + given
  <2>1. IsFiniteSet(InPhase("calling")) /\ IsFiniteSet(InPhase("calling") \ who)
    BY SomeCalls, FS_Subset
  <2>2. Cardinality(InPhase("calling") \ who) = Cardinality(InPhase("calling")) - back
    BY <1>2, <2>1, FS_Difference DEF back
  <2>3. (InPhase("calling") \ who) \cap heirs = {}
    BY <1>1, <1>5 DEF InPhase
  <2>4. Cardinality((InPhase("calling") \ who) \cup heirs)
          = Cardinality(InPhase("calling") \ who) + Cardinality(heirs) - Cardinality((InPhase("calling") \ who) \cap heirs)
    BY <1>5, <2>1, FS_Union
  <2>5. Cardinality((InPhase("calling") \ who) \cap heirs) = 0
    BY <2>3, FS_EmptySet
  <2>6. Cardinality(InPhase("calling")) \in Nat
    BY SomeCalls
  <2> DEFINE stay == InPhase("calling") \ who
             now == InPhase("calling")'
  <2>7. now = stay \cup heirs
    BY <1>7
  <2>8. given \in Nat
    BY <1>3
  <2> HIDE DEF stay, now
  <2>9. Cardinality(now) = Cardinality(InPhase("calling")) - back + given
    BY <1>3, <1>5, <2>2, <2>4, <2>5, <2>6, <2>7, <2>8 DEF stay
  <2> QED
    BY <2>9 DEF now
<1>9. given <= back
  BY <1>3 DEF given
<1>10. free' \in Nat /\ (free' > 0 => queue' = <<>>)
  <2>1. CASE free > 0
    <3>1. keep = <<>>
      BY <1>1, <2>1 DEF SlotInv
    <3> QED
      BY <1>3, <1>4, <1>5, <1>9, <3>1 DEF SlotInv
  <2>2. CASE free = 0
    <3>1. given < back => given = Len(keep)
      BY <1>3 DEF given
    <3> QED
      BY <1>3, <1>4, <1>5, <1>9, <2>2, <3>1 DEF SlotInv
  <2> QED
    BY <2>1, <2>2 DEF SlotInv
<1>11. free' + Cardinality(InPhase("calling")') = Slots
  BY <1>3, <1>4, <1>8, SomeCalls, GatewayAssumption DEF SlotInv
<1>12. ToSet(queue') = InPhase("queued")'
  BY <1>1, <1>5, <1>7
<1> QED
  BY <1>5, <1>6, <1>10, <1>11, <1>12 DEF SlotInv

LEMMA SlotStutters == SlotInv /\ UNCHANGED <<call, queue, free>> => SlotInv'
  BY DEF SlotInv, InPhase

LEMMA SlotKept == SlotInv /\ [Next]_vars => SlotInv'
<1> SUFFICES ASSUME SlotInv, [Next]_vars PROVE SlotInv'
  OBVIOUS
<1>1. ASSUME NEW r \in Runs, Enrol(r) \/ Torn(r) \/ Boundary(r) \/ Advance(r) PROVE SlotInv'
  BY <1>1, SlotStutters DEF Enrol, Torn, Boundary, Advance, semaphore, gateway
<1>2. ASSUME NEW r \in Runs, Written(r) \/ WriterFails(r) \/ WriterTimesOut(r) PROVE SlotInv'
  <2>1. WriterOf[r] \in Calls
    BY RoundAssumption
  <2> QED
    BY <1>2, <2>1, DropSlots DEF Written, WriterFails, WriterTimesOut, Undone
<1>3. ASSUME NEW r \in Runs, Writes(r) PROVE SlotInv'
  BY <1>3, AttemptSlots, RoundAssumption DEF Writes
<1>4. ASSUME NEW c \in Callers,
             Asks(c) \/ Searches(c) \/ Finishes(c) \/ Gives(c) \/ Loses(c) \/ Timeout(c) \/ SearchGoesOn(c) \/ SearchFails(c)
      PROVE  SlotInv'
  <2>1. c \in Calls
    BY RoundAssumption
  <2>2. CASE Asks(c)
    BY <2>1, <2>2, AttemptSlots DEF Asks
  <2>3. CASE Searches(c) \/ Finishes(c) \/ Gives(c) \/ Loses(c) \/ Timeout(c)
    BY <2>1, <2>3, DropSlots DEF Searches, Finishes, Gives, Loses, Returns, Timeout
  <2>4. CASE SearchGoesOn(c) \/ SearchFails(c)
    BY <2>4, SlotStutters DEF SearchGoesOn, SearchFails, gateway
  <2> QED
    BY <1>4, <2>2, <2>3, <2>4
<1>5. ASSUME NEW c \in Calls, CallGoesOn(c) \/ CallErrs(c) PROVE SlotInv'
  BY <1>5, AttemptSlots DEF CallGoesOn, CallErrs
<1>6. CASE Crash
  BY <1>6, DropSlots DEF Crash
<1>7. CASE EntryExpires \/ UNCHANGED vars
  BY <1>7, SlotStutters DEF EntryExpires, vars, gateway
<1> QED
  BY <1>1, <1>2, <1>3, <1>4, <1>5, <1>6, <1>7 DEF Next, RunGoesOn, ResearcherGoesOn

LEMMA SlotInit == Init => SlotInv
<1> SUFFICES ASSUME Init PROVE SlotInv
  OBVIOUS
<1>1. queue = <<>> /\ free = Slots /\ call = [c \in Calls |-> "idle"]
  BY DEF Init, GatewayInit
<1>2. InPhase("calling") = {} /\ InPhase("queued") = {}
  BY <1>1 DEF InPhase
<1>3. queue \in Seq(Calls) /\ InLine(queue) /\ ToSet(queue) = {}
  BY <1>1 DEF InLine, ToSet
<1> QED
  BY <1>1, <1>2, <1>3, FS_EmptySet, GatewayAssumption DEF SlotInv, Phases, Attempting

\* ConcurrencyLimiter: no slot is lost or lent twice, whoever is cancelled
\* where, and no call waits beside a slot that is free.
THEOREM SlotsHold == Spec => []SlotsAccounted
<1>1. Init => SlotInv
  BY SlotInit
<1>2. SlotInv /\ [Next]_vars => SlotInv'
  BY SlotKept
<1>3. SlotInv => SlotsAccounted
  BY DEF SlotInv, SlotsAccounted, InPhase
<1> QED
  BY <1>1, <1>2, <1>3, PTL DEF Spec

-----------------------------------------------------------------------------
(* What steps do to calls *)

\* Calls that were granted and have not ended.
Held == {"queued", "calling"}

\* A cancelled call is idle; the others stay what they are, but for slots that
\* pass on.
LEMMA Drops ==
    ASSUME NEW who, Drop(who), NEW c \in Calls
    PROVE  /\ c \in who => call'[c] = "idle"
           /\ call'[c] # "idle" => call[c] # "idle"
           /\ call'[c] \in Held => call[c] \in Held
  BY DEF Drop, Held

\* An attempt concerns one call, and grants it only what its guard allows.
LEMMA Attempts ==
    ASSUME NEW c \in Calls, Attempt(c)
    PROVE  /\ \A d \in Calls \ {c} : call'[d] = call[d]
           /\ call'[c] \in Held => ~Exhausted(c)
           /\ UNCHANGED <<spent, paid>>
<1>1. call[c] \in Attempting
  BY DEF Attempt, Authorise, Refuse, PassOver
<1>2. ASSUME NEW p, Goes(c, p)
      PROVE  call'[c] = p /\ \A d \in Calls \ {c} : call'[d] = call[d]
  BY <1>1, <1>2 DEF Goes, Attempting
<1>3. CASE Authorise(c)
  BY <1>2, <1>3 DEF Authorise, budget
<1>4. CASE Refuse(c)
  BY <1>2, <1>4 DEF Refuse, budget, Held
<1>5. CASE PassOver(c)
  <2>1. PICK p \in {"pausing", "moving", "errored"} : Goes(c, p)
    BY <1>5 DEF PassOver, Raises
  <2> QED
    BY <1>2, <1>5, <2>1 DEF PassOver, budget, Held
<1> QED
  BY <1>3, <1>4, <1>5 DEF Attempt

\* A call that ends its attempt is not held any more; another may get its slot.
LEMMA Ends ==
    ASSUME NEW c \in Calls, Answer(c) \/ Err(c)
    PROVE  /\ call[c] = "calling" /\ call'[c] \notin Held
           /\ \A d \in Calls \ {c} : call'[d] # call[d] => call[d] = "queued" /\ call'[d] = "calling"
<1>1. call[c] = "calling"
  BY DEF Answer, Err
<1>2. PICK p \in {"answered", "pausing", "moving", "errored"} : Goes(c, p)
  BY DEF Answer, Err, Raises
<1> QED
  BY <1>1, <1>2 DEF Goes, Held

-----------------------------------------------------------------------------
(* Shared searches *)

FlightOK ==
    /\ sought \in [Callers -> Lookups]
    /\ leader \in Callers \cup {None}

\* The call in flight is made by the one it is registered for, and only by it.
OneLeads ==
    /\ leader # None => sought[leader] \in {"leading", "storing"}
    /\ \A c \in Callers : sought[c] \in {"leading", "storing"} => leader = c

\* Nobody waits for nothing.
Followed == \A c \in Callers : sought[c] = "waiting" => leader # None

\* A researcher is not in a model call and in a search at once.
OneThing == \A c \in Callers : call[c] # "idle" => sought[c] \in {"out", "found"}

FlightInv == FlightOK /\ OneLeads /\ Followed

LEMMA Moves ==
    ASSUME FlightOK, NEW who, NEW to \in Lookups, Move(who, to)
    PROVE  /\ sought' \in [Callers -> Lookups]
           /\ \A c \in Callers : sought'[c] = IF c \in who THEN to ELSE sought[c]
  BY DEF FlightOK, Move

\* Nobody who leads or waits leaves that way.
LEMMA MoveAway ==
    ASSUME FlightInv, NEW c \in Callers, NEW to \in Lookups \ {"leading", "storing", "waiting"},
           sought[c] \notin {"leading", "storing"}, Move({c}, to), leader' = leader
    PROVE  FlightInv'
  BY CallerAssumption, Moves DEF FlightInv, FlightOK, OneLeads, Followed

\* The leader leaves with its followers.
LEMMA FlightEnds ==
    ASSUME FlightInv, NEW c \in Callers, sought[c] \in {"leading", "storing"},
           NEW to \in Lookups \ {"leading", "storing", "waiting"},
           Move({c} \cup Waiting, to), leader' = None
    PROVE  FlightInv'
<1>1. leader = c
  BY DEF FlightInv, OneLeads
<1>2. \A d \in Callers : sought'[d] \notin {"leading", "storing", "waiting"}
  BY <1>1, Moves DEF FlightInv, FlightOK, OneLeads, Waiting
<1> QED
  BY <1>2, Moves DEF FlightInv, FlightOK, OneLeads, Followed

LEMMA FlightSteps ==
    ASSUME FlightInv, NEW c \in Callers, Seek(c) \/ Flies(c) \/ Fail(c) \/ Abandon(c)
    PROVE  FlightInv'
<1>1. CASE Seek(c)
  BY <1>1, MoveAway DEF Seek, Lookups, Searching
<1>2. CASE Look(c)
  BY <1>2, MoveAway DEF Look, Lookups, Searching
<1>3. CASE Join(c)
  <2>1. PICK to \in {"leading", "waiting"} : Move({c}, to) /\ (to = "leading" => leader = None /\ leader' = c)
                                               /\ (to = "waiting" => leader # None /\ leader' = leader)
    BY <1>3 DEF Join
  <2>2. sought[c] = "missed" /\ to \in Lookups
    BY <1>3, <2>1 DEF Join, Lookups, Searching
  <2> QED
    BY <2>1, <2>2, Moves, CallerAssumption DEF FlightInv, FlightOK, OneLeads, Followed
<1>4. CASE Produce(c)
  <2>1. sought[c] = "leading" /\ Move({c}, "storing") /\ leader' = leader /\ "storing" \in Lookups
    BY <1>4 DEF Produce, Lookups, Searching
  <2> QED
    BY <2>1, Moves, CallerAssumption DEF FlightInv, FlightOK, OneLeads, Followed
<1>5. CASE Settle(c) \/ Fail(c)
  BY <1>5, FlightEnds DEF Settle, Fail, Lookups
<1>6. CASE Abandon(c)
  <2>1. sought' \in [Callers -> Lookups] /\ leader' \in Callers \cup {None}
    BY <1>6 DEF Abandon, FlightInv, FlightOK, Lookups
  <2>2. CASE leader = c
    <3>1. \A d \in Callers : sought'[d] \notin {"leading", "storing", "waiting"} /\ leader' = None
      BY <1>6, <2>2 DEF Abandon, Followers, Waiting, FlightInv, OneLeads, FlightOK, Lookups, Searching
    <3> QED
      BY <2>1, <3>1 DEF FlightInv, FlightOK, OneLeads, Followed
  <2>3. CASE leader # c
    <3>1. leader' = leader /\ \A d \in Callers : sought'[d] = IF d = c THEN "out" ELSE sought[d]
      BY <1>6, <2>3 DEF Abandon, Followers
    <3> QED
      BY <2>1, <2>3, <3>1, CallerAssumption DEF FlightInv, FlightOK, OneLeads, Followed
  <2> QED
    BY <2>2, <2>3
<1> QED
  BY <1>1, <1>2, <1>3, <1>4, <1>5, <1>6 DEF Flies

\* A step that does not touch the flight keeps it.
LEMMA FlightStutters == FlightInv /\ UNCHANGED <<sought, leader>> => FlightInv'
  BY DEF FlightInv, FlightOK, OneLeads, Followed

\* A node that is over is not in a search, because a node that is in a call is
\* not.
LEMMA FlightReturns ==
    ASSUME FlightInv, OneThing, NEW c \in Callers, Finishes(c) \/ Gives(c) \/ Loses(c)
    PROVE  FlightInv'
<1>1. sought[c] \notin {"leading", "storing"}
  BY DEF Finishes, Gives, Loses, OneThing
<1>2. Move({c}, "out") /\ leader' = leader /\ "out" \in Lookups
  BY DEF Finishes, Gives, Loses, Returns, Lookups
<1> QED
  BY <1>1, <1>2, MoveAway

LEMMA FlightKept == FlightInv /\ OneThing /\ [Next]_vars => FlightInv'
<1> SUFFICES ASSUME FlightInv, OneThing, [Next]_vars PROVE FlightInv'
  OBVIOUS
<1>1. ASSUME NEW r \in Runs, RunGoesOn(r) \/ WriterTimesOut(r) PROVE FlightInv'
  BY <1>1, FlightStutters
     DEF RunGoesOn, WriterTimesOut, Enrol, Torn, Boundary, Advance, Writes, Written, WriterFails, Undone, flight
<1>2. ASSUME NEW c \in Callers, Asks(c) PROVE FlightInv'
  BY <1>2, FlightStutters DEF Asks, flight
<1>3. ASSUME NEW c \in Callers, Searches(c) \/ Timeout(c) \/ SearchGoesOn(c) \/ SearchFails(c)
      PROVE  FlightInv'
  BY <1>3, FlightSteps DEF Searches, Timeout, SearchGoesOn, SearchFails
<1>4. ASSUME NEW c \in Callers, Finishes(c) \/ Gives(c) \/ Loses(c) PROVE FlightInv'
  BY <1>4, FlightReturns
<1>5. ASSUME NEW c \in Calls, CallGoesOn(c) \/ CallErrs(c) PROVE FlightInv'
  BY <1>5, FlightStutters DEF CallGoesOn, CallErrs, flight
<1>6. CASE Crash
  BY <1>6 DEF Crash, FlightInv, FlightOK, OneLeads, Followed, Lookups
<1>7. CASE EntryExpires
  BY <1>7, FlightStutters DEF EntryExpires, Expire
<1>8. CASE UNCHANGED vars
  BY <1>8, FlightStutters DEF vars, flight
<1> QED
  BY <1>1, <1>2, <1>3, <1>4, <1>5, <1>6, <1>7, <1>8 DEF Next, ResearcherGoesOn

-----------------------------------------------------------------------------
(* Who makes calls *)

Making(c) ==
    \/ c \in Callers /\ AtWork(c)
    \/ c = WriterOf[RunOf[c]] /\ stage[RunOf[c]] = "writing"

\* Nobody is in a call who is not at work on it.
Busy == \A c \in Calls : call[c] # "idle" => Making(c)

CallInv == OneThing /\ Busy

StagesOK == stage \in [Runs -> Stages] /\ outcome \in [Callers -> Outcomes]

LEMMA RunsOfCalls ==
    /\ Callers \subseteq Calls
    /\ \A c \in Calls : RunOf[c] \in Runs
    /\ \A r \in Runs : WriterOf[r] \in Calls /\ WriterOf[r] \notin Callers /\ RunOf[WriterOf[r]] = r
    /\ Exempt \cap Callers = {}
  BY GatewayAssumption, RoundAssumption

\* Steps between supersteps.
LEMMA StageSteps ==
    ASSUME StagesOK, [Next]_vars
    PROVE  StagesOK'
<1> USE DEF StagesOK
<1>1. ASSUME NEW r \in Runs, RunGoesOn(r) \/ WriterTimesOut(r) PROVE StagesOK'
  BY <1>1 DEF RunGoesOn, WriterTimesOut, Enrol, Torn, Boundary, Advance, Writes, Written, WriterFails,
     Undone, Enters, Leaves, Forgets, Doing, Stages, Outcomes, progress, returned
<1>2. ASSUME NEW c \in Callers, ResearcherGoesOn(c) \/ Timeout(c) \/ SearchGoesOn(c) \/ SearchFails(c)
      PROVE  StagesOK'
  BY <1>2 DEF ResearcherGoesOn, Asks, Searches, Finishes, Gives, Loses, Returns, Timeout,
     SearchGoesOn, SearchFails, Outcomes, progress, returned
<1>3. ASSUME NEW c \in Calls, CallGoesOn(c) \/ CallErrs(c) PROVE StagesOK'
  BY <1>3 DEF CallGoesOn, CallErrs, progress, returned
<1>4. CASE Crash
  <2>1. PICK kept \in SUBSET {c \in Callers : Returned(c)} : Forgets(Callers \ kept)
    BY <1>4 DEF Crash
  <2>2. outcome' \in [Callers -> Outcomes]
    BY <2>1 DEF Forgets, Outcomes
  <2>3. stage' = [r \in Runs |-> IF stage[r] = "over" THEN "over" ELSE "away"]
    BY <1>4 DEF Crash
  <2>4. stage' \in [Runs -> Stages]
    BY <2>3 DEF Stages
  <2> QED
    BY <2>2, <2>4
<1>5. CASE EntryExpires \/ UNCHANGED vars
  BY <1>5 DEF EntryExpires, vars, progress, returned
<1> QED
  BY <1>1, <1>2, <1>3, <1>4, <1>5 DEF Next

\* One call steps, as whoever makes it wishes.
LEMMA CallSteps ==
    ASSUME CallInv, NEW c \in Calls, Making(c), Attempt(c) \/ Answer(c) \/ Err(c),
           c \in Callers => sought[c] \in {"out", "found"},
           UNCHANGED <<sought, stage, outcome>>
    PROVE  CallInv'
<1>1. \A d \in Calls \ {c} : call'[d] # "idle" => call[d] # "idle"
  BY Attempts, Ends
<1>2. \A d \in Calls : Making(d)' = Making(d)
  BY DEF Making, AtWork
<1> QED
  BY <1>1, <1>2, RunsOfCalls DEF CallInv, OneThing, Busy

\* One researcher's node ends or moves on to its search, with its call dropped.
LEMMA ResearcherDrops ==
    ASSUME CallInv, StagesOK, NEW c \in Callers, Drop({c}), stage' = stage,
           \A d \in Callers \ {c} : outcome'[d] = outcome[d],
           \A d \in Callers \ {c} : sought'[d] = sought[d] \/ sought[d] = "waiting"
    PROVE  CallInv'
<1>1. call'[c] = "idle"
  BY Drops, RunsOfCalls
<1>2. \A d \in Calls : call'[d] # "idle" => call[d] # "idle"
  BY Drops
<1>3. \A d \in Calls \ {c} : Making(d) => Making(d)'
  BY RunsOfCalls DEF Making, AtWork
<1> QED
  BY <1>1, <1>2, <1>3, RunsOfCalls DEF CallInv, OneThing, Busy

LEMMA CallKept ==
    ASSUME CallInv, StagesOK, FlightInv, [Next]_vars
    PROVE  CallInv'
<1>1. ASSUME NEW r \in Runs, Enrol(r) \/ Torn(r) \/ Boundary(r) \/ Advance(r) PROVE CallInv'
  <2>1. UNCHANGED <<call, sought>>
    BY <1>1 DEF Enrol, Torn, Boundary, Advance, gateway, flight
  <2>2. \A d \in Calls : call[d] # "idle" => Making(d)'
    BY <1>1, RunsOfCalls DEF Enrol, Torn, Boundary, Advance, Enters, Leaves, Forgets, returned, Returned, Team,
       CallInv, Busy, Making, AtWork, StagesOK
  <2> QED
    BY <2>1, <2>2 DEF CallInv, OneThing, Busy
<1>2. ASSUME NEW r \in Runs, Writes(r) PROVE CallInv'
  BY <1>2, CallSteps, RunsOfCalls DEF Writes, Making, flight, progress, returned
<1>3. ASSUME NEW r \in Runs, Written(r) \/ WriterFails(r) \/ WriterTimesOut(r) PROVE CallInv'
  <2>1. /\ UNCHANGED <<sought, outcome>> /\ Drop({WriterOf[r]}) /\ stage[r] = "writing"
        /\ \A s \in Runs \ {r} : stage'[s] = stage[s]
    BY <1>3 DEF Written, WriterFails, WriterTimesOut, Undone, Leaves, flight, returned, StagesOK
  <2>2. \A d \in Calls : (call'[d] # "idle" => call[d] # "idle") /\ call'[WriterOf[r]] = "idle"
    BY <2>1, Drops, RunsOfCalls
  <2>3. \A d \in Calls \ {WriterOf[r]} : Making(d) => Making(d)'
    BY <2>1, RunsOfCalls DEF Making, AtWork
  <2> QED
    BY <2>1, <2>2, <2>3, RunsOfCalls DEF CallInv, OneThing, Busy
<1>4. ASSUME NEW c \in Callers, Asks(c) PROVE CallInv'
  BY <1>4, CallSteps, RunsOfCalls DEF Asks, Making, flight, progress, returned
<1>5. ASSUME NEW c \in Callers, Searches(c) \/ Finishes(c) \/ Gives(c) \/ Loses(c) PROVE CallInv'
  <2>1. /\ Drop({c}) /\ stage' = stage /\ \A d \in Callers \ {c} : outcome'[d] = outcome[d]
        /\ \A d \in Callers \ {c} : sought'[d] = sought[d]
    BY <1>5 DEF Searches, Seek, Finishes, Gives, Loses, Returns, Move, progress, StagesOK
  <2> QED
    BY <2>1, ResearcherDrops
<1>6. ASSUME NEW c \in Callers, Timeout(c) PROVE CallInv'
  <2>1. /\ Drop({c}) /\ stage' = stage /\ \A d \in Callers \ {c} : outcome'[d] = outcome[d]
        /\ \A d \in Callers \ {c} : sought'[d] = sought[d] \/ sought[d] = "waiting"
    BY <1>6 DEF Timeout, Abandon, Followers, Waiting, progress, StagesOK
  <2> QED
    BY <2>1, ResearcherDrops
<1>7. ASSUME NEW c \in Callers, SearchGoesOn(c) \/ SearchFails(c) PROVE CallInv'
  <2>1. /\ UNCHANGED <<call, stage, outcome>>
        /\ \A d \in Callers : sought'[d] # sought[d] => sought[d] \notin {"out", "found"}
    BY <1>7 DEF SearchGoesOn, SearchFails, Flies, Look, Join, Produce, Settle, Fail, Move, Waiting,
       gateway, progress, returned, FlightInv, FlightOK
  <2> QED
    BY <2>1 DEF CallInv, OneThing, Busy, Making, AtWork
<1>8. ASSUME NEW c \in Calls, CallGoesOn(c) \/ CallErrs(c) PROVE CallInv'
  <2>1. call[c] # "idle" /\ (Attempt(c) \/ Answer(c) \/ Err(c)) /\ UNCHANGED <<sought, stage, outcome>>
    BY <1>8 DEF CallGoesOn, CallErrs, Err, flight, progress, returned
  <2> QED
    BY <2>1, CallSteps DEF CallInv, OneThing, Busy
<1>9. CASE Crash
  BY <1>9, Drops, RunsOfCalls DEF Crash, CallInv, OneThing, Busy
<1>10. CASE EntryExpires \/ UNCHANGED vars
  BY <1>10 DEF EntryExpires, Expire, vars, gateway, flight, progress, returned, CallInv, OneThing, Busy,
     Making, AtWork
<1> QED
  BY <1>1, <1>2, <1>3, <1>4, <1>5, <1>6, <1>7, <1>8, <1>9, <1>10
     DEF Next, RunGoesOn, ResearcherGoesOn


-----------------------------------------------------------------------------
(* Nobody waits for nobody *)

FollowInv == FlightInv /\ CallInv /\ StagesOK

LEMMA FollowInit == Init => FollowInv
<1> SUFFICES ASSUME Init PROVE FollowInv
  OBVIOUS
<1>1. FlightInv
  BY CallerAssumption DEF Init, FlightInit, FlightInv, FlightOK, OneLeads, Followed, Lookups
<1>2. CallInv
  BY RunsOfCalls DEF Init, FlightInit, GatewayInit, CallInv, OneThing, Busy
<1>3. StagesOK
  BY DEF Init, StagesOK, Stages, Outcomes
<1> QED
  BY <1>1, <1>2, <1>3 DEF FollowInv

LEMMA FollowKept == FollowInv /\ [Next]_vars => FollowInv'
  BY FlightKept, CallKept, StageSteps DEF FollowInv, CallInv

LEMMA FollowersHaveLeader == FollowInv => WaitersHaveLeader
  BY DEF FollowInv, FlightInv, FlightOK, OneLeads, Followed, WaitersHaveLeader, Waiting

\* SingleFlight.run: whoever waits for a shared search waits for a caller that
\* is making it, whatever is torn, timed out or crashed around them.
THEOREM WaitersFollowALeader == Spec => []WaitersHaveLeader
<1>1. Init => FollowInv
  BY FollowInit
<1>2. FollowInv /\ [Next]_vars => FollowInv'
  BY FollowKept
<1>3. FollowInv => WaitersHaveLeader
  BY FollowersHaveLeader
<1> QED
  BY <1>1, <1>2, <1>3, PTL DEF Spec

-----------------------------------------------------------------------------
(* What a run is granted *)

\* The calls of a run's researchers that its guard let through.
Granted(r) == {c \in Team(r) : call[c] \in Held}

\* The guard's count, with what is granted, at the most it can cost.
Covered(r) ==
    /\ spent[r] \in Nat
    /\ spent[r] + Cardinality(Granted(r)) * MaxCost <= Limit - 1 + Cardinality(Team(r)) * MaxCost

Rounding(r) == stage[r] \in {"researching", "reporting"} /\ round[r] <= Rounds[r]

Counts ==
    /\ round \in [Runs -> Nat] /\ row \in [Runs -> Nat]
    /\ spent \in [Runs -> Nat \cup {NotEnrolled}]

\* A run that goes on to a round had not met its ceiling, at its checkpoint and
\* so on its row.
Affords ==
    \A r \in Runs :
        /\ round[r] <= Rounds[r] => checkpoint[r] < Limit /\ row[r] < Limit
        /\ stage[r] = "researching" => round[r] <= Rounds[r]

Guarded == \A r \in Runs : Rounding(r) => Covered(r)

\* Sums of costs are costs.
Summed == checkpoint \in [Runs -> Nat] /\ used \in [Callers -> Nat]

LEMMA Sizes ==
    ASSUME NEW r \in Runs, NEW A \in SUBSET Team(r), NEW B \in SUBSET A
    PROVE  /\ IsFiniteSet(A) /\ Cardinality(A) \in Nat /\ Cardinality(B) \in Nat
           /\ Cardinality(B) <= Cardinality(A)
           /\ Cardinality(B) * MaxCost <= Cardinality(A) * MaxCost
<1>1. IsFiniteSet(A)
  BY GatewayAssumption, RunsOfCalls, FS_Subset DEF Team
<1>2. IsFiniteSet(B) /\ Cardinality(B) <= Cardinality(A)
  BY <1>1, FS_Subset
<1>3. Cardinality(A) \in Nat /\ Cardinality(B) \in Nat
  BY <1>1, <1>2, FS_CardinalityType
<1>4. ASSUME NEW a \in Nat, NEW b \in Nat, NEW k \in Nat, b <= a PROVE b * k <= a * k
  BY <1>4
<1> QED
  BY <1>1, <1>2, <1>3, <1>4, GatewayAssumption

\* With no more granted, and nothing spent, the count stays covered.
LEMMA NoMoreGranted ==
    ASSUME NEW r \in Runs, Covered(r), spent'[r] = spent[r],
           \A c \in Team(r) : call'[c] \in Held => call[c] \in Held
    PROVE  Covered(r)'
<1> DEFINE new == Granted(r)'
<1>1. Granted(r) \in SUBSET Team(r) /\ new \in SUBSET Granted(r)
  BY DEF Granted, Team
<1>2. /\ Cardinality(new) \in Nat /\ Cardinality(Granted(r)) \in Nat
      /\ Cardinality(new) * MaxCost <= Cardinality(Granted(r)) * MaxCost
  BY <1>1, Sizes
<1>3. Cardinality(Team(r)) \in Nat
  BY Sizes
<1>4. \A a, b \in Nat : a * MaxCost \in Nat /\ b * MaxCost \in Nat
  BY GatewayAssumption
<1> HIDE DEF new
<1>5. spent[r] + Cardinality(new) * MaxCost <= Limit - 1 + Cardinality(Team(r)) * MaxCost
  BY <1>2, <1>3, <1>4, GatewayAssumption DEF Covered
<1> QED
  BY <1>5 DEF Covered, new, Team

\* Whoever is below the ceiling may have all its researchers granted.
LEMMA BelowCeiling ==
    ASSUME NEW r \in Runs, spent'[r] \in Nat, spent'[r] < Limit
    PROVE  Covered(r)'
<1> DEFINE new == Granted(r)'
<1>1. new \in SUBSET Team(r)
  BY DEF Granted, Team
<1>2. /\ Cardinality(new) \in Nat /\ Cardinality(Team(r)) \in Nat
      /\ Cardinality(new) * MaxCost <= Cardinality(Team(r)) * MaxCost
  BY <1>1, Sizes
<1>3. \A a \in Nat : a * MaxCost \in Nat
  BY GatewayAssumption
<1> HIDE DEF new
<1>4. spent'[r] + Cardinality(new) * MaxCost <= Limit - 1 + Cardinality(Team(r)) * MaxCost
  BY <1>2, <1>3, GatewayAssumption
<1> QED
  BY <1>4 DEF Covered, new, Team

\* A granted call that is charged is granted no longer.
LEMMA ChargedOnce ==
    ASSUME NEW r \in Runs, Covered(r), NEW c \in Team(r), call[c] \in Held, call'[c] \notin Held,
           \A d \in Team(r) \ {c} : call'[d] \in Held => call[d] \in Held,
           NEW n \in 0 .. MaxCost, spent'[r] = spent[r] + n
    PROVE  Covered(r)'
<1> DEFINE new == Granted(r)'
           old == Granted(r)
<1>1. old \in SUBSET Team(r) /\ c \in old /\ new \in SUBSET (old \ {c})
  BY DEF Granted, Team
<1>2. IsFiniteSet(old) /\ Cardinality(old \ {c}) = Cardinality(old) - 1
  BY <1>1, Sizes, FS_RemoveElement
<1>3. /\ Cardinality(old) \in Nat /\ Cardinality(new) \in Nat /\ Cardinality(old \ {c}) \in Nat
      /\ Cardinality(new) * MaxCost <= Cardinality(old \ {c}) * MaxCost
  BY <1>1, Sizes
<1>4. ASSUME NEW a \in Int, NEW k \in Int PROVE (a - 1) * k = a * k - k
  BY <1>4
<1>5. Cardinality(old \ {c}) * MaxCost = Cardinality(old) * MaxCost - MaxCost
  BY <1>2, <1>3, <1>4, GatewayAssumption
<1>6. \A a \in Nat : a * MaxCost \in Nat
  BY GatewayAssumption
<1>7. Cardinality(Team(r)) \in Nat
  BY Sizes
<1> HIDE DEF new, old
<1>8. spent[r] + Cardinality(old) * MaxCost <= Limit - 1 + Cardinality(Team(r)) * MaxCost
  BY DEF Covered, old
<1>9. spent'[r] \in Nat /\ spent'[r] + Cardinality(new) * MaxCost <= Limit - 1 + Cardinality(Team(r)) * MaxCost
  BY <1>3, <1>5, <1>6, <1>7, <1>8, GatewayAssumption DEF Covered
<1> QED
  BY <1>9 DEF Covered, new, Team

CeilingInv == FollowInv /\ Counts /\ Affords /\ Guarded

\* What a step of a call spends, the call's run had spent before.
LEMMA CallSpends ==
    ASSUME Counts, NEW c \in Calls, Attempt(c) \/ Answer(c) \/ Err(c)
    PROVE  /\ spent' \in [Runs -> Nat \cup {NotEnrolled}]
           /\ \A r \in Runs \ {RunOf[c]} : spent'[r] = spent[r]
<1>1. CASE Attempt(c) \/ Err(c)
  BY <1>1, Attempts DEF Err, budget, Counts
<1>2. CASE Answer(c)
  <2>1. PICK n \in (IF model[c] \in Priced THEN 1 .. MaxCost ELSE {0}) : Charge(RunOf[c], n)
    BY <1>2 DEF Answer
  <2>2. n \in Nat /\ RunOf[c] \in Runs
    BY RunsOfCalls, GatewayAssumption
  <2> QED
    BY <2>1, <2>2 DEF Charge, Counts
<1> QED
  BY <1>1, <1>2

LEMMA CountsKept ==
    ASSUME Counts, Summed, [Next]_vars
    PROVE  Counts'
<1>1. \A r \in Runs : Rounds[r] \in Nat
  BY RoundAssumption
<1>2. ASSUME NEW r \in Runs, Enrol(r) \/ Torn(r) \/ Boundary(r) \/ Advance(r) PROVE Counts'
  BY <1>1, <1>2 DEF Enrol, Torn, Boundary, Advance, Enters, Leaves, gateway, Counts, Summed
<1>3. ASSUME NEW r \in Runs, Written(r) \/ WriterFails(r) \/ WriterTimesOut(r) PROVE Counts'
  BY <1>1, <1>3 DEF Written, WriterFails, WriterTimesOut, Undone, Leaves, Counts
<1>4. ASSUME NEW c \in Calls, Attempt(c) \/ Answer(c) \/ Err(c), UNCHANGED progress PROVE Counts'
  BY <1>4, CallSpends DEF Counts, progress
<1>5. ASSUME NEW r \in Runs, Writes(r) PROVE Counts'
  BY <1>4, <1>5, RunsOfCalls DEF Writes
<1>6. ASSUME NEW c \in Callers, ResearcherGoesOn(c) \/ Timeout(c) \/ SearchGoesOn(c) \/ SearchFails(c)
      PROVE  Counts'
  <2>1. CASE Asks(c)
    BY <1>4, <2>1, RunsOfCalls DEF Asks
  <2>2. CASE Searches(c) \/ Finishes(c) \/ Gives(c) \/ Loses(c) \/ Timeout(c) \/ SearchGoesOn(c) \/ SearchFails(c)
    BY <2>2 DEF Searches, Finishes, Gives, Loses, Returns, Timeout, SearchGoesOn, SearchFails,
       gateway, progress, Counts
  <2> QED
    BY <1>6, <2>1, <2>2 DEF ResearcherGoesOn
<1>7. ASSUME NEW c \in Calls, CallGoesOn(c) \/ CallErrs(c) PROVE Counts'
  BY <1>4, <1>7 DEF CallGoesOn, CallErrs
<1>8. CASE Crash
  BY <1>8 DEF Crash, Counts
<1>9. CASE EntryExpires \/ UNCHANGED vars
  BY <1>9 DEF EntryExpires, vars, gateway, progress, Counts
<1> QED
  BY <1>2, <1>3, <1>5, <1>6, <1>7, <1>8, <1>9 DEF Next, RunGoesOn

LEMMA AffordsKept ==
    ASSUME Affords, Counts, StagesOK, Summed, Summed', [Next]_vars
    PROVE  Affords'
<1>1. Limit \in Nat /\ \A r \in Runs : Rounds[r] \in Nat
  BY RoundAssumption, GatewayAssumption
<1>2. ASSUME NEW r \in Runs, Enrol(r) \/ Torn(r) \/ Advance(r) PROVE Affords'
  BY <1>1, <1>2 DEF Enrol, Torn, Advance, Enters, Leaves, Doing, Affords, Counts, StagesOK, Summed
<1>3. ASSUME NEW r \in Runs, Boundary(r) PROVE Affords'
  <2>1. \A s \in Runs \ {r} : stage'[s] = stage[s] /\ round'[s] = round[s] /\ checkpoint'[s] = checkpoint[s]
    BY <1>3 DEF Boundary, Counts, StagesOK, Summed
  <2>2. row' = row /\ stage'[r] = "reporting"
    BY <1>3 DEF Boundary, StagesOK
  <2>3. round'[r] = IF checkpoint'[r] >= Limit THEN Rounds[r] + 1 ELSE round[r] + 1
    BY <1>3 DEF Boundary, Counts
  <2>4. round'[r] <= Rounds[r] => checkpoint'[r] < Limit /\ round[r] <= Rounds[r]
    BY <1>1, <2>3 DEF Counts, Summed
  <2> QED
    BY <2>1, <2>2, <2>4 DEF Affords
<1>4. ASSUME NEW r \in Runs, Written(r) PROVE Affords'
  BY <1>1, <1>4 DEF Written, Affords, Counts, StagesOK, Summed
<1>5. ASSUME NEW r \in Runs, WriterFails(r) \/ WriterTimesOut(r) PROVE Affords'
  BY <1>5 DEF WriterFails, WriterTimesOut, Undone, Leaves, Affords, StagesOK
<1>6. CASE UNCHANGED progress
  BY <1>6 DEF progress, Affords
<1>7. CASE Crash
  BY <1>7 DEF Crash, Affords
<1> QED
  BY <1>2, <1>3, <1>4, <1>5, <1>6, <1>7
     DEF Next, RunGoesOn, ResearcherGoesOn, Writes, Asks, Searches, Finishes, Gives, Loses, Returns, Timeout,
         SearchGoesOn, SearchFails, CallGoesOn, CallErrs, EntryExpires, vars

\* A run the step leaves where it is, and grants nothing more, stays covered.
LEMMA Bystander ==
    ASSUME Guarded, NEW r \in Runs, stage'[r] = stage[r], round'[r] = round[r], spent'[r] = spent[r],
           \A c \in Team(r) : call'[c] \in Held => call[c] \in Held
    PROVE  Rounding(r)' => Covered(r)'
  BY NoMoreGranted DEF Guarded, Rounding

\* A call that steps is its run's alone, and its run has what it asks for.
LEMMA CallCovered ==
    ASSUME CeilingInv, NEW c \in Calls, Making(c), Attempt(c) \/ Answer(c) \/ Err(c),
           UNCHANGED progress
    PROVE  Guarded'
<1>1. stage' = stage /\ round' = round
  BY DEF progress
<1>2. ASSUME NEW d \in Calls \ {c} PROVE call'[d] \in Held => call[d] \in Held
  BY <1>2, Attempts, Ends DEF Held
<1>3. RunOf[c] \in Runs
  BY RunsOfCalls
<1>4. ASSUME NEW r \in Runs, c \notin Team(r), Rounding(r)' PROVE Covered(r)'
  <2>1. \A d \in Team(r) : call'[d] \in Held => call[d] \in Held
    BY <1>2, <1>4, RunsOfCalls DEF Team
  <2>2. r # RunOf[c]
    BY <1>1, <1>4, RunsOfCalls DEF Making, Rounding, Team
  <2>3. spent'[r] = spent[r]
    BY <2>2, CallSpends DEF CeilingInv
  <2> QED
    BY <1>1, <1>4, <2>1, <2>3, Bystander DEF CeilingInv
<1>5. ASSUME NEW r \in Runs, c \in Team(r), Rounding(r)' PROVE Covered(r)'
  <2>1. r = RunOf[c] /\ c \in Callers /\ c \notin Exempt
    BY <1>5, RunsOfCalls DEF Team
  <2>2. Rounding(r) /\ Covered(r)
    BY <1>1, <1>5 DEF Rounding, CeilingInv, Guarded
  <2>3. \A d \in Team(r) \ {c} : call'[d] \in Held => call[d] \in Held
    BY <1>2, RunsOfCalls DEF Team
  <2>4. CASE Attempt(c)
    <3>1. UNCHANGED spent
      BY <2>4, Attempts
    <3>2. CASE call'[c] \in Held
      <4>1. ~Exhausted(c)
        BY <2>4, <3>2, Attempts
      <4>2. spent[r] \in Nat /\ spent[r] < Limit
        BY <2>1, <2>2, <4>1, GatewayAssumption DEF Covered, Exhausted, Governed, Guard
      <4> QED
        BY <3>1, <4>2, BelowCeiling
    <3>3. CASE call'[c] \notin Held
      BY <2>2, <2>3, <3>1, <3>3, NoMoreGranted
    <3> QED
      BY <3>2, <3>3
  <2>5. CASE Err(c)
    BY <2>2, <2>3, <2>5, Ends, NoMoreGranted DEF Err, budget
  <2>6. CASE Answer(c)
    <3>1. PICK n \in (IF model[c] \in Priced THEN 1 .. MaxCost ELSE {0}) : Charge(RunOf[c], n)
      BY <2>6 DEF Answer
    <3>2. n \in 0 .. MaxCost
      BY GatewayAssumption
    <3>3. spent'[r] = spent[r] + n
      BY <1>3, <2>1, <2>2, <3>1, GatewayAssumption DEF Charge, Covered, CeilingInv, Counts
    <3>4. call[c] \in Held /\ call'[c] \notin Held
      BY <2>6, Ends DEF Held
    <3> QED
      BY <1>5, <2>2, <2>3, <3>2, <3>3, <3>4, ChargedOnce
  <2> QED
    BY <2>4, <2>5, <2>6
<1> QED
  BY <1>4, <1>5 DEF Guarded

\* Nobody is granted anything where nobody is at work.
LEMMA NothingGranted ==
    ASSUME CallInv, NEW r \in Runs, stage[r] # "researching", NEW c \in Team(r)
    PROVE  call[c] \notin Held
  BY RunsOfCalls DEF CallInv, Busy, Making, AtWork, Team, Held

LEMMA GuardedKept ==
    ASSUME CeilingInv, Summed, Summed', [Next]_vars
    PROVE  Guarded'
<1> USE DEF CeilingInv, FollowInv
<1>1. ASSUME NEW r \in Runs, Enrol(r) PROVE Guarded'
  <2>1. \A s \in Runs \ {r} : stage'[s] = stage[s] /\ spent'[s] = spent[s]
    BY <1>1 DEF Enrol, Enters, StagesOK, Counts
  <2>2. UNCHANGED <<call, round>>
    BY <1>1 DEF Enrol
  <2>3. Rounding(r)' => spent'[r] \in Nat /\ spent'[r] < Limit
    BY <1>1, <2>2 DEF Enrol, Enters, Rounding, Doing, StagesOK, Counts, Affords
  <2> QED
    BY <2>1, <2>2, <2>3, Bystander, BelowCeiling DEF Guarded
<1>2. ASSUME NEW r \in Runs, Torn(r) PROVE Guarded'
  <2>1. UNCHANGED <<call, round>> /\ stage'[r] = "away"
        /\ \A s \in Runs \ {r} : stage'[s] = stage[s] /\ spent'[s] = spent[s]
    BY <1>2 DEF Torn, Leaves, StagesOK, Counts
  <2> QED
    BY <2>1, Bystander DEF Guarded, Rounding
<1>3. ASSUME NEW r \in Runs, Boundary(r) PROVE Guarded'
  <2>1. UNCHANGED <<call, spent>> /\ stage[r] = "researching"
        /\ \A s \in Runs \ {r} : stage'[s] = stage[s] /\ round'[s] = round[s]
    BY <1>3 DEF Boundary, gateway, StagesOK, Counts
  <2>2. Rounding(r)
    BY <2>1 DEF Affords, Rounding
  <2>3. Covered(r)'
    BY <2>1, <2>2, NoMoreGranted DEF Guarded
  <2> QED
    BY <2>1, <2>3, Bystander DEF Guarded
<1>4. ASSUME NEW r \in Runs, Advance(r) PROVE Guarded'
  <2>1. UNCHANGED <<call, round>> /\ stage[r] = "reporting"
        /\ \A s \in Runs \ {r} : stage'[s] = stage[s] /\ spent'[s] = spent[s]
    BY <1>4 DEF Advance, Enters, StagesOK, Counts
  <2>2. Rounding(r)' => Rounding(r) /\ spent'[r] = spent[r]
    BY <1>4, <2>1 DEF Advance, Enters, Doing, Rounding, StagesOK, Counts
  <2>3. Rounding(r)' => Covered(r)'
    BY <2>1, <2>2, NoMoreGranted DEF Guarded
  <2> QED
    BY <2>1, <2>3, Bystander DEF Guarded
<1>5. ASSUME NEW r \in Runs, Written(r) \/ WriterFails(r) \/ WriterTimesOut(r) PROVE Guarded'
  <2>1. \A s \in Runs \ {r} : stage'[s] = stage[s] /\ spent'[s] = spent[s] /\ round'[s] = round[s]
    BY <1>5 DEF Written, WriterFails, WriterTimesOut, Undone, Leaves, StagesOK, Counts
  <2>2. \A c \in Calls : call'[c] \in Held => call[c] \in Held
    BY <1>5, Drops DEF Written, WriterFails, WriterTimesOut, Undone
  <2>3. ~Rounding(r)'
    BY <1>5, RoundAssumption DEF Written, WriterFails, WriterTimesOut, Undone, Leaves, Rounding, StagesOK, Counts
  <2> QED
    BY <2>1, <2>2, <2>3, Bystander, RunsOfCalls DEF Guarded, Team
<1>6. ASSUME NEW r \in Runs, Writes(r) PROVE Guarded'
  BY <1>6, CallCovered, RunsOfCalls DEF Writes, Making
<1>7. ASSUME NEW c \in Callers, Asks(c) PROVE Guarded'
  BY <1>7, CallCovered, RunsOfCalls DEF Asks, Making
<1>8. ASSUME NEW c \in Callers,
             Searches(c) \/ Finishes(c) \/ Gives(c) \/ Loses(c) \/ Timeout(c) \/ SearchGoesOn(c) \/ SearchFails(c)
      PROVE  Guarded'
  <2>1. UNCHANGED <<spent, stage, round>>
    BY <1>8 DEF Searches, Finishes, Gives, Loses, Returns, Timeout, SearchGoesOn, SearchFails, gateway, progress
  <2>2. \A d \in Calls : call'[d] \in Held => call[d] \in Held
    BY <1>8, Drops DEF Searches, Finishes, Gives, Loses, Returns, Timeout, SearchGoesOn, SearchFails, gateway
  <2> QED
    BY <2>1, <2>2, Bystander, RunsOfCalls DEF Guarded, Team
<1>9. ASSUME NEW c \in Calls, CallGoesOn(c) \/ CallErrs(c) PROVE Guarded'
  BY <1>9, CallCovered DEF CallGoesOn, CallErrs, Err, CallInv, Busy
<1>10. CASE Crash
  BY <1>10 DEF Crash, Guarded, Rounding
<1>11. CASE EntryExpires \/ UNCHANGED vars
  BY <1>11, Bystander DEF EntryExpires, vars, gateway, progress, Guarded
<1> QED
  BY <1>1, <1>2, <1>3, <1>4, <1>5, <1>6, <1>7, <1>8, <1>9, <1>10, <1>11
     DEF Next, RunGoesOn, ResearcherGoesOn

LEMMA CeilingInit == Init => CeilingInv
  BY FollowInit, GatewayAssumption, RoundAssumption
     DEF Init, GatewayInit, CeilingInv, Counts, Affords, Guarded, Rounding

LEMMA CeilingKept == CeilingInv /\ Summed /\ Summed' /\ [Next]_vars => CeilingInv'
  BY FollowKept, CountsKept, AffordsKept, GuardedKept DEF CeilingInv, FollowInv

LEMMA CeilingBounds == CeilingInv => OverspendBounded
<1> SUFFICES ASSUME CeilingInv, NEW r \in Runs, stage[r] = "researching"
             PROVE  spent[r] <= Limit - 1 + Cardinality(Team(r)) * MaxCost
  BY DEF OverspendBounded
<1>1. Covered(r)
  BY DEF CeilingInv, Guarded, Rounding, Affords
<1>2. Granted(r) \in SUBSET Team(r)
  BY DEF Granted
<1>3. Cardinality(Granted(r)) \in Nat /\ Cardinality(Team(r)) \in Nat
  BY <1>2, Sizes
<1>4. \A a \in Nat : a * MaxCost \in Nat
  BY GatewayAssumption
<1> QED
  BY <1>1, <1>3, <1>4, GatewayAssumption DEF Covered

-----------------------------------------------------------------------------
(* Types *)

CallTypes ==
    /\ model \in [Calls -> 1 .. Chain] /\ try \in [Calls -> 1 .. Tries]
    /\ paid \in [Runs -> Nat] /\ cost \in [Calls -> 0 .. MaxCost]

RoundTypes ==
    /\ \A r \in Runs : round[r] \in 1 .. Rounds[r] + 2
    /\ stored \in BOOLEAN /\ faults \in 0 .. MaxFaults

LEMMA RaisesTypes ==
    ASSUME CallTypes, NEW c \in Calls, NEW e, Raises(c, e)
    PROVE  model' \in [Calls -> 1 .. Chain] /\ try' \in [Calls -> 1 .. Tries]
<1>1. Advances(c, e) => model[c] + 1 \in 1 .. Chain
  BY GatewayAssumption DEF Advances, CallTypes
<1>2. (Retries(c, e) => try[c] + 1 \in 1 .. Tries) /\ 1 \in 1 .. Tries
  BY GatewayAssumption DEF Retries, CallTypes
<1>3. model' \in [Calls -> 1 .. Chain]
  BY <1>1 DEF Raises, CallTypes
<1>4. try' \in [Calls -> 1 .. Tries]
  BY <1>2 DEF Raises, CallTypes
<1> QED
  BY <1>3, <1>4

\* What an answer costs, the run pays, and its guard counts.
LEMMA Answers ==
    ASSUME NEW c \in Calls, Answer(c)
    PROVE  \E n \in 0 .. MaxCost : Charge(RunOf[c], n) /\ cost' = [cost EXCEPT ![c] = n]
<1>1. PICK n \in (IF model[c] \in Priced THEN 1 .. MaxCost ELSE {0}) :
        Charge(RunOf[c], n) /\ cost' = [cost EXCEPT ![c] = n]
  BY DEF Answer
<1>2. n \in 0 .. MaxCost
  BY GatewayAssumption
<1> QED
  BY <1>1, <1>2

LEMMA CallTypesStep ==
    ASSUME CallTypes, NEW c \in Calls, Attempt(c) \/ Answer(c) \/ Err(c)
    PROVE  CallTypes'
<1>1. CASE Authorise(c) \/ Refuse(c)
  BY <1>1 DEF Authorise, Refuse, budget, CallTypes
<1>2. CASE PassOver(c) \/ Err(c)
  <2>1. \E e : Raises(c, e)
    BY <1>2 DEF PassOver, Err
  <2>2. UNCHANGED <<paid, cost>>
    BY <1>2 DEF PassOver, Err, budget
  <2> QED
    BY <2>1, <2>2, RaisesTypes DEF CallTypes
<1>3. CASE Answer(c)
  <2>1. PICK n \in 0 .. MaxCost : Charge(RunOf[c], n) /\ cost' = [cost EXCEPT ![c] = n]
    BY <1>3, Answers
  <2>2. UNCHANGED <<model, try>>
    BY <1>3 DEF Answer
  <2>3. RunOf[c] \in Runs /\ n \in Nat
    BY GatewayAssumption
  <2> QED
    BY <2>1, <2>2, <2>3 DEF Charge, CallTypes
<1> QED
  BY <1>1, <1>2, <1>3 DEF Attempt

LEMMA CallTypesDrop ==
    ASSUME CallTypes, NEW who, Drop(who), paid' = paid
    PROVE  CallTypes'
<1>1. 1 \in 1 .. Chain /\ 1 \in 1 .. Tries /\ 0 \in 0 .. MaxCost
  BY GatewayAssumption
<1> QED
  BY <1>1 DEF Drop, CallTypes

LEMMA CallTypesKept ==
    ASSUME CallTypes, [Next]_vars
    PROVE  CallTypes'
<1>1. ASSUME NEW r \in Runs, Enrol(r) \/ Torn(r) \/ Boundary(r) \/ Advance(r) PROVE CallTypes'
  BY <1>1 DEF Enrol, Torn, Boundary, Advance, gateway, CallTypes
<1>2. ASSUME NEW r \in Runs, Written(r) \/ WriterFails(r) \/ WriterTimesOut(r) PROVE CallTypes'
  BY <1>2, CallTypesDrop DEF Written, WriterFails, WriterTimesOut, Undone
<1>3. ASSUME NEW r \in Runs, Writes(r) PROVE CallTypes'
  BY <1>3, CallTypesStep, RunsOfCalls DEF Writes
<1>4. ASSUME NEW c \in Callers,
             ResearcherGoesOn(c) \/ Timeout(c) \/ SearchGoesOn(c) \/ SearchFails(c)
      PROVE  CallTypes'
  <2>1. CASE Asks(c)
    BY <2>1, CallTypesStep, RunsOfCalls DEF Asks
  <2>2. CASE Searches(c) \/ Finishes(c) \/ Gives(c) \/ Loses(c) \/ Timeout(c)
    BY <2>2, CallTypesDrop DEF Searches, Finishes, Gives, Loses, Returns, Timeout
  <2>3. CASE SearchGoesOn(c) \/ SearchFails(c)
    BY <2>3 DEF SearchGoesOn, SearchFails, gateway, CallTypes
  <2> QED
    BY <1>4, <2>1, <2>2, <2>3 DEF ResearcherGoesOn
<1>5. ASSUME NEW c \in Calls, CallGoesOn(c) \/ CallErrs(c) PROVE CallTypes'
  BY <1>5, CallTypesStep DEF CallGoesOn, CallErrs
<1>6. CASE Crash
  BY <1>6, CallTypesDrop DEF Crash
<1>7. CASE EntryExpires \/ UNCHANGED vars
  BY <1>7 DEF EntryExpires, vars, gateway, CallTypes
<1> QED
  BY <1>1, <1>2, <1>3, <1>4, <1>5, <1>6, <1>7 DEF Next, RunGoesOn

\* The researchers of a run are finitely many, and have costs.
LEMMA Teams ==
    ASSUME NEW r \in Runs
    PROVE  Team(r) \subseteq Callers /\ Team(r) \subseteq Calls /\ IsFiniteSet(Team(r))
  BY GatewayAssumption, RoundAssumption, FS_Subset DEF Team

LEMMA ReportsAreCosts ==
    ASSUME Summed, NEW r \in Runs
    PROVE  Reported(r) = Total(used, Team(r)) /\ Reported(r) \in Nat
<1>1. Reported(r) = Total(used, Team(r))
  BY DEF Reported, Total
<1> QED
  BY <1>1, Teams, TotalType DEF Summed

LEMMA SummedKept ==
    ASSUME Summed, CallTypes, [Next]_vars
    PROVE  Summed'
<1>1. \A c \in Calls : cost[c] \in Nat
  BY GatewayAssumption DEF CallTypes
<1>2. ASSUME NEW r \in Runs, RunGoesOn(r) \/ WriterTimesOut(r) PROVE Summed'
  <2>1. CASE Enrol(r) \/ Torn(r) \/ Advance(r) \/ Writes(r) \/ WriterFails(r) \/ WriterTimesOut(r)
    BY <2>1 DEF Enrol, Torn, Advance, Writes, WriterFails, WriterTimesOut, Undone, Forgets, returned, progress, Summed
  <2>2. CASE Boundary(r)
    BY <2>2, ReportsAreCosts DEF Boundary, Forgets, Summed
  <2>3. CASE Written(r)
    BY <1>1, <2>3, RunsOfCalls DEF Written, returned, Summed
  <2> QED
    BY <1>2, <2>1, <2>2, <2>3 DEF RunGoesOn
<1>3. ASSUME NEW c \in Callers, ResearcherGoesOn(c) \/ Timeout(c) \/ SearchGoesOn(c) \/ SearchFails(c)
      PROVE  Summed'
  BY <1>1, <1>3, RunsOfCalls DEF ResearcherGoesOn, Asks, Searches, Finishes, Gives, Loses, Returns, Timeout,
     SearchGoesOn, SearchFails, progress, returned, Summed
<1>4. ASSUME NEW c \in Calls, CallGoesOn(c) \/ CallErrs(c) PROVE Summed'
  BY <1>4 DEF CallGoesOn, CallErrs, progress, returned, Summed
<1>5. CASE Crash
  BY <1>5 DEF Crash, Forgets, Summed
<1>6. CASE EntryExpires \/ UNCHANGED vars
  BY <1>6 DEF EntryExpires, vars, progress, returned, Summed
<1> QED
  BY <1>2, <1>3, <1>4, <1>5, <1>6 DEF Next

LEMMA RoundTypesKept ==
    ASSUME RoundTypes, Counts, Affords, [Next]_vars
    PROVE  RoundTypes'
<1>1. MaxFaults \in Nat /\ \A r \in Runs : Rounds[r] \in Nat
  BY RoundAssumption
<1>2. faults' \in 0 .. MaxFaults
  <2>1. CASE Fault
    BY <1>1, <2>1 DEF Fault, RoundTypes
  <2>2. CASE faults' = faults
    BY <2>2 DEF RoundTypes
  <2> QED
    BY <2>1, <2>2 DEF Next, RunGoesOn, ResearcherGoesOn, Enrol, Torn, Boundary, Advance, Writes, Written,
       WriterFails, WriterTimesOut, Undone, Asks, Searches, Finishes, Gives, Loses, Returns, Timeout,
       SearchGoesOn, SearchFails, CallGoesOn, CallErrs, Crash, EntryExpires, vars
<1>3. stored' \in BOOLEAN
  <2>1. ASSUME NEW c \in Callers, Seek(c) \/ Flies(c) \/ Fail(c) \/ Abandon(c) PROVE stored' \in BOOLEAN
    BY <2>1, CallerAssumption
       DEF RoundTypes, Seek, Flies, Look, Join, Produce, Settle, Fail, Abandon
  <2>2. CASE \E c \in Callers : Searches(c) \/ Timeout(c) \/ SearchGoesOn(c) \/ SearchFails(c)
    BY <2>1, <2>2 DEF Searches, Timeout, SearchGoesOn, SearchFails
  <2>3. CASE stored' \in {stored, FALSE}
    BY <2>3 DEF RoundTypes
  <2> QED
    BY <2>2, <2>3 DEF Next, RunGoesOn, ResearcherGoesOn, Enrol, Torn, Boundary, Advance, Writes, Written,
       WriterFails, WriterTimesOut, Undone, Asks, Finishes, Gives, Loses, Returns,
       CallGoesOn, CallErrs, Crash, EntryExpires, Expire, vars, flight
<1>4. ASSUME NEW s \in Runs PROVE round'[s] \in 1 .. Rounds[s] + 2
  <2>1. ASSUME NEW r \in Runs, Boundary(r) PROVE round'[s] \in 1 .. Rounds[s] + 2
    <3>1. round[r] <= Rounds[r] /\ round[r] \in 1 .. Rounds[r] + 2
      BY <2>1 DEF Boundary, Affords, RoundTypes
    <3>2. round' = [round EXCEPT ![r] = IF checkpoint'[r] >= Limit THEN Rounds[r] + 1 ELSE @ + 1]
      BY <2>1 DEF Boundary
    <3> QED
      BY <1>1, <3>1, <3>2 DEF RoundTypes, Counts
  <2>2. ASSUME NEW r \in Runs, Written(r) PROVE round'[s] \in 1 .. Rounds[s] + 2
    BY <1>1, <2>2 DEF Written, RoundTypes, Counts
  <2>3. CASE round' = round
    BY <2>3 DEF RoundTypes
  <2> QED
    BY <2>1, <2>2, <2>3 DEF Next, RunGoesOn, ResearcherGoesOn, Enrol, Torn, Advance, Writes,
       WriterFails, WriterTimesOut, Undone, Asks, Searches, Finishes, Gives, Loses, Returns, Timeout,
       SearchGoesOn, SearchFails, CallGoesOn, CallErrs, Crash, EntryExpires, vars, progress
<1> QED
  BY <1>2, <1>3, <1>4 DEF RoundTypes

TypeInv == CeilingInv /\ SlotInv /\ CallTypes /\ Summed /\ RoundTypes

LEMMA TypeInit == Init => TypeInv
<1> SUFFICES ASSUME Init PROVE TypeInv
  OBVIOUS
<1>1. CallTypes
  BY GatewayAssumption DEF Init, GatewayInit, CallTypes
<1>2. Summed
  BY DEF Init, Summed
<1>3. RoundTypes
  <2>1. \A r \in Runs : 1 \in 1 .. Rounds[r] + 2
    BY RoundAssumption
  <2>2. 0 \in 0 .. MaxFaults
    BY RoundAssumption
  <2> QED
    BY <2>1, <2>2 DEF Init, FlightInit, RoundTypes
<1> QED
  BY <1>1, <1>2, <1>3, CeilingInit, SlotInit DEF TypeInv

LEMMA TypeKept == TypeInv /\ [Next]_vars => TypeInv'
  BY CeilingKept, SlotKept, CallTypesKept, SummedKept, RoundTypesKept DEF TypeInv, CeilingInv

LEMMA TypesHold == TypeInv => TypeOK
<1> SUFFICES ASSUME TypeInv PROVE TypeOK
  OBVIOUS
<1>1. GatewayTypeOK
  <2>1. free \in 0 .. Slots
    BY SomeCalls, GatewayAssumption DEF TypeInv, SlotInv
  <2> QED
    BY <2>1 DEF TypeInv, SlotInv, CallTypes, CeilingInv, Counts, GatewayTypeOK
<1>2. FlightTypeOK
  BY DEF TypeInv, CeilingInv, FollowInv, FlightInv, FlightOK, RoundTypes, FlightTypeOK
<1>3. round \in [Runs -> Nat \ {0}] /\ \A r \in Runs : round[r] <= Rounds[r] + 2
  BY RoundAssumption DEF TypeInv, CeilingInv, Counts, RoundTypes
<1> QED
  BY <1>1, <1>2, <1>3 DEF TypeOK, TypeInv, CeilingInv, FollowInv, StagesOK, Counts, Summed, RoundTypes

\* The sums in checkpoints and the counts of slots are numbers, and no run's
\* round passes its end, whatever its chain, its slots and its ceiling.
THEOREM TypesKept == Spec => []TypeOK
<1>1. Init => TypeInv
  BY TypeInit
<1>2. TypeInv /\ [Next]_vars => TypeInv'
  BY TypeKept
<1>3. TypeInv => TypeOK
  BY TypesHold
<1> QED
  BY <1>1, <1>2, <1>3, PTL DEF Spec

\* RunBudgetGuard: side by side, researchers pass the ceiling by no more than
\* one call each, in any run, however it was torn, crashed and resumed.
THEOREM CeilingHolds == Spec => []OverspendBounded
<1>1. Init => TypeInv
  BY TypeInit
<1>2. TypeInv /\ [Next]_vars => TypeInv'
  BY TypeKept
<1>3. TypeInv => OverspendBounded
  BY CeilingBounds DEF TypeInv
<1> QED
  BY <1>1, <1>2, <1>3, PTL DEF Spec

-----------------------------------------------------------------------------
(* What was paid *)

\* What a researcher has reported or will, with what its answered call cost.
Due == [c \in Callers |-> used[c] + cost[c]]

Owed(r) == checkpoint[r] + Total(Due, Team(r)) + cost[WriterOf[r]]

\* A cost is that of a call whose answer nobody has used.
Answered == \A c \in Calls : cost[c] # 0 => call[c] = "answered"

PaidFor(r) ==
    /\ row[r] <= checkpoint[r]
    /\ Owed(r) <= paid[r]
    /\ spent[r] # NotEnrolled => spent[r] <= paid[r]

Numeric == CallTypes /\ Summed /\ Counts

LEMMA DueTypes ==
    ASSUME Numeric, NEW r \in Runs
    PROVE  /\ \A c \in Team(r) : Due[c] \in Nat /\ Due[c] = used[c] + cost[c] /\ used[c] \in Nat /\ cost[c] \in Nat
           /\ Total(Due, Team(r)) \in Nat
           /\ checkpoint[r] \in Nat /\ row[r] \in Nat /\ paid[r] \in Nat /\ cost[WriterOf[r]] \in Nat
<1>1. \A c \in Calls : cost[c] \in Nat
  BY GatewayAssumption DEF Numeric, CallTypes
<1>2. \A c \in Team(r) : Due[c] \in Nat /\ Due[c] = used[c] + cost[c] /\ used[c] \in Nat /\ cost[c] \in Nat
  BY <1>1, Teams DEF Numeric, Summed, Due
<1>3. Total(Due, Team(r)) \in Nat
  BY <1>2, Teams, TotalType
<1> QED
  BY <1>1, <1>2, <1>3, RunsOfCalls DEF Numeric, CallTypes, Summed, Counts

\* A step after which a run owes no more keeps it paid for, also when it enrols
\* it from its row or brings the row up to the checkpoint.
LEMMA OwesNoMore ==
    ASSUME Numeric, Numeric', NEW r \in Runs, PaidFor(r),
           checkpoint'[r] = checkpoint[r], paid'[r] = paid[r],
           row'[r] \in {row[r], checkpoint[r]}, spent'[r] \in {spent[r], row[r], NotEnrolled},
           cost'[WriterOf[r]] <= cost[WriterOf[r]],
           \A c \in Team(r) : used'[c] + cost'[c] <= used[c] + cost[c]
    PROVE  PaidFor(r)'
<1> DEFINE old == Due
           new == Due'
<1>1. \A c \in Team(r) : old[c] \in Nat /\ new[c] \in Nat /\ new[c] <= old[c]
  <2>1. ASSUME NEW c \in Team(r) PROVE old[c] = used[c] + cost[c] /\ new[c] = used'[c] + cost'[c] /\ old[c] \in Nat
    BY DueTypes, Teams DEF Due
  <2>2. ASSUME NEW c \in Team(r) PROVE new[c] \in Nat
    BY <2>1, Teams, GatewayAssumption DEF Numeric, Summed, CallTypes
  <2> QED
    BY <2>1, <2>2
<1> HIDE DEF old, new
<1>2. Total(old, Team(r)) \in Nat /\ Total(new, Team(r)) \in Nat /\ Total(new, Team(r)) <= Total(old, Team(r))
  BY <1>1, Teams, TotalType, TotalMonotone
<1>3. Owed(r) = checkpoint[r] + Total(old, Team(r)) + cost[WriterOf[r]]
  BY DEF Owed, old
<1>4. Owed(r)' = checkpoint'[r] + Total(new, Team(r)) + cost'[WriterOf[r]]
  BY DEF Owed, new
<1>5. checkpoint[r] \in Nat /\ row[r] \in Nat /\ paid[r] \in Nat /\ cost[WriterOf[r]] \in Nat /\ cost'[WriterOf[r]] \in Nat
  BY DueTypes, RunsOfCalls, GatewayAssumption DEF Numeric, CallTypes
<1>6. Owed(r)' <= Owed(r) /\ checkpoint[r] <= Owed(r) /\ Owed(r) \in Nat /\ Owed(r)' \in Nat
  BY <1>2, <1>3, <1>4, <1>5
<1>7. row'[r] <= checkpoint'[r] /\ row[r] <= paid[r]
  BY <1>5, <1>6 DEF PaidFor
<1>8. spent'[r] # NotEnrolled => spent'[r] <= paid'[r]
  BY <1>7 DEF PaidFor
<1> QED
  BY <1>5, <1>6, <1>7, <1>8 DEF PaidFor

\* Calls that a step of one call leaves as they are, but for a slot.
LEMMA AnsweredStep ==
    ASSUME Answered, CallTypes, NEW c \in Calls, Attempt(c) \/ Answer(c) \/ Err(c)
    PROVE  Answered'
<1>1. CASE Attempt(c)
  <2>1. call[c] \in Attempting /\ cost' = cost
    BY <1>1 DEF Attempt, Authorise, Refuse, PassOver, budget
  <2>2. cost[c] = 0
    BY <2>1 DEF Answered, Attempting
  <2> QED
    BY <1>1, <2>1, <2>2, Attempts DEF Answered
<1>2. CASE Err(c)
  <2>1. call[c] = "calling" /\ cost' = cost
    BY <1>2 DEF Err, budget
  <2>2. cost[c] = 0
    BY <2>1 DEF Answered
  <2>3. \A d \in Calls \ {c} : call'[d] # call[d] => call[d] = "queued"
    BY <1>2, Ends
  <2> QED
    BY <2>1, <2>2, <2>3 DEF Answered
<1>3. CASE Answer(c)
  <2>1. PICK n \in 0 .. MaxCost : cost' = [cost EXCEPT ![c] = n]
    BY <1>3, Answers
  <2>2. \A d \in Calls \ {c} : cost'[d] = cost[d] /\ (call'[d] # call[d] => call[d] = "queued")
    BY <1>3, <2>1, Ends DEF CallTypes
  <2>3. call'[c] = "answered"
    BY <1>3 DEF Answer, Goes
  <2> QED
    BY <2>2, <2>3 DEF Answered
<1> QED
  BY <1>1, <1>2, <1>3

LEMMA AnsweredDrop ==
    ASSUME Answered, NEW who, Drop(who)
    PROVE  Answered'
<1>1. ASSUME NEW d \in Calls, cost'[d] # 0 PROVE d \notin who /\ cost'[d] = cost[d]
  BY <1>1 DEF Drop
<1>2. ASSUME NEW d \in Calls, d \notin who, call[d] = "answered" PROVE call'[d] = "answered"
  BY <1>2 DEF Drop
<1> QED
  BY <1>1, <1>2 DEF Answered

\* What is dropped is owed no more.
LEMMA DropsCost ==
    ASSUME CallTypes, NEW who, Drop(who), NEW c \in Calls
    PROVE  cost'[c] = (IF c \in who THEN 0 ELSE cost[c]) /\ cost'[c] <= cost[c] /\ cost[c] \in Nat
  BY GatewayAssumption DEF Drop, CallTypes

\* A step that does not move money.
Stays(r) ==
    /\ checkpoint'[r] = checkpoint[r] /\ paid'[r] = paid[r]
    /\ row'[r] = row[r] /\ spent'[r] \in {spent[r], row[r], NotEnrolled}

PaidInv == Answered /\ \A r \in Runs : PaidFor(r)

MoneyInv == TypeInv /\ PaidInv

LEMMA NumbersToo == TypeInv => Numeric
  BY DEF TypeInv, CeilingInv, Numeric

\* The answer of a run's call is owed, and paid for.
LEMMA AnswerPaid ==
    ASSUME MoneyInv, Numeric', NEW c \in Calls, Making(c), Answer(c), UNCHANGED <<progress, used>>, NEW r \in Runs
    PROVE  PaidFor(r)'
<1>1. PICK n \in 0 .. MaxCost : Charge(RunOf[c], n) /\ cost' = [cost EXCEPT ![c] = n]
  BY Answers
<1>2. Numeric /\ PaidFor(r) /\ n \in Nat
  BY NumbersToo, GatewayAssumption DEF MoneyInv, PaidInv
<1>3. \A d \in Calls : cost'[d] = IF d = c THEN n ELSE cost[d]
  BY <1>1, <1>2 DEF Numeric, CallTypes
<1>4. cost[c] = 0
  BY DEF Answer, MoneyInv, PaidInv, Answered
<1>5. checkpoint' = checkpoint /\ row' = row /\ used' = used
  BY DEF progress
<1>6. CASE r # RunOf[c]
  <2>1. paid'[r] = paid[r] /\ spent'[r] = spent[r]
    BY <1>1, <1>2, <1>6 DEF Charge, Numeric, CallTypes, Counts
  <2>2. c \notin Team(r) /\ WriterOf[r] # c
    BY <1>6, RunsOfCalls DEF Team
  <2>3. \A d \in Team(r) : used'[d] + cost'[d] <= used[d] + cost[d]
    BY <1>2, <1>3, <1>5, <2>2, DueTypes, Teams
  <2>4. cost'[WriterOf[r]] <= cost[WriterOf[r]]
    BY <1>2, <1>3, <2>2, DueTypes, RunsOfCalls
  <2> QED
    BY <1>2, <1>5, <2>1, <2>3, <2>4, OwesNoMore
<1>7. CASE r = RunOf[c]
  <2>1. /\ paid'[r] = paid[r] + n
        /\ spent'[r] = IF spent[r] = NotEnrolled THEN spent[r] ELSE spent[r] + n
    BY <1>1, <1>2, <1>7 DEF Charge, Numeric, CallTypes, Counts
  <2>2. Owed(r)' = Owed(r) + n
    <3> DEFINE old == Due
               new == Due'
    <3>1. /\ Owed(r) = checkpoint[r] + Total(old, Team(r)) + cost[WriterOf[r]]
          /\ Owed(r)' = checkpoint[r] + Total(new, Team(r)) + cost'[WriterOf[r]]
      BY <1>5 DEF Owed
    <3>2. \A d \in Team(r) : old[d] = used[d] + cost[d] /\ new[d] = used[d] + cost'[d]
      BY <1>5, Teams DEF Due
    <3>3. \A d \in Team(r) : used[d] \in Nat /\ cost[d] \in Nat /\ old[d] \in Nat
      BY <1>2, DueTypes
    <3>4. checkpoint[r] \in Nat /\ cost[WriterOf[r]] \in Nat /\ Total(old, Team(r)) \in Nat
      BY <1>2, DueTypes
    <3> HIDE DEF old, new
    <3>5. CASE c \in Team(r)
      <4>1. WriterOf[r] # c
        BY <3>5, RunsOfCalls DEF Team
      <4>2. cost'[WriterOf[r]] = cost[WriterOf[r]]
        BY <1>3, <4>1, RunsOfCalls
      <4>3. \A d \in Team(r) : new[d] \in Nat
        BY <1>2, <1>3, <3>2, <3>3, Teams
      <4>4. \A d \in Team(r) \ {c} : new[d] = old[d]
        BY <1>3, <3>2, Teams
      <4>5. Total(new, Team(r)) = Total(old, Team(r)) + (new[c] - old[c])
        BY <3>3, <3>5, <4>3, <4>4, Teams, TotalOfOne
      <4>6. new[c] - old[c] = n
        BY <1>2, <1>3, <1>4, <3>2, <3>3, <3>5, Teams
      <4> QED
        BY <1>2, <3>1, <3>4, <4>2, <4>5, <4>6
    <3>6. CASE c \notin Team(r)
      <4>1. c = WriterOf[r]
        BY <1>7, <3>6 DEF Making, Team
      <4>2. \A d \in Team(r) : d # c
        BY <3>6
      <4>3. \A d \in Team(r) : new[d] = old[d]
        BY <1>3, <3>2, <4>2, Teams
      <4>4. Total(new, Team(r)) = Total(old, Team(r))
        BY <3>3, <4>3, Teams, TotalSame
      <4>5. cost'[WriterOf[r]] = n /\ cost[WriterOf[r]] = 0
        BY <1>3, <1>4, <4>1
      <4> QED
        BY <1>2, <3>1, <3>4, <4>4, <4>5
    <3> QED
      BY <3>5, <3>6
  <2>3. Owed(r) \in Nat /\ paid[r] \in Nat /\ spent[r] \in Nat \cup {NotEnrolled}
    BY <1>2, DueTypes DEF Owed, Numeric, Counts
  <2>4. spent'[r] # NotEnrolled => spent'[r] <= paid'[r]
    BY <1>2, <2>1, <2>3 DEF PaidFor
  <2>5. Owed(r)' <= paid'[r]
    BY <1>2, <2>1, <2>2, <2>3 DEF PaidFor
  <2> QED
    BY <1>2, <1>5, <2>4, <2>5 DEF PaidFor
<1> QED
  BY <1>6, <1>7

\* Nothing is owed by researchers that have returned but what they reported;
\* and that becomes the checkpoint's.
LEMMA BoundaryPaid ==
    ASSUME MoneyInv, Numeric', NEW r \in Runs, Boundary(r)
    PROVE  PaidFor(r)'
<1>1. Numeric /\ PaidFor(r)
  BY NumbersToo DEF MoneyInv, PaidInv
<1>2. ASSUME NEW c \in Team(r) PROVE cost[c] = 0
  <2>1. c \in Calls /\ c \in Callers /\ outcome[c] # "todo" /\ c # WriterOf[RunOf[c]]
    BY RunsOfCalls, Teams DEF Boundary, Returned, Team
  <2>2. call[c] = "idle"
    BY <2>1 DEF MoneyInv, TypeInv, CeilingInv, FollowInv, CallInv, Busy, Making, AtWork
  <2> QED
    BY <2>1, <2>2 DEF MoneyInv, PaidInv, Answered
<1>3. \A c \in Team(r) : Due[c] = used[c] /\ used[c] \in Nat
  BY <1>1, <1>2, DueTypes
<1>4. Total(Due, Team(r)) = Reported(r) /\ Reported(r) \in Nat
  BY <1>1, <1>3, Teams, TotalSame, ReportsAreCosts DEF Numeric
<1>5. /\ cost' = cost /\ row' = row /\ paid' = paid /\ spent' = spent
      /\ checkpoint'[r] = checkpoint[r] + Reported(r)
      /\ \A c \in Team(r) : used'[c] = 0
  BY <1>1, Teams DEF Boundary, gateway, Forgets, Numeric, Summed
<1>6. Owed(r)' = Owed(r)
  <2> DEFINE new == Due'
  <2>1. \A c \in Team(r) : new[c] = 0
    BY <1>2, <1>5, Teams DEF Due
  <2>2. Owed(r)' = checkpoint'[r] + Total(new, Team(r)) + cost[WriterOf[r]]
    BY <1>5 DEF Owed
  <2> HIDE DEF new
  <2>3. Total(new, Team(r)) = 0
    BY <2>1, Teams, TotalOfNothing
  <2> QED
    BY <1>1, <1>4, <1>5, <2>2, <2>3, DueTypes DEF Owed
<1> QED
  BY <1>1, <1>4, <1>5, <1>6, DueTypes DEF PaidFor

\* The report's cost, which was owed, becomes the checkpoint's.
LEMMA WrittenPaid ==
    ASSUME MoneyInv, Numeric', NEW r \in Runs, Written(r)
    PROVE  PaidFor(r)'
<1>1. Numeric /\ PaidFor(r) /\ CallTypes
  BY NumbersToo DEF MoneyInv, PaidInv, Numeric
<1>2. /\ Drop({WriterOf[r]}) /\ UNCHANGED <<spent, paid, row, used>>
      /\ checkpoint'[r] = checkpoint[r] + cost[WriterOf[r]]
  BY <1>1 DEF Written, returned, Numeric, Summed
<1>3. \A c \in Calls : cost'[c] = IF c = WriterOf[r] THEN 0 ELSE cost[c]
  BY <1>1, <1>2, DropsCost
<1>4. Owed(r)' = Owed(r)
  <2> DEFINE old == Due
             new == Due'
  <2>1. \A c \in Team(r) : old[c] \in Nat /\ new[c] = old[c]
    <3>1. ASSUME NEW c \in Team(r) PROVE new[c] = used[c] + cost[c]
      BY <1>2, <1>3, Teams, RunsOfCalls DEF Due, Team
    <3> QED
      BY <1>1, <3>1, DueTypes
  <2>2. /\ Owed(r) = checkpoint[r] + Total(old, Team(r)) + cost[WriterOf[r]]
        /\ Owed(r)' = checkpoint'[r] + Total(new, Team(r)) + cost'[WriterOf[r]]
    BY DEF Owed
  <2>3. Total(old, Team(r)) \in Nat
    BY <1>1, DueTypes
  <2> HIDE DEF old, new
  <2>4. Total(new, Team(r)) = Total(old, Team(r))
    BY <2>1, Teams, TotalSame
  <2>5. cost'[WriterOf[r]] = 0
    BY <1>3, RunsOfCalls
  <2> QED
    BY <1>1, <1>2, <2>2, <2>3, <2>4, <2>5, DueTypes
<1> QED
  BY <1>1, <1>2, <1>4, DueTypes DEF PaidFor

\* Runs a step takes nothing to, and nothing from.
LEMMA OthersStay ==
    ASSUME MoneyInv, Numeric', NEW r \in Runs, Stays(r),
           \A c \in Members(r) : cost'[c] <= cost[c],
           \A c \in Team(r) : used'[c] <= used[c]
    PROVE  PaidFor(r)'
<1>1. Numeric /\ PaidFor(r)
  BY NumbersToo DEF MoneyInv, PaidInv
<1>2. WriterOf[r] \in Members(r) /\ Team(r) \subseteq Members(r)
  BY DEF Members
<1>3. ASSUME NEW c \in Team(r) PROVE used'[c] + cost'[c] <= used[c] + cost[c]
  <2>1. used[c] \in Nat /\ cost[c] \in Nat /\ used'[c] \in Nat /\ cost'[c] \in Nat
    BY <1>1, Teams, GatewayAssumption DEF Numeric, Summed, CallTypes
  <2> QED
    BY <1>2, <2>1
<1> QED
  BY <1>1, <1>2, <1>3, OwesNoMore DEF Stays

LEMMA PaidKept ==
    ASSUME MoneyInv, TypeInv', [Next]_vars
    PROVE  PaidInv'
<1> Numeric /\ Numeric' /\ CallTypes /\ Answered
  <2>1. Numeric /\ Numeric'
    BY NumbersToo DEF MoneyInv, TypeInv, CeilingInv, Numeric
  <2> QED
    BY <2>1 DEF Numeric, MoneyInv, PaidInv
<1>1. ASSUME NEW r \in Runs, Enrol(r) \/ Torn(r) PROVE PaidInv'
  <2>1. UNCHANGED <<call, cost, paid, checkpoint, row>>
    BY <1>1 DEF Enrol, Torn
  <2>2. ASSUME NEW s \in Runs PROVE spent'[s] \in {spent[s], row[s], NotEnrolled}
    BY <1>1 DEF Enrol, Torn, Enters, Leaves, Numeric, Counts
  <2>3. ASSUME NEW c \in Callers PROVE used'[c] <= used[c]
    BY <1>1 DEF Enrol, Torn, Forgets, returned, Numeric, Summed
  <2>4. ASSUME NEW s \in Runs PROVE PaidFor(s)'
    <3>1. \A c \in Members(s) : cost'[c] <= cost[c]
      BY <2>1, RunsOfCalls, Teams, GatewayAssumption DEF Members, CallTypes
    <3> QED
      BY <2>1, <2>2, <2>3, <3>1, OthersStay, Teams DEF Stays
  <2> QED
    BY <2>1, <2>4 DEF PaidInv, Answered
<1>2. ASSUME NEW r \in Runs, Advance(r) PROVE PaidInv'
  <2>1. UNCHANGED <<call, cost, paid, checkpoint, used>>
    BY <1>2 DEF Advance, returned
  <2>2. ASSUME NEW s \in Runs
        PROVE  spent'[s] \in {spent[s], row[s], NotEnrolled} /\ row'[s] \in {row[s], checkpoint[s]}
    BY <1>2 DEF Advance, Enters, Numeric, Counts
  <2>3. ASSUME NEW s \in Runs PROVE PaidFor(s)'
    <3>1. /\ cost'[WriterOf[s]] <= cost[WriterOf[s]]
          /\ \A c \in Team(s) : used'[c] + cost'[c] <= used[c] + cost[c]
      BY <2>1, DueTypes
    <3> QED
      BY <2>1, <2>2, <3>1, OwesNoMore DEF MoneyInv, PaidInv
  <2> QED
    BY <2>1, <2>3 DEF PaidInv, Answered
<1>3. ASSUME NEW r \in Runs, Boundary(r) PROVE PaidInv'
  <2>1. UNCHANGED <<call, cost, paid, row, spent>>
    BY <1>3 DEF Boundary, gateway
  <2>2. ASSUME NEW s \in Runs \ {r} PROVE PaidFor(s)'
    <3>1. checkpoint'[s] = checkpoint[s]
      BY <1>3 DEF Boundary, Numeric, Summed
    <3>2. \A c \in Team(s) : used'[c] <= used[c]
      BY <1>3, Teams DEF Boundary, Forgets, Numeric, Summed
    <3>3. \A c \in Members(s) : cost'[c] <= cost[c]
      BY <2>1, RunsOfCalls, Teams, GatewayAssumption DEF Members, CallTypes
    <3> QED
      BY <2>1, <3>1, <3>2, <3>3, OthersStay DEF Stays
  <2> QED
    BY <1>3, <2>1, <2>2, BoundaryPaid DEF PaidInv, Answered
<1>4. ASSUME NEW r \in Runs, Written(r) PROVE PaidInv'
  <2>1. Drop({WriterOf[r]}) /\ UNCHANGED <<paid, row, spent, used>>
    BY <1>4 DEF Written, returned
  <2>2. ASSUME NEW s \in Runs \ {r} PROVE PaidFor(s)'
    <3>1. checkpoint'[s] = checkpoint[s]
      BY <1>4 DEF Written, Numeric, Summed
    <3>2. \A c \in Team(s) : used'[c] <= used[c]
      BY <2>1, DueTypes
    <3>3. \A c \in Members(s) : cost'[c] <= cost[c]
      BY <2>1, RunsOfCalls, Teams, DropsCost DEF Members
    <3> QED
      BY <2>1, <3>1, <3>2, <3>3, OthersStay DEF Stays
  <2> QED
    BY <1>4, <2>1, <2>2, WrittenPaid, AnsweredDrop DEF PaidInv
<1>5. ASSUME NEW who, Drop(who), UNCHANGED <<paid, checkpoint, row>>,
             \A s \in Runs : spent'[s] \in {spent[s], NotEnrolled},
             \A c \in Callers : used'[c] <= used[c]
      PROVE  PaidInv'
  <2>1. ASSUME NEW s \in Runs PROVE PaidFor(s)'
    <3>1. \A c \in Members(s) : cost'[c] <= cost[c]
      BY <1>5, RunsOfCalls, Teams, DropsCost DEF Members
    <3> QED
      BY <1>5, <3>1, OthersStay, Teams DEF Stays
  <2> QED
    BY <1>5, <2>1, AnsweredDrop DEF PaidInv
<1>6. ASSUME NEW r \in Runs, WriterFails(r) \/ WriterTimesOut(r) PROVE PaidInv'
  <2>1. \A s \in Runs : spent'[s] \in {spent[s], NotEnrolled}
    BY <1>6 DEF WriterFails, WriterTimesOut, Undone, Leaves, Numeric, Counts
  <2>2. \A c \in Callers : used'[c] <= used[c]
    BY <1>6 DEF WriterFails, WriterTimesOut, Undone, returned, Numeric, Summed
  <2> QED
    BY <1>5, <1>6, <2>1, <2>2 DEF WriterFails, WriterTimesOut, Undone
<1>7. CASE Crash
  <2>1. \A s \in Runs : spent'[s] \in {spent[s], NotEnrolled}
    BY <1>7 DEF Crash
  <2>2. \A c \in Callers : used'[c] <= used[c]
    BY <1>7 DEF Crash, Forgets, Numeric, Summed
  <2> QED
    BY <1>5, <1>7, <2>1, <2>2 DEF Crash
<1>8. ASSUME NEW c \in Callers, Gives(c) \/ Loses(c) \/ Timeout(c) PROVE PaidInv'
  <2>1. Drop({c}) /\ UNCHANGED <<paid, checkpoint, row, spent>>
    BY <1>8 DEF Gives, Loses, Returns, Timeout, progress
  <2>2. \A d \in Callers : used'[d] <= used[d]
    BY <1>8 DEF Gives, Loses, Returns, Timeout, Numeric, Summed
  <2> QED
    BY <1>5, <2>1, <2>2
<1>9. ASSUME NEW c \in Callers, Searches(c) \/ Finishes(c) PROVE PaidInv'
  <2>1. /\ Drop({c}) /\ UNCHANGED <<paid, checkpoint, row, spent>>
        /\ used' = [used EXCEPT ![c] = used[c] + cost[c]]
    BY <1>9 DEF Searches, Finishes, Returns, progress
  <2>2. ASSUME NEW s \in Runs PROVE PaidFor(s)'
    <3>1. cost'[WriterOf[s]] <= cost[WriterOf[s]]
      BY <2>1, RunsOfCalls, DropsCost
    <3>2. ASSUME NEW d \in Team(s) PROVE used'[d] + cost'[d] <= used[d] + cost[d]
      <4>1. d \in Callers /\ cost'[d] = (IF d = c THEN 0 ELSE cost[d]) /\ cost[d] \in Nat /\ used[d] \in Nat
        BY <2>1, Teams, DropsCost, DueTypes
      <4>2. used'[d] = IF d = c THEN used[d] + cost[d] ELSE used[d]
        BY <2>1, <4>1 DEF Numeric, Summed
      <4> QED
        BY <4>1, <4>2
    <3> QED
      BY <2>1, <3>1, <3>2, OwesNoMore DEF MoneyInv, PaidInv
  <2> QED
    BY <2>1, <2>2, AnsweredDrop DEF PaidInv
<1>10. ASSUME UNCHANGED <<call, gateway, progress, used>> PROVE PaidInv'
  <2>1. ASSUME NEW s \in Runs PROVE PaidFor(s)'
    <3>1. \A c \in Members(s) : cost'[c] <= cost[c]
      BY <1>10, RunsOfCalls, Teams, GatewayAssumption DEF Members, gateway, CallTypes
    <3>2. \A c \in Team(s) : used'[c] <= used[c]
      BY <1>10, DueTypes
    <3> QED
      BY <1>10, <3>1, <3>2, OthersStay DEF Stays, gateway, progress
  <2> QED
    BY <1>10, <2>1 DEF PaidInv, Answered, gateway
<1>11. ASSUME NEW c \in Calls, Making(c), Attempt(c) \/ Answer(c) \/ Err(c), UNCHANGED <<progress, used>>
       PROVE  PaidInv'
  <2>1. CASE Attempt(c) \/ Err(c)
    <3>1. UNCHANGED <<spent, paid, cost>>
      BY <2>1 DEF Attempt, Authorise, Refuse, PassOver, Err, budget
    <3>2. ASSUME NEW s \in Runs PROVE PaidFor(s)'
      <4>1. \A d \in Members(s) : cost'[d] <= cost[d]
        BY <3>1, RunsOfCalls, Teams, GatewayAssumption DEF Members, CallTypes
      <4>2. \A d \in Team(s) : used'[d] <= used[d]
        BY <1>11, DueTypes
      <4> QED
        BY <1>11, <3>1, <4>1, <4>2, OthersStay DEF Stays, progress
    <3> QED
      BY <2>1, <3>2, AnsweredStep DEF PaidInv
  <2>2. CASE Answer(c)
    BY <1>11, <2>2, AnswerPaid, AnsweredStep DEF PaidInv
  <2> QED
    BY <1>11, <2>1, <2>2
<1>12. ASSUME NEW r \in Runs, Writes(r) PROVE PaidInv'
  BY <1>11, <1>12, RunsOfCalls DEF Writes, Making, returned
<1>13. ASSUME NEW c \in Callers, Asks(c) PROVE PaidInv'
  BY <1>11, <1>13, RunsOfCalls DEF Asks, Making, returned
<1>14. ASSUME NEW c \in Calls, CallGoesOn(c) \/ CallErrs(c) PROVE PaidInv'
  <2>1. /\ call[c] # "idle" /\ UNCHANGED <<progress, used>>
        /\ Attempt(c) \/ Answer(c) \/ Err(c)
    BY <1>14 DEF CallGoesOn, CallErrs, Err, returned
  <2>2. Making(c)
    BY <2>1 DEF MoneyInv, TypeInv, CeilingInv, FollowInv, CallInv, Busy
  <2> QED
    BY <1>11, <2>1, <2>2
<1>15. ASSUME NEW c \in Callers, SearchGoesOn(c) \/ SearchFails(c) PROVE PaidInv'
  BY <1>10, <1>15 DEF SearchGoesOn, SearchFails, gateway, returned
<1>16. CASE EntryExpires \/ UNCHANGED vars
  BY <1>10, <1>16 DEF EntryExpires, vars, gateway, returned
<1> QED
  BY <1>1, <1>2, <1>3, <1>4, <1>6, <1>7, <1>8, <1>9, <1>12, <1>13, <1>14, <1>15, <1>16
     DEF Next, RunGoesOn, ResearcherGoesOn

LEMMA MoneyInit == Init => MoneyInv
<1> SUFFICES ASSUME Init PROVE MoneyInv
  OBVIOUS
<1>1. TypeInv
  BY TypeInit
<1>2. ASSUME NEW r \in Runs PROVE PaidFor(r)
  <2>1. \A c \in Team(r) : Due[c] = 0
    BY Teams DEF Init, GatewayInit, Due
  <2>2. Total(Due, Team(r)) = 0
    BY <2>1, Teams, TotalOfNothing
  <2>3. checkpoint[r] = 0 /\ row[r] = 0 /\ paid[r] = 0 /\ cost[WriterOf[r]] = 0 /\ spent[r] = NotEnrolled
    BY RunsOfCalls DEF Init, GatewayInit
  <2> QED
    BY <2>2, <2>3 DEF PaidFor, Owed
<1>3. Answered
  BY DEF Init, GatewayInit, Answered
<1> QED
  BY <1>1, <1>2, <1>3 DEF MoneyInv, PaidInv

LEMMA PaidOnce == MoneyInv => NothingCountedTwice
<1> SUFFICES ASSUME MoneyInv, NEW r \in Runs PROVE checkpoint[r] + Reported(r) <= paid[r]
  BY DEF MoneyInv, PaidInv, PaidFor, NothingCountedTwice
<1>1. Numeric /\ PaidFor(r)
  BY NumbersToo DEF MoneyInv, PaidInv
<1>2. \A c \in Team(r) : used[c] \in Nat /\ Due[c] \in Nat /\ used[c] <= Due[c]
  BY <1>1, DueTypes
<1>3. Total(used, Team(r)) <= Total(Due, Team(r))
  BY <1>2, Teams, TotalMonotone
<1>4. Reported(r) = Total(used, Team(r)) /\ Reported(r) \in Nat
  BY <1>1, ReportsAreCosts DEF Numeric
<1> QED
  BY <1>1, <1>3, <1>4, DueTypes DEF PaidFor, Owed

\* However a round is torn, timed out, crashed and run again, what a run's row,
\* its checkpoint, its researchers and its guard count is never more than what
\* its calls were paid: each answer is counted by one of them, at most.
THEOREM CostsCountedOnce == Spec => []NothingCountedTwice
<1>1. Init => MoneyInv
  BY MoneyInit
<1>2. MoneyInv /\ [Next]_vars => MoneyInv'
  BY TypeKept, PaidKept DEF MoneyInv
<1>3. MoneyInv => NothingCountedTwice
  BY PaidOnce
<1> QED
  BY <1>1, <1>2, <1>3, PTL DEF Spec

-----------------------------------------------------------------------------
(* Nobody is stuck *)

\* What can take its next step: the conjuncts of CallGoesOn, SearchGoesOn,
\* ResearcherGoesOn and RunGoesOn.
CallCan(c) == call[c] \in {"pausing", "moving", "calling"}

SearchCan(c) == sought[c] \in {"looking", "missed", "leading", "storing"}

ResearcherCan(c) ==
    /\ AtWork(c)
    /\ \/ call[c] \in {"refused", "errored"}
       \/ sought[c] \in {"failed", "cancelled"}
       \/ sought[c] \in {"out", "found"} /\ call[c] \in {"idle", "answered"}

RunCan(r) ==
    \/ stage[r] \in {"away", "reporting"}
    \/ stage[r] = "researching" /\ \A c \in Team(r) : outcome[c] # "todo"
    \/ stage[r] = "writing" /\ call[WriterOf[r]] \in {"idle", "answered", "errored"}

\* What waits, waits for something that can: a queued call for a call that holds
\* a slot, a shared search for its leader, of whichever run.
WaitsForCall(c) == call[c] = "queued" /\ \E d \in Calls : call[d] = "calling" /\ CallCan(d)

WaitsForSearch(c) == sought[c] = "waiting" /\ leader \in Callers /\ SearchCan(leader)

CanGoOn(r) ==
    \/ RunCan(r)
    \/ \E c \in Members(r) : CallCan(c) \/ WaitsForCall(c)
    \/ \E c \in Team(r) : ResearcherCan(c) \/ SearchCan(c) \/ WaitsForSearch(c)

\* Whoever finishes the run is not refused for want of an allowance.
WriterHeard == \A c \in Exempt : call[c] # "refused"

LEMMA WriterHeardKept == WriterHeard /\ [Next]_vars => WriterHeard'
<1> SUFFICES ASSUME WriterHeard, [Next]_vars, NEW d \in Exempt
             PROVE  call'[d] # "refused"
  BY DEF WriterHeard
<1>1. d \in Calls /\ call[d] # "refused"
  BY GatewayAssumption DEF WriterHeard
<1>2. ASSUME NEW c \in Calls, Attempt(c) PROVE call'[d] # "refused"
  <2>1. CASE Authorise(c)
    <3>1. PICK p \in {"calling", "queued"} : Goes(c, p)
      BY <2>1 DEF Authorise
    <3> QED
      BY <1>1, <3>1 DEF Goes
  <2>2. CASE Refuse(c)
    <3>1. c # d
      BY <2>2 DEF Refuse, Exhausted, Governed
    <3> QED
      BY <1>1, <1>2, <3>1, Attempts
  <2>3. CASE PassOver(c)
    <3>1. PICK p \in {"pausing", "moving", "errored"} : Goes(c, p)
      BY <2>3 DEF PassOver, Raises
    <3> QED
      BY <1>1, <3>1 DEF Goes
  <2> QED
    BY <1>2, <2>1, <2>2, <2>3 DEF Attempt
<1>3. ASSUME NEW c \in Calls, Answer(c) \/ Err(c) PROVE call'[d] # "refused"
  <2>1. PICK p \in {"answered", "pausing", "moving", "errored"} : Goes(c, p)
    BY <1>3 DEF Answer, Err, Raises
  <2> QED
    BY <1>1, <2>1 DEF Goes
<1>4. ASSUME NEW who, Drop(who) PROVE call'[d] # "refused"
  BY <1>1, <1>4 DEF Drop
<1>5. ASSUME NEW r \in Runs, RunGoesOn(r) \/ WriterTimesOut(r) PROVE call'[d] # "refused"
  <2>1. CASE Writes(r)
    BY <1>2, <2>1, RunsOfCalls DEF Writes
  <2>2. CASE Written(r) \/ WriterFails(r) \/ WriterTimesOut(r)
    BY <1>4, <2>2 DEF Written, WriterFails, WriterTimesOut, Undone
  <2>3. CASE Enrol(r) \/ Torn(r) \/ Boundary(r) \/ Advance(r)
    BY <1>1, <2>3 DEF Enrol, Torn, Boundary, Advance, gateway
  <2> QED
    BY <1>5, <2>1, <2>2, <2>3 DEF RunGoesOn
<1>6. ASSUME NEW c \in Callers, ResearcherGoesOn(c) \/ Timeout(c) PROVE call'[d] # "refused"
  <2>1. CASE Asks(c)
    BY <1>2, <2>1, RunsOfCalls DEF Asks
  <2>2. CASE Searches(c) \/ Finishes(c) \/ Gives(c) \/ Loses(c) \/ Timeout(c)
    BY <1>4, <2>2 DEF Searches, Finishes, Gives, Loses, Returns, Timeout
  <2> QED
    BY <1>6, <2>1, <2>2 DEF ResearcherGoesOn
<1>7. ASSUME NEW c \in Calls, CallGoesOn(c) \/ CallErrs(c) PROVE call'[d] # "refused"
  BY <1>2, <1>3, <1>7 DEF CallGoesOn, CallErrs
<1>8. CASE Crash
  BY <1>4, <1>8 DEF Crash
<1>9. ASSUME UNCHANGED call PROVE call'[d] # "refused"
  BY <1>1, <1>9
<1> QED
  BY <1>5, <1>6, <1>7, <1>8, <1>9
     DEF Next, SearchGoesOn, SearchFails, EntryExpires, vars, gateway

\* A call that queues waits for one that holds a slot: there are slots, and none
\* is free.
LEMMA QueuedWaits == ASSUME SlotInv, NEW c \in Calls, call[c] = "queued" PROVE WaitsForCall(c)
<1>1. queue # <<>> /\ Slots \in Nat \ {0}
  BY GatewayAssumption DEF SlotInv, InPhase, ToSet
<1>2. Cardinality(InPhase("calling")) # 0
  BY <1>1 DEF SlotInv
<1>3. InPhase("calling") # {}
  BY <1>2, FS_EmptySet
<1> QED
  BY <1>3 DEF InPhase, WaitsForCall, CallCan

\* A researcher at work can go on, or waits for something that can.
LEMMA ResearchersCan ==
    ASSUME FollowInv, SlotInv, NEW r \in Runs, NEW c \in Team(r), AtWork(c)
    PROVE  CanGoOn(r)
<1>1. c \in Callers /\ c \in Calls /\ c \in Members(r)
  BY RunsOfCalls DEF Team, Members
<1>2. CASE CallCan(c) \/ call[c] = "queued"
  BY <1>1, <1>2, QueuedWaits DEF CanGoOn
<1>3. CASE call[c] \in {"refused", "errored", "idle", "answered"} /\ sought[c] # "waiting"
  <2>1. sought[c] \in Lookups /\ (call[c] # "idle" => sought[c] \in {"out", "found"})
    BY <1>1 DEF FollowInv, FlightInv, FlightOK, CallInv, OneThing
  <2>2. ResearcherCan(c) \/ SearchCan(c)
    BY <1>3, <2>1 DEF ResearcherCan, SearchCan, Lookups, Searching
  <2> QED
    BY <2>2 DEF CanGoOn
<1>4. CASE sought[c] = "waiting"
  <2>1. leader \in Callers /\ sought[leader] \in {"leading", "storing"}
    BY <1>1, <1>4 DEF FollowInv, FlightInv, FlightOK, OneLeads, Followed
  <2> QED
    BY <1>4, <2>1 DEF CanGoOn, WaitsForSearch, SearchCan
<1>5. call[c] \in Phases
  BY <1>1 DEF SlotInv
<1> QED
  BY <1>2, <1>3, <1>4, <1>5 DEF Phases, Attempting, CallCan

\* A writer can go on, or waits for a slot.
LEMMA WritersCan ==
    ASSUME SlotInv, WriterHeard, NEW r \in Runs, stage[r] = "writing"
    PROVE  CanGoOn(r)
<1> DEFINE w == WriterOf[r]
<1>1. w \in Calls /\ w \in Exempt /\ w \in Members(r)
  BY RoundAssumption DEF Members
<1>2. call[w] \in Phases \ {"refused"}
  BY <1>1 DEF SlotInv, WriterHeard
<1>3. CASE call[w] \in {"idle", "answered", "errored"}
  BY <1>3 DEF RunCan, CanGoOn
<1>4. CASE CallCan(w) \/ call[w] = "queued"
  BY <1>1, <1>4, QueuedWaits DEF CanGoOn
<1> QED
  BY <1>2, <1>3, <1>4 DEF Phases, Attempting, CallCan

\* No run is stuck, whatever queues for slots, waits for a shared search, was
\* torn or has timed out: until it is over it can go on, or waits for somebody
\* who waits for nobody, though slots and searches are shared between runs
\* (ConcurrencyLimiter, SingleFlight.run, RunBudgetGuard.authorise).
THEOREM NobodyIsStuck == Spec => [](\A r \in Runs : stage[r] # "over" => CanGoOn(r))
<1>1. Init => FollowInv /\ SlotInv /\ WriterHeard
  <2>1. Init => WriterHeard
    BY GatewayAssumption DEF Init, GatewayInit, WriterHeard
  <2> QED
    BY <2>1, FollowInit, SlotInit
<1>2. FollowInv /\ SlotInv /\ WriterHeard => \A r \in Runs : stage[r] # "over" => CanGoOn(r)
  <2> SUFFICES ASSUME FollowInv, SlotInv, WriterHeard, NEW r \in Runs, stage[r] # "over"
               PROVE  CanGoOn(r)
    OBVIOUS
  <2>1. CASE stage[r] \in {"away", "reporting"}
    BY <2>1 DEF RunCan, CanGoOn
  <2>2. CASE stage[r] = "writing"
    BY <2>2, WritersCan
  <2>3. CASE stage[r] = "researching"
    <3>1. CASE \A c \in Team(r) : outcome[c] # "todo"
      BY <2>3, <3>1 DEF RunCan, CanGoOn
    <3>2. CASE \E c \in Team(r) : outcome[c] = "todo"
      <4>1. PICK c \in Team(r) : AtWork(c)
        BY <2>3, <3>2 DEF AtWork, Team
      <4> QED
        BY <4>1, ResearchersCan
    <3> QED
      BY <3>1, <3>2
  <2>4. stage[r] \in Stages
    BY DEF FollowInv, StagesOK
  <2> QED
    BY <2>1, <2>2, <2>3, <2>4 DEF Stages
<1> QED
  BY <1>1, <1>2, FollowKept, SlotKept, WriterHeardKept, PTL DEF Spec
=============================================================================
