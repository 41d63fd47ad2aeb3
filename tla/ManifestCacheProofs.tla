------------------------- MODULE ManifestCacheProofs -------------------------
(***************************************************************************)
(* The properties of ManifestCache for any set of keys, finite or not, any *)
(* sizes and any limit.                                                    *)
(***************************************************************************)
EXTENDS ManifestCache, FiniteSetTheorems, SequenceTheorems, TLAPS

-----------------------------------------------------------------------------
(* Least elements: what stands for induction.                              *)

\* A nonempty set of natural numbers has a least element.
LEMMA Least ==
  ASSUME NEW T, T \subseteq Nat, T # {}
  PROVE  \E m \in T : \A n \in T : m <= n
<1>1. PICK m \in T : \A n \in T : ~ (<<n, m>> \in OpToRel(<, Nat))
  BY WFMin, NatLessThanWellFounded
<1>2. \A n \in T : ~ (n < m)
  BY <1>1 DEF OpToRel
<1> QED
  BY <1>2

\* A nonempty set of subsets of a finite set has a smallest member.
LEMMA Smallest ==
  ASSUME NEW S, IsFiniteSet(S), NEW F, F \subseteq SUBSET S, F # {}
  PROVE  \E s \in F : \A t \in F : t \subseteq s => t = s
<1>1. IsWellFoundedOn(StrictSubsetOrdering(S), SUBSET S)
  BY FS_StrictSubsetOrderingWellFounded, FS_FiniteSubsetsOfFinite
<1>2. PICK s \in F : \A t \in F : ~ (<<t, s>> \in StrictSubsetOrdering(S))
  BY <1>1, WFMin
<1> QED
  BY <1>2 DEF StrictSubsetOrdering

\* A nonempty set of natural numbers with an upper bound has a greatest element.
LEMMA Greatest ==
  ASSUME NEW b \in Nat, NEW T, T \subseteq 0..b, T # {}
  PROVE  Max(T) \in T /\ \A n \in T : n <= Max(T)
<1> DEFINE U == {b - n : n \in T}
<1>1. U \subseteq Nat /\ U # {}
  OBVIOUS
<1>2. PICK u \in U : \A n \in U : u <= n
  <2> HIDE DEF U
  <2> QED
    BY <1>1, Least
<1>3. PICK m \in T : u = b - m
  BY <1>2
<1>4. ASSUME NEW n \in T PROVE m >= n
  <2>1. b - m <= b - n
    BY <1>2, <1>3
  <2> QED
    BY <2>1
<1> QED
  BY <1>3, <1>4 DEF Max

-----------------------------------------------------------------------------
(* Sums.  SumFunctionOnSet chooses the function that sums over the subsets *)
(* of its set; the lemmas say that there is one, and what it does.         *)

Total(w, S) == SumFunctionOnSet(w, S)

Pick(S) == CHOOSE x \in S : TRUE

\* g sums the weights w over each subset of S.
Sums(g, w, S) ==
  g = [s \in SUBSET S |-> IF s = {} THEN 0 ELSE w[Pick(s)] + g[s \ {Pick(s)}]]

LEMMA PickIn == ASSUME NEW S, S # {} PROVE Pick(S) \in S
  BY DEF Pick

LEMMA SumsUnfold ==
  ASSUME NEW w, NEW S, NEW g, Sums(g, w, S), NEW s \in SUBSET S
  PROVE  g[s] = IF s = {} THEN 0 ELSE w[Pick(s)] + g[s \ {Pick(s)}]
  BY DEF Sums

\* g and h give every part of T the same sum.
Agree(g, h, T) == \A s \in SUBSET T : g[s] = h[s]

\* Two weights that agree on the smaller of two sets have the same sums there.
LEMMA SumsAgree ==
  ASSUME NEW w, NEW u, NEW S, IsFiniteSet(S), NEW T \in SUBSET S,
         \A x \in T : w[x] = u[x],
         NEW g, NEW h, Sums(g, w, S), Sums(h, u, T)
  PROVE  Agree(g, h, T)
<1> DEFINE F == {s \in SUBSET T : g[s] # h[s]}
<1>1. SUFFICES ASSUME F # {} PROVE FALSE
  BY DEF Agree
<1>2. PICK s \in F : \A t \in F : t \subseteq s => t = s
  <2>1. F \subseteq SUBSET S
    OBVIOUS
  <2> HIDE DEF F
  <2> QED
    BY <1>1, <2>1, Smallest
<1> DEFINE t == s \ {Pick(s)}
<1>3. g[s] = (IF s = {} THEN 0 ELSE w[Pick(s)] + g[t])
  BY SumsUnfold
<1>4. h[s] = (IF s = {} THEN 0 ELSE u[Pick(s)] + h[t])
  BY SumsUnfold
<1>5. s # {}
  BY <1>3, <1>4
<1>6. Pick(s) \in s
  BY <1>5, PickIn
<1>7. w[Pick(s)] = u[Pick(s)]
  BY <1>6
<1>8. g[t] # h[t]
  BY <1>3, <1>4, <1>5, <1>7
<1>9. t \in F /\ t \subseteq s /\ t # s
  BY <1>6, <1>8
<1> QED
  BY <1>2, <1>9

LEMMA SumsExist ==
  ASSUME NEW w, NEW S, IsFiniteSet(S)
  PROVE  \E g : Sums(g, w, S)
<1> DEFINE F == {T \in SUBSET S : ~ \E g : Sums(g, w, T)}
<1>1. SUFFICES ASSUME F # {} PROVE FALSE
  OBVIOUS
<1>2. PICK T \in F : \A t \in F : t \subseteq T => t = T
  <2>1. F \subseteq SUBSET S
    OBVIOUS
  <2> HIDE DEF F
  <2> QED
    BY <1>1, <2>1, Smallest
<1> DEFINE below(s) == CHOOSE h : Sums(h, w, s)
           g == [s \in SUBSET T |->
                  IF s = {} THEN 0
                  ELSE w[Pick(s)] + below(s \ {Pick(s)})[s \ {Pick(s)}]]
<1>3. ASSUME NEW s \in SUBSET T, s # T PROVE Sums(below(s), w, s)
  <2>1. s \notin F /\ s \in SUBSET S
    BY <1>2, <1>3
  <2> QED
    BY <2>1
<1>4. ASSUME NEW s \in SUBSET T, s # T PROVE g[s] = below(s)[s]
  <2>1. Sums(below(s), w, s)
    BY <1>3, <1>4
  <2> DEFINE t == s \ {Pick(s)}
  <2>2. g[s] = IF s = {} THEN 0 ELSE w[Pick(s)] + below(t)[t]
    OBVIOUS
  <2>3. below(s)[s] = IF s = {} THEN 0 ELSE w[Pick(s)] + below(s)[t]
    <3> HIDE DEF below
    <3> QED
      BY <2>1, SumsUnfold
  <2>4. CASE s = {}
    <3> HIDE DEF below, g
    <3> QED
      BY <2>2, <2>3, <2>4
  <2>5. CASE s # {}
    <3>1. t \in SUBSET s /\ t \in SUBSET T /\ t # T
      BY <2>5, <1>4, PickIn
    <3>2. Sums(below(t), w, t)
      BY <1>3, <3>1
    <3>3. IsFiniteSet(s)
      BY <1>2, FS_Subset
    <3>4. below(s)[t] = below(t)[t]
      <4> HIDE DEF below
      <4>1. Agree(below(s), below(t), t)
        <5>1. \A x \in t : w[x] = w[x]
          OBVIOUS
        <5> QED
          BY <2>1, <3>1, <3>2, <3>3, <5>1, SumsAgree, Zenon
      <4> QED
        BY <4>1 DEF Agree
    <3> HIDE DEF below, g
    <3> QED
      BY <2>2, <2>3, <2>5, <3>4
  <2> QED
    BY <2>4, <2>5
<1>5. Sums(g, w, T)
  <2>1. \A s \in SUBSET T : s # {} =>
          g[s \ {Pick(s)}] = below(s \ {Pick(s)})[s \ {Pick(s)}]
    <3> HIDE DEF g, below
    <3> QED
      BY <1>4, PickIn
  <2>2. g = [s \in SUBSET T |-> IF s = {} THEN 0 ELSE w[Pick(s)] + g[s \ {Pick(s)}]]
    <3> HIDE DEF below
    <3> QED
      BY <2>1
  <2> HIDE DEF g
  <2> QED
    BY <2>2 DEF Sums
<1> QED
  BY <1>2, <1>5

LEMMA TotalSums ==
  ASSUME NEW w, NEW S, IsFiniteSet(S)
  PROVE  \E g : Sums(g, w, S) /\ Total(w, S) = g[S]
<1> DEFINE g == CHOOSE g : Sums(g, w, S)
<1>1. Sums(g, w, S)
  BY SumsExist
<1>2. Total(w, S) = g[S]
  BY DEF Total, SumFunctionOnSet, FoldFunctionOnSet, MapThenFoldSet, Sums, Pick
<1> QED
  BY <1>1, <1>2

\* A sum depends on the weights in its set only.
LEMMA TotalSame ==
  ASSUME NEW w, NEW u, NEW S, IsFiniteSet(S), \A x \in S : w[x] = u[x]
  PROVE  Total(w, S) = Total(u, S)
<1>1. PICK g : Sums(g, w, S) /\ Total(w, S) = g[S]
  BY TotalSums
<1>2. PICK h : Sums(h, u, S) /\ Total(u, S) = h[S]
  BY TotalSums
<1>3. Agree(g, h, S)
  <2>1. S \in SUBSET S
    OBVIOUS
  <2> QED
    BY <1>1, <1>2, <2>1, SumsAgree, Zenon
<1> QED
  BY <1>1, <1>2, <1>3 DEF Agree

\* What SumFunctionOnSet takes out first.
LEMMA TotalPick ==
  ASSUME NEW w, NEW S, IsFiniteSet(S)
  PROVE  Total(w, S) = IF S = {} THEN 0 ELSE w[Pick(S)] + Total(w, S \ {Pick(S)})
<1>1. PICK g : Sums(g, w, S) /\ Total(w, S) = g[S]
  BY TotalSums
<1> DEFINE T == S \ {Pick(S)}
<1>2. IsFiniteSet(T) /\ T \in SUBSET S
  BY FS_Subset
<1>3. PICK h : Sums(h, w, T) /\ Total(w, T) = h[T]
  BY <1>2, TotalSums
<1>4. g[T] = h[T]
  <2> HIDE DEF T
  <2>1. Agree(g, h, T)
    <3>1. \A x \in T : w[x] = w[x]
      OBVIOUS
    <3> QED
      BY <1>1, <1>2, <1>3, <3>1, SumsAgree, Zenon
  <2> QED
    BY <2>1 DEF Agree
<1>5. g[S] = IF S = {} THEN 0 ELSE w[Pick(S)] + g[T]
  BY <1>1, SumsUnfold
<1> QED
  BY <1>1, <1>3, <1>4, <1>5

LEMMA TotalEmpty == \A w : Total(w, {}) = 0
  BY TotalPick, FS_EmptySet

LEMMA TotalNat ==
  ASSUME NEW w, NEW S, IsFiniteSet(S), \A x \in S : w[x] \in Nat
  PROVE  Total(w, S) \in Nat
<1> DEFINE F == {s \in SUBSET S : Total(w, s) \notin Nat}
<1>1. SUFFICES ASSUME F # {} PROVE FALSE
  OBVIOUS
<1>2. PICK s \in F : \A t \in F : t \subseteq s => t = s
  <2>1. F \subseteq SUBSET S
    OBVIOUS
  <2> HIDE DEF F
  <2> QED
    BY <1>1, <2>1, Smallest
<1> DEFINE t == s \ {Pick(s)}
<1>3. Total(w, s) = IF s = {} THEN 0 ELSE w[Pick(s)] + Total(w, t)
  BY FS_Subset, TotalPick
<1>4. s # {}
  BY <1>3
<1>5. Pick(s) \in s
  BY <1>4, PickIn
<1>6. Total(w, t) \in Nat
  BY <1>2, <1>5
<1> QED
  BY <1>3, <1>4, <1>5, <1>6

\* Any element may be taken out first.
LEMMA TotalTake ==
  ASSUME NEW w, NEW S, IsFiniteSet(S), \A x \in S : w[x] \in Nat
  PROVE  \A x \in S : Total(w, S) = w[x] + Total(w, S \ {x})
<1> DEFINE Bad(s) == \E x \in s : Total(w, s) # w[x] + Total(w, s \ {x})
           F == {s \in SUBSET S : Bad(s)}
<1>1. SUFFICES ASSUME F # {} PROVE FALSE
  OBVIOUS
<1>2. PICK s \in F : \A t \in F : t \subseteq s => t = s
  <2>1. F \subseteq SUBSET S
    OBVIOUS
  <2> HIDE DEF F
  <2> QED
    BY <1>1, <2>1, Smallest
<1>3. PICK x \in s : Total(w, s) # w[x] + Total(w, s \ {x})
  BY <1>2
<1>4. \A t \in SUBSET s : \A z \in t : t # s => Total(w, t) = w[z] + Total(w, t \ {z})
  BY <1>2
<1> HIDE DEF F
<1> DEFINE y == Pick(s)
           t == s \ {y}
           r == s \ {x}
           q == s \ {x, y}
<1>5. y \in s /\ IsFiniteSet(s) /\ IsFiniteSet(q)
  BY <1>2, PickIn, FS_Subset DEF F
<1>6. Total(w, s) = w[y] + Total(w, t)
  BY <1>5, TotalPick
<1>7. y # x
  BY <1>3, <1>6
<1>8. Total(w, t) = w[x] + Total(w, q)
  <2>1. t \ {x} = q /\ x \in t /\ t # s
    BY <1>5, <1>7
  <2> QED
    BY <1>4, <2>1
<1>9. Total(w, r) = w[y] + Total(w, q)
  <2>1. r \ {y} = q /\ y \in r /\ r # s
    BY <1>5, <1>7
  <2> QED
    BY <1>4, <2>1
<1>10. w[x] \in Nat /\ w[y] \in Nat /\ Total(w, q) \in Nat
  <2>1. s \subseteq S /\ q \subseteq S
    BY <1>2 DEF F
  <2> QED
    BY <1>5, <2>1, TotalNat
<1> QED
  BY <1>3, <1>6, <1>8, <1>9, <1>10

LEMMA TotalSplit ==
  ASSUME NEW w, NEW S, IsFiniteSet(S), \A x \in S : w[x] \in Nat, NEW T \in SUBSET S
  PROVE  Total(w, S) = Total(w, T) + Total(w, S \ T)
<1>0. IsFiniteSet(T)
  BY FS_Subset
<1>1. ASSUME NEW s \in SUBSET T
      PROVE  /\ IsFiniteSet(T \ s) /\ IsFiniteSet((S \ T) \cup s)
             /\ Total(w, T \ s) \in Nat /\ Total(w, (S \ T) \cup s) \in Nat
  <2>1. T \ s \in SUBSET S /\ (S \ T) \cup s \in SUBSET S
    OBVIOUS
  <2>2. IsFiniteSet(T \ s) /\ IsFiniteSet((S \ T) \cup s)
    BY <2>1, FS_Subset
  <2> QED
    BY <2>1, <2>2, TotalNat
<1> DEFINE G == {s \in SUBSET T : Total(w, S) = Total(w, T \ s) + Total(w, (S \ T) \cup s)}
<1>2. T \in G
  <2>1. T \ T = {} /\ (S \ T) \cup T = S
    OBVIOUS
  <2>2. Total(w, T \ T) = 0 /\ Total(w, (S \ T) \cup T) = Total(w, S)
    BY <2>1, TotalEmpty
  <2>3. Total(w, S) \in Nat
    BY TotalNat
  <2>4. Total(w, S) = Total(w, T \ T) + Total(w, (S \ T) \cup T)
    BY <2>2, <2>3
  <2> QED
    BY <2>4
<1>3. PICK s \in G : \A t \in G : t \subseteq s => t = s
  <2>1. G \subseteq SUBSET T
    OBVIOUS
  <2> HIDE DEF G
  <2> QED
    BY <1>0, <1>2, <2>1, Smallest
<1>4. ASSUME NEW x \in s PROVE FALSE
  <2> DEFINE t == s \ {x}
             more == T \ t
             less == (S \ T) \cup s
  <2>1. Total(w, more) = w[x] + Total(w, T \ s)
    <3>1. x \in more /\ more \ {x} = T \ s /\ IsFiniteSet(more) /\ more \subseteq S
      BY <1>1, <1>3
    <3> HIDE DEF more
    <3> QED
      BY <3>1, TotalTake
  <2>2. Total(w, less) = w[x] + Total(w, (S \ T) \cup t)
    <3>1. x \in less /\ less \ {x} = (S \ T) \cup t /\ IsFiniteSet(less) /\ less \subseteq S
      BY <1>1, <1>3
    <3> HIDE DEF less
    <3> QED
      BY <3>1, TotalTake
  <2>3. t \in SUBSET T /\ s \in SUBSET T /\ w[x] \in Nat
    BY <1>3
  <2>4. Total(w, S) = Total(w, T \ s) + Total(w, less)
    BY <1>3
  <2>5. Total(w, S) = Total(w, more) + Total(w, (S \ T) \cup t)
    <3>1. /\ Total(w, T \ s) \in Nat /\ Total(w, (S \ T) \cup t) \in Nat
      BY <1>1, <2>3
    <3> QED
      BY <2>1, <2>2, <2>3, <2>4, <3>1
  <2>6. t \in G /\ t \subseteq s /\ t # s
    BY <2>3, <2>5
  <2> HIDE DEF G, t
  <2> QED
    BY <1>3, <2>6
<1>5. s = {} /\ T \ {} = T /\ (S \ T) \cup {} = S \ T
  BY <1>4
<1> QED
  BY <1>3, <1>5

-----------------------------------------------------------------------------
(* What moving a key to the front does to a list without duplicates.       *)

Before(s, a, b) == \E i, j \in DOMAIN s : i < j /\ s[i] = a /\ s[j] = b

\* h has the elements of o in the order of o, others between them perhaps.
InOrder(o, h) == \A i, j \in DOMAIN o : i < j => Before(h, o[i], o[j])

\* t is s with the element at p, if there is one, moved to the front as k.
MovedFrom(p, k, s, t) ==
  /\ p \in 1..(Len(s) + 1)
  /\ \A i \in 1..Len(s) : s[i] = k <=> i = p
  /\ Len(t) = IF p = Len(s) + 1 THEN Len(s) + 1 ELSE Len(s)
  /\ t[1] = k
  /\ \A i \in 2..Len(t) : t[i] = IF i <= p THEN s[i - 1] ELSE s[i]

LEMMA ToFrontMoves ==
  ASSUME NEW s \in Seq(Keys), IsInjective(s), NEW k \in Keys
  PROVE  ToFront(k, s) \in Seq(Keys) /\ \E p : MovedFrom(p, k, s, ToFront(k, s))
<1> DEFINE t == ToFront(k, s)
<1>0. Len(s) \in Nat /\ DOMAIN s = 1..Len(s) /\ \A i \in 1..Len(s) : s[i] \in Keys
  BY LenProperties, ElementOfSeq
<1>1. CASE k \notin Range(s)
  <2>1. t = <<k>> \o s
    BY <1>1 DEF ToFront, Without
  <2>2. /\ t \in Seq(Keys) /\ Len(t) = Len(s) + 1 /\ t[1] = k
        /\ \A i \in 2..Len(t) : t[i] = s[i - 1]
    BY <2>1, <1>0
  <2>3. \A i \in 1..Len(s) : s[i] # k
    BY <1>0, <1>1 DEF Range
  <2>4. MovedFrom(Len(s) + 1, k, s, t)
    BY <1>0, <2>2, <2>3 DEF MovedFrom
  <2> QED
    BY <2>2, <2>4
<1>2. CASE k \in Range(s)
  <2> DEFINE p == CHOOSE i \in DOMAIN s : s[i] = k
             l == SubSeq(s, 1, p - 1)
             m == SubSeq(s, p + 1, Len(s))
  <2>1. p \in 1..Len(s) /\ s[p] = k
    BY <1>0, <1>2 DEF Range
  <2>2. t = <<k>> \o (l \o m)
    BY <1>2 DEF ToFront, Without, RemoveAt
  <2> HIDE DEF p
  <2>3. l \in Seq(Keys) /\ Len(l) = p - 1 /\ \A i \in 1..(p - 1) : l[i] = s[i]
    BY <1>0, <2>1, SubSeqProperties
  <2>4. /\ m \in Seq(Keys) /\ Len(m) = Len(s) - p
        /\ \A i \in 1..(Len(s) - p) : m[i] = s[p + i]
    <3>1. p + 1 \in Int /\ Len(s) \in Int /\ \A i \in (p + 1)..Len(s) : s[i] \in Keys
      BY <1>0, <2>1
    <3>2. /\ m \in Seq(Keys) /\ Len(m) = IF p + 1 <= Len(s) THEN Len(s) - (p + 1) + 1 ELSE 0
          /\ \A i \in 1..(Len(s) - (p + 1) + 1) : m[i] = s[p + 1 + i - 1]
      BY <3>1, SubSeqProperties
    <3> HIDE DEF m
    <3>3. Len(m) = Len(s) - p
      <4>1. (IF p + 1 <= Len(s) THEN Len(s) - (p + 1) + 1 ELSE 0) = Len(s) - p
        <5>1. p \in Int /\ Len(s) \in Int /\ p <= Len(s)
          BY <1>0, <2>1
        <5> QED
          BY <5>1
      <4> QED
        BY <3>2, <4>1
    <3>4. ASSUME NEW i \in 1..(Len(s) - p) PROVE m[i] = s[p + i]
      <4>1. i \in 1..(Len(s) - (p + 1) + 1) /\ p + 1 + i - 1 = p + i
        BY <1>0, <2>1, <3>4
      <4>2. m[i] = s[p + 1 + i - 1]
        BY <3>2, <4>1
      <4> QED
        BY <4>1, <4>2
    <3> QED
      BY <3>2, <3>3, <3>4
  <2> HIDE DEF l, m
  <2> DEFINE q == l \o m
  <2>5. /\ q \in Seq(Keys) /\ Len(q) = Len(s) - 1
        /\ \A i \in 1..(Len(s) - 1) : q[i] = IF i < p THEN s[i] ELSE s[i + 1]
    <3>1. /\ q \in Seq(Keys) /\ Len(q) = Len(l) + Len(m)
          /\ \A i \in 1..(Len(l) + Len(m)) : q[i] = IF i <= Len(l) THEN l[i] ELSE m[i - Len(l)]
      BY <2>3, <2>4, ConcatProperties
    <3> HIDE DEF q
    <3>2. Len(l) + Len(m) = Len(s) - 1
      BY <1>0, <2>1, <2>3, <2>4
    <3>3. ASSUME NEW i \in 1..(Len(s) - 1) PROVE q[i] = IF i < p THEN s[i] ELSE s[i + 1]
      <4>1. q[i] = IF i <= p - 1 THEN l[i] ELSE m[i - (p - 1)]
        BY <2>3, <3>1, <3>2
      <4>2. CASE i < p
        BY <1>0, <2>1, <2>3, <4>1, <4>2
      <4>3. CASE ~(i < p)
        <5>1. i - (p - 1) \in 1..(Len(s) - p) /\ p + (i - (p - 1)) = i + 1
          BY <1>0, <2>1, <4>3
        <5>2. m[i - (p - 1)] = s[i + 1]
          BY <2>4, <5>1
        <5> QED
          BY <1>0, <2>1, <4>1, <4>3, <5>2
      <4> QED
        BY <4>2, <4>3
    <3> QED
      BY <3>1, <3>2, <3>3
  <2> HIDE DEF q
  <2>6. /\ t \in Seq(Keys) /\ Len(t) = Len(s) /\ t[1] = k
        /\ \A i \in 2..Len(t) : t[i] = q[i - 1]
    <3>1. t = <<k>> \o q
      BY <2>2 DEF q
    <3> HIDE DEF t
    <3>2. <<k>> \in Seq(Keys) /\ Len(<<k>>) = 1 /\ <<k>>[1] = k
      OBVIOUS
    <3>3. /\ t \in Seq(Keys) /\ Len(t) = 1 + Len(q)
          /\ \A i \in 1..(1 + Len(q)) : t[i] = IF i <= 1 THEN <<k>>[i] ELSE q[i - 1]
      BY <2>5, <3>1, <3>2, ConcatProperties
    <3> HIDE DEF t
    <3>4. Len(t) = Len(s)
      BY <1>0, <2>5, <3>3
    <3>5. t[1] = k
      BY <1>0, <2>1, <2>5, <3>2, <3>3
    <3>6. \A i \in 2..Len(t) : t[i] = q[i - 1]
      BY <1>0, <2>5, <3>3
    <3> QED
      BY <3>3, <3>4, <3>5, <3>6
  <2>7. \A i \in 1..Len(s) : s[i] = k <=> i = p
    BY <1>0, <2>1 DEF IsInjective
  <2> HIDE DEF t
  <2>8. ASSUME NEW i \in 2..Len(t) PROVE t[i] = IF i <= p THEN s[i - 1] ELSE s[i]
    <3>1. i - 1 \in 1..(Len(s) - 1) /\ i - 1 + 1 = i /\ (i - 1 < p <=> i <= p)
      BY <1>0, <2>1, <2>6
    <3> QED
      BY <2>5, <2>6, <3>1
  <2>9. MovedFrom(p, k, s, t)
    <3>1. p \in 1..(Len(s) + 1) /\ p # Len(s) + 1
      BY <1>0, <2>1
    <3> QED
      BY <2>6, <2>7, <2>8, <3>1 DEF MovedFrom
  <2> QED
    BY <2>6, <2>9 DEF t
<1> QED
  BY <1>1, <1>2

\* Where an element that is not moved comes from, and where it goes.
LEMMA MovedElements ==
  ASSUME NEW s \in Seq(Keys), IsInjective(s), NEW k, NEW p,
         NEW t \in Seq(Keys), MovedFrom(p, k, s, t)
  PROVE  /\ \A i \in 2..Len(t) : LET n == IF i <= p THEN i - 1 ELSE i IN
              n \in 1..Len(s) /\ n # p /\ s[n] = t[i] /\ t[i] # k
         /\ \A n \in 1..Len(s) : n # p => LET i == IF n < p THEN n + 1 ELSE n IN
              i \in 2..Len(t) /\ s[n] = t[i]
<1>0. Len(s) \in Nat /\ Len(t) \in Nat /\ DOMAIN s = 1..Len(s) /\ DOMAIN t = 1..Len(t)
  BY LenProperties
<1>1. ASSUME NEW i \in 2..Len(t)
      PROVE  LET n == IF i <= p THEN i - 1 ELSE i IN
              n \in 1..Len(s) /\ n # p /\ s[n] = t[i] /\ t[i] # k
  BY <1>0 DEF MovedFrom
<1>2. ASSUME NEW n \in 1..Len(s), n # p
      PROVE  LET i == IF n < p THEN n + 1 ELSE n IN
              i \in 2..Len(t) /\ s[n] = t[i]
  BY <1>0, <1>2 DEF MovedFrom
<1> QED
  BY <1>1, <1>2

LEMMA ToFrontKeeps ==
  ASSUME NEW s \in Seq(Keys), IsInjective(s), NEW k \in Keys
  PROVE  LET t == ToFront(k, s) IN
         /\ t \in Seq(Keys) /\ Len(t) >= 1 /\ t[1] = k
         /\ IsInjective(t)
         /\ Range(t) = Range(s) \cup {k}
         /\ \A b \in Range(s) \ {k} : Before(t, k, b)
         /\ \A a, b : Before(s, a, b) /\ a # k /\ b # k => Before(t, a, b)
<1> DEFINE t == ToFront(k, s)
<1>1. t \in Seq(Keys) /\ \E p : MovedFrom(p, k, s, t)
  BY ToFrontMoves
<1> HIDE DEF t
<1>2. PICK p : MovedFrom(p, k, s, t)
  BY <1>1
<1>3. /\ Len(s) \in Nat /\ DOMAIN s = 1..Len(s)
      /\ Len(t) \in Nat /\ DOMAIN t = 1..Len(t)
  BY <1>1, LenProperties
<1>4. /\ Len(t) >= 1 /\ t[1] = k /\ p \in 1..(Len(s) + 1)
      /\ \A i \in 1..Len(s) : s[i] = k <=> i = p
  BY <1>2, <1>3 DEF MovedFrom
<1>5. \A i \in 2..Len(t) : LET n == IF i <= p THEN i - 1 ELSE i IN
        n \in 1..Len(s) /\ n # p /\ s[n] = t[i] /\ t[i] # k
  BY <1>1, <1>2, MovedElements
<1>6. \A n \in 1..Len(s) : n # p => LET i == IF n < p THEN n + 1 ELSE n IN
        i \in 2..Len(t) /\ s[n] = t[i]
  BY <1>1, <1>2, MovedElements
<1>7. IsInjective(t)
  <2> SUFFICES ASSUME NEW i \in 1..Len(t), NEW j \in 1..Len(t), t[i] = t[j]
               PROVE  i = j
    BY <1>3 DEF IsInjective
  <2>1. CASE i = 1 \/ j = 1
    BY <1>3, <1>4, <1>5, <2>1
  <2>2. CASE i \in 2..Len(t) /\ j \in 2..Len(t)
    <3>1. (IF i <= p THEN i - 1 ELSE i) = (IF j <= p THEN j - 1 ELSE j)
      BY <1>3, <1>5, <2>2 DEF IsInjective
    <3> QED
      BY <1>3, <1>4, <1>5, <2>2, <3>1
  <2> QED
    BY <1>3, <2>1, <2>2
<1>8. Range(t) = Range(s) \cup {k}
  <2>1. ASSUME NEW i \in 1..Len(t) PROVE t[i] \in Range(s) \cup {k}
    BY <1>3, <1>4, <1>5 DEF Range
  <2>2. ASSUME NEW n \in 1..Len(s) PROVE s[n] \in Range(t)
    BY <1>3, <1>4, <1>6 DEF Range
  <2>3. k \in Range(t)
    BY <1>3, <1>4 DEF Range
  <2> QED
    BY <1>3, <2>1, <2>2, <2>3 DEF Range
<1>9. ASSUME NEW b \in Range(s) \ {k} PROVE Before(t, k, b)
  <2>1. PICK n \in 1..Len(s) : s[n] = b /\ n # p
    BY <1>3, <1>4 DEF Range
  <2>2. PICK i \in 2..Len(t) : t[i] = b
    BY <1>6, <2>1
  <2> QED
    BY <1>3, <1>4, <2>2 DEF Before
<1>10. ASSUME NEW a, NEW b, Before(s, a, b), a # k, b # k PROVE Before(t, a, b)
  <2>1. PICK m \in 1..Len(s), n \in 1..Len(s) : m < n /\ s[m] = a /\ s[n] = b
    BY <1>3, <1>10 DEF Before
  <2>2. m # p /\ n # p
    BY <1>4, <1>10, <2>1
  <2> DEFINE i == IF m < p THEN m + 1 ELSE m
             j == IF n < p THEN n + 1 ELSE n
  <2>3. i \in 2..Len(t) /\ j \in 2..Len(t) /\ t[i] = a /\ t[j] = b
    BY <1>6, <2>1, <2>2
  <2>4. i < j
    BY <1>4, <2>1, <2>2
  <2> HIDE DEF i, j
  <2> QED
    BY <1>3, <2>3, <2>4 DEF Before
<1> QED
  BY <1>1, <1>4, <1>7, <1>8, <1>9, <1>10 DEF t

\* The list stays in the order of the history when both get k at the front.
LEMMA ToFrontInOrder ==
  ASSUME NEW o \in Seq(Keys), IsInjective(o), NEW h \in Seq(Keys), IsInjective(h),
         Range(o) \subseteq Range(h), InOrder(o, h), NEW k \in Keys
  PROVE  InOrder(ToFront(k, o), ToFront(k, h))
<1> DEFINE t == ToFront(k, o)
           g == ToFront(k, h)
<1>1. t \in Seq(Keys) /\ \E p : MovedFrom(p, k, o, t)
  BY ToFrontMoves
<1>2. /\ \A b \in Range(h) \ {k} : Before(g, k, b)
      /\ \A a, b : Before(h, a, b) /\ a # k /\ b # k => Before(g, a, b)
  BY ToFrontKeeps
<1> HIDE DEF t, g
<1>3. PICK p : MovedFrom(p, k, o, t)
  BY <1>1
<1>4. /\ Len(o) \in Nat /\ DOMAIN o = 1..Len(o)
      /\ Len(t) \in Nat /\ DOMAIN t = 1..Len(t)
  BY <1>1, LenProperties
<1>5. \A i \in 2..Len(t) : LET n == IF i <= p THEN i - 1 ELSE i IN
        n \in 1..Len(o) /\ n # p /\ o[n] = t[i] /\ t[i] # k
  BY <1>1, <1>3, MovedElements
<1>6. t[1] = k /\ p \in 1..(Len(o) + 1)
  BY <1>3 DEF MovedFrom
<1>7. ASSUME NEW i \in 1..Len(t), NEW j \in 1..Len(t), i < j
      PROVE  Before(g, t[i], t[j])
  <2>1. j \in 2..Len(t)
    BY <1>4, <1>7
  <2>2. CASE i = 1
    <3>1. t[j] \in Range(o) /\ t[j] # k
      BY <1>4, <1>5, <2>1 DEF Range
    <3> QED
      BY <1>2, <1>6, <2>2, <3>1
  <2>3. CASE i \in 2..Len(t)
    <3> DEFINE m == IF i <= p THEN i - 1 ELSE i
               n == IF j <= p THEN j - 1 ELSE j
    <3>1. m \in 1..Len(o) /\ o[m] = t[i] /\ t[i] # k /\ m # p
      BY <1>5, <2>3
    <3>2. n \in 1..Len(o) /\ o[n] = t[j] /\ t[j] # k /\ n # p
      BY <1>5, <2>1
    <3>3. m < n
      BY <1>6, <1>7, <3>1, <3>2
    <3> HIDE DEF m, n
    <3>4. Before(h, t[i], t[j])
      BY <1>4, <3>1, <3>2, <3>3 DEF InOrder
    <3> QED
      BY <1>2, <3>1, <3>2, <3>4
  <2> QED
    BY <1>4, <2>2, <2>3
<1> QED
  BY <1>4, <1>7 DEF InOrder, t, g

-----------------------------------------------------------------------------
(* Lists without duplicates and the sets of their elements.                *)

LEMMA RangeCounted ==
  ASSUME NEW s \in Seq(Keys), IsInjective(s)
  PROVE  IsFiniteSet(Range(s)) /\ Cardinality(Range(s)) = Len(s)
<1>1. Len(s) \in Nat /\ DOMAIN s = 1..Len(s)
  BY LenProperties
<1>2. s \in Surjection(1..Len(s), Range(s)) /\ s \in Injection(1..Len(s), Range(s))
  <2>1. s \in [1..Len(s) -> Range(s)]
    BY <1>1, RangeEquality, LenProperties
  <2>2. \A y \in Range(s) : \E i \in 1..Len(s) : s[i] = y
    BY <1>1 DEF Range
  <2> QED
    BY <1>1, <2>1, <2>2 DEF Surjection, Injection, IsInjective
<1>3. IsFiniteSet(1..Len(s)) /\ Cardinality(1..Len(s)) = Len(s)
  <2>1. /\ IsFiniteSet(1..Len(s))
        /\ Cardinality(1..Len(s)) = IF 1 > Len(s) THEN 0 ELSE Len(s) - 1 + 1
    <3>1. 1 \in Int /\ Len(s) \in Int
      BY <1>1
    <3> QED
      BY <3>1, FS_Interval, Zenon
  <2> QED
    BY <1>1, <2>1
<1> QED
  BY <1>2, <1>3, FS_Surjection

\* Leaving the first n entries splits the elements in two.
LEMMA AfterSplits ==
  ASSUME NEW o \in Seq(Keys), IsInjective(o), NEW n \in 0..Len(o)
  PROVE  /\ After(o, n) \subseteq Range(o) /\ IsFiniteSet(After(o, n))
         /\ SubSeq(o, 1, n) \in Seq(Keys) /\ Len(SubSeq(o, 1, n)) = n
         /\ DOMAIN SubSeq(o, 1, n) = 1..n
         /\ \A i \in 1..n : SubSeq(o, 1, n)[i] = o[i]
         /\ IsInjective(SubSeq(o, 1, n))
         /\ Range(SubSeq(o, 1, n)) = Range(o) \ After(o, n)
<1> DEFINE q == SubSeq(o, 1, n)
<1>1. Len(o) \in Nat /\ DOMAIN o = 1..Len(o) /\ \A i \in 1..Len(o) : o[i] \in Keys
  BY LenProperties, ElementOfSeq
<1>2. q \in Seq(Keys) /\ Len(q) = n /\ \A i \in 1..n : q[i] = o[i]
  BY <1>1
<1> HIDE DEF q
<1>3. DOMAIN q = 1..n
  BY <1>2, LenProperties
<1>4. After(o, n) \subseteq Range(o)
  BY <1>1 DEF After, Range
<1>5. IsFiniteSet(After(o, n))
  BY <1>4, RangeCounted, FS_Subset
<1>6. IsInjective(q)
  BY <1>1, <1>2, <1>3 DEF IsInjective
<1>7. Range(q) = Range(o) \ After(o, n)
  <2>1. ASSUME NEW i \in 1..n PROVE q[i] \in Range(o) \ After(o, n)
    BY <1>1, <1>2 DEF Range, After, IsInjective
  <2>2. ASSUME NEW x \in Range(o) \ After(o, n) PROVE x \in Range(q)
    <3>1. PICK i \in 1..Len(o) : o[i] = x
      BY <1>1 DEF Range
    <3>2. i \in 1..n
      BY <1>1, <3>1 DEF After
    <3> QED
      BY <1>2, <1>3, <3>1, <3>2 DEF Range
  <2> QED
    BY <1>3, <2>1, <2>2 DEF Range
<1> QED
  BY <1>2, <1>3, <1>4, <1>5, <1>6, <1>7 DEF q

LEMMA AfterNext ==
  ASSUME NEW o \in Seq(Keys), IsInjective(o), NEW n \in 0..Len(o), n < Len(o)
  PROVE  o[n + 1] \in After(o, n) /\ After(o, n + 1) = After(o, n) \ {o[n + 1]}
<1>1. Len(o) \in Nat /\ DOMAIN o = 1..Len(o)
  BY LenProperties
<1>2. n + 1 \in 1..Len(o)
  BY <1>1
<1>3. o[n + 1] \in After(o, n)
  BY <1>1 DEF After
<1>4. ASSUME NEW i \in (n + 1 + 1)..Len(o) PROVE o[i] \in After(o, n) \ {o[n + 1]}
  BY <1>1, <1>2 DEF After, IsInjective
<1>5. ASSUME NEW i \in (n + 1)..Len(o), o[i] # o[n + 1] PROVE o[i] \in After(o, n + 1)
  BY <1>1, <1>5 DEF After
<1> QED
  BY <1>3, <1>4, <1>5 DEF After

-----------------------------------------------------------------------------
(* The inductive invariant: the history, which the code does not keep,     *)
(* ties the list to what was used before what.                             *)

IInv ==
  /\ TypeOK
  /\ Accounted
  /\ IsInjective(order)
  /\ IsInjective(history)
  /\ Range(order) \subseteq Range(history)
  /\ InOrder(order, history)

\* What set computes before it drops anything, and what it drops.
Listed(k) == ToFront(k, order)
Bound(k, v) == [items EXCEPT ![k] = v]
SizeOf(k, v) == [x \in Range(Listed(k)) |-> Size[Bound(k, v)[x]]]
NewTotal(k, v) == WithoutOld(k) + Size[v]
Left(k, v) == Kept(Listed(k), NewTotal(k, v), SizeOf(k, v))
Dropped(k, v) == After(Listed(k), Left(k, v))

LEMMA SetEffect ==
  ASSUME NEW k, NEW v, Set(k, v)
  PROVE  /\ Size[v] <= MaxBytes
         /\ order' = SubSeq(Listed(k), 1, Left(k, v))
         /\ items' = [x \in Keys |-> IF x \in Dropped(k, v) THEN NoEntry ELSE Bound(k, v)[x]]
         /\ used' = NewTotal(k, v) - Total(SizeOf(k, v), Dropped(k, v))
         /\ history' = ToFront(k, history)
  BY DEF Set, Listed, Bound, SizeOf, NewTotal, Left, Dropped, Total

LEMMA ListedShape ==
  ASSUME IInv, NEW k \in Keys
  PROVE  /\ Listed(k) \in Seq(Keys) /\ IsInjective(Listed(k))
         /\ Len(Listed(k)) \in Nat /\ DOMAIN Listed(k) = 1..Len(Listed(k))
         /\ Len(Listed(k)) >= 1 /\ Listed(k)[1] = k
         /\ Range(Listed(k)) = Stored \cup {k}
         /\ IsFiniteSet(Stored \cup {k}) /\ IsFiniteSet(Stored)
<1>1. order \in Seq(Keys) /\ IsInjective(order) /\ Range(order) = Stored
  BY DEF IInv, TypeOK, Accounted
<1>2. /\ Listed(k) \in Seq(Keys) /\ IsInjective(Listed(k))
      /\ Len(Listed(k)) >= 1 /\ Listed(k)[1] = k
      /\ Range(Listed(k)) = Stored \cup {k}
  BY <1>1, ToFrontKeeps DEF Listed
<1>3. IsFiniteSet(Stored)
  BY <1>1, RangeCounted
<1>4. IsFiniteSet(Stored \cup {k})
  BY <1>2, RangeCounted
<1> QED
  BY <1>2, <1>3, <1>4, LenProperties

LEMMA SizesAreNat ==
  ASSUME IInv, NEW k \in Keys, NEW v \in Values
  PROVE  /\ \A x \in Stored : items[x] \in Values /\ Size[items[x]] \in Nat
         /\ \A x \in Stored \cup {k} :
              /\ Bound(k, v)[x] \in Values
              /\ SizeOf(k, v)[x] = Size[Bound(k, v)[x]]
              /\ SizeOf(k, v)[x] \in Nat
         /\ SizeOf(k, v)[k] = Size[v]
         /\ \A x \in Stored \ {k} : SizeOf(k, v)[x] = Size[items[x]]
<1>1. Size \in [Values -> Nat] /\ items \in [Keys -> Values \cup {NoEntry}]
  BY ManifestAssumption DEF IInv, TypeOK
<1>2. \A x \in Stored : x \in Keys /\ items[x] \in Values
  BY <1>1 DEF Stored
<1>3. Bound(k, v)[k] = v /\ \A x \in Stored \ {k} : Bound(k, v)[x] = items[x]
  BY <1>1, <1>2 DEF Bound
<1>4. SizeOf(k, v) = [x \in Stored \cup {k} |-> Size[Bound(k, v)[x]]]
  BY ListedShape DEF SizeOf
<1> QED
  BY <1>1, <1>2, <1>3, <1>4

\* The bytes accounted for are those of the list when the new entry is in it.
LEMMA NewTotalIsTotal ==
  ASSUME IInv, NEW k \in Keys, NEW v \in Values
  PROVE  /\ NewTotal(k, v) = Total(SizeOf(k, v), Stored \cup {k})
         /\ NewTotal(k, v) = Size[v] + Total(SizeOf(k, v), Stored \ {k})
<1> DEFINE w == [x \in Stored |-> Size[items[x]]]
           u == SizeOf(k, v)
           rest == Stored \ {k}
<1>1. used = Total(w, Stored)
  BY DEF IInv, Accounted, Bytes, Total
<1>2. IsFiniteSet(Stored) /\ IsFiniteSet(Stored \cup {k}) /\ IsFiniteSet(rest)
  BY ListedShape, FS_Subset
<1>3. /\ \A x \in Stored : w[x] = Size[items[x]] /\ w[x] \in Nat
      /\ \A x \in Stored \cup {k} : u[x] \in Nat
      /\ u[k] = Size[v] /\ u[k] \in Nat
      /\ \A x \in rest : u[x] = w[x]
  BY SizesAreNat
<1> HIDE DEF w, u
<1>4. Total(u, Stored \cup {k}) = u[k] + Total(u, rest)
  <2>1. k \in Stored \cup {k} /\ (Stored \cup {k}) \ {k} = rest
    OBVIOUS
  <2> HIDE DEF rest
  <2> QED
    BY <1>2, <1>3, <2>1, TotalTake
<1>5. Total(u, rest) = Total(w, rest)
  BY <1>2, <1>3, TotalSame
<1>6. Total(w, rest) \in Nat
  BY <1>2, <1>3, TotalNat
<1>7. WithoutOld(k) = Total(w, rest)
  <2>1. CASE items[k] = NoEntry
    <3>1. rest = Stored
      BY <2>1 DEF Stored
    <3> QED
      BY <1>1, <1>6, <2>1, <3>1 DEF WithoutOld
  <2>2. CASE items[k] # NoEntry
    <3>1. k \in Stored
      BY <2>2 DEF Stored
    <3>2. used = Size[items[k]] + Total(w, rest)
      BY <1>1, <1>2, <1>3, <3>1, TotalTake
    <3>3. Size[items[k]] \in Nat
      BY <1>3, <3>1
    <3> QED
      BY <1>6, <2>2, <3>2, <3>3 DEF WithoutOld
  <2> QED
    BY <2>1, <2>2
<1> QED
  BY <1>3, <1>4, <1>5, <1>6, <1>7 DEF NewTotal, u

\* The loop stops with at least the new entry left, as soon as it may.
LEMMA LeftEnough ==
  ASSUME IInv, NEW k \in Keys, NEW v \in Values, Size[v] <= MaxBytes
  PROVE  /\ Left(k, v) \in 1..Len(Listed(k))
         /\ NewTotal(k, v) - Total(SizeOf(k, v), Dropped(k, v)) <= MaxBytes
         /\ \A n \in 1..Len(Listed(k)) : n > Left(k, v) =>
              ~ (NewTotal(k, v) - Total(SizeOf(k, v), After(Listed(k), n)) <= MaxBytes)
<1> DEFINE o == Listed(k)
           fits(n) == NewTotal(k, v) - Total(SizeOf(k, v), After(o, n)) <= MaxBytes
           C == {n \in 0..Len(o) : n = 0 \/ fits(n)}
<1>1. Left(k, v) = Max(C)
  BY DEF Left, Kept, Total
<1>2. o \in Seq(Keys) /\ IsInjective(o) /\ Len(o) \in Nat /\ Len(o) >= 1 /\ o[1] = k
      /\ DOMAIN o = 1..Len(o) /\ Range(o) = Stored \cup {k}
  BY ListedShape
<1>3. fits(1)
  <2>1. After(o, 0) = Range(o)
    BY <1>2 DEF After, Range
  <2>2. After(o, 1) = Range(o) \ {k}
    <3> HIDE DEF o
    <3> QED
      BY <1>2, <2>1, AfterNext
  <2>3. After(o, 1) = Stored \ {k}
    BY <1>2, <2>2
  <2>4. NewTotal(k, v) = Size[v] + Total(SizeOf(k, v), After(o, 1))
    BY <2>3, NewTotalIsTotal
  <2>5. Size[v] \in Nat /\ Total(SizeOf(k, v), After(o, 1)) \in Nat
    <3>1. IsFiniteSet(Stored \ {k}) /\ \A x \in Stored \ {k} : SizeOf(k, v)[x] \in Nat
      BY ListedShape, SizesAreNat, FS_Subset
    <3> QED
      BY <2>3, <3>1, TotalNat, ManifestAssumption
  <2> QED
    BY <2>4, <2>5, ManifestAssumption
<1> HIDE DEF fits
<1>4. C \subseteq 0..Len(o) /\ C # {}
  BY <1>2
<1>5. 1 \in C
  BY <1>2, <1>3
<1>6. Max(C) \in C /\ \A n \in C : n <= Max(C)
  <2> HIDE DEF C
  <2> QED
    BY <1>2, <1>4, Greatest
<1>7. Max(C) \in 1..Len(o) /\ fits(Max(C))
  BY <1>2, <1>5, <1>6
<1>8. ASSUME NEW n \in 1..Len(o), n > Max(C) PROVE ~ fits(n)
  BY <1>2, <1>6, <1>7, <1>8
<1> QED
  BY <1>1, <1>7, <1>8 DEF Dropped, fits

-----------------------------------------------------------------------------
(* What a set leaves.                                                      *)

LEMMA SetStored ==
  ASSUME IInv, NEW k \in Keys, NEW v \in Values, Set(k, v)
  PROVE  /\ items' \in [Keys -> Values \cup {NoEntry}]
         /\ Stored' = (Stored \cup {k}) \ Dropped(k, v)
         /\ \A x \in Stored' : Size[items'[x]] = SizeOf(k, v)[x]
<1>1. items' = [x \in Keys |-> IF x \in Dropped(k, v) THEN NoEntry ELSE Bound(k, v)[x]]
  BY SetEffect
<1>2. Dropped(k, v) \subseteq Stored \cup {k}
  <2>1. /\ Listed(k) \in Seq(Keys) /\ IsInjective(Listed(k)) /\ Len(Listed(k)) \in Nat
        /\ Range(Listed(k)) = Stored \cup {k}
    BY ListedShape
  <2>2. Left(k, v) \in 0..Len(Listed(k))
    BY <2>1, SetEffect, LeftEnough
  <2> HIDE DEF Listed, Left
  <2> QED
    BY <2>1, <2>2, AfterSplits DEF Dropped
<1>3. /\ items \in [Keys -> Values \cup {NoEntry}]
      /\ \A x \in Stored : x \in Keys
      /\ NoEntry \notin Values
  BY ManifestAssumption DEF IInv, TypeOK, Stored
<1>4. Bound(k, v) \in [Keys -> Values \cup {NoEntry}]
  BY <1>3 DEF Bound
<1>5. \A x \in Keys : Bound(k, v)[x] # NoEntry <=> x \in Stored \cup {k}
  BY <1>3 DEF Bound, Stored
<1>6. \A x \in Stored \cup {k} : SizeOf(k, v)[x] = Size[Bound(k, v)[x]]
  BY SizesAreNat
<1> HIDE DEF Bound, Dropped, SizeOf
<1>7. items' \in [Keys -> Values \cup {NoEntry}]
  BY <1>1, <1>4
<1>8. Stored' = (Stored \cup {k}) \ Dropped(k, v)
  <2>1. Stored' = {x \in Keys : items'[x] # NoEntry}
    BY DEF Stored
  <2> QED
    BY <1>1, <1>3, <1>5, <2>1
<1>9. \A x \in Stored' : items'[x] = Bound(k, v)[x]
  BY <1>1, <1>3, <1>8
<1> QED
  BY <1>6, <1>7, <1>8, <1>9

LEMMA SetKeeps ==
  ASSUME IInv, NEW k \in Keys, NEW v \in Values, Set(k, v)
  PROVE  IInv'
<1> DEFINE o == Listed(k)
           n == Left(k, v)
           u == SizeOf(k, v)
           gone == Dropped(k, v)
           all == Stored \cup {k}
<1>1. /\ Size[v] <= MaxBytes
      /\ order' = SubSeq(o, 1, n)
      /\ used' = NewTotal(k, v) - Total(u, gone)
      /\ history' = ToFront(k, history)
  BY SetEffect
<1>2. /\ o \in Seq(Keys) /\ IsInjective(o) /\ Len(o) \in Nat /\ DOMAIN o = 1..Len(o)
      /\ Range(o) = all /\ IsFiniteSet(all)
  BY ListedShape
<1>3. n \in 1..Len(o) /\ NewTotal(k, v) - Total(u, gone) <= MaxBytes
  BY <1>1, LeftEnough
<1>4. /\ gone \subseteq all /\ IsFiniteSet(gone)
      /\ order' \in Seq(Keys) /\ Len(order') = n /\ DOMAIN order' = 1..n
      /\ \A i \in 1..n : order'[i] = o[i]
      /\ IsInjective(order') /\ Range(order') = all \ gone
  <2>1. n \in 0..Len(o) /\ gone = After(o, n)
    BY <1>2, <1>3 DEF Dropped
  <2> HIDE DEF o, n, gone
  <2> QED
    BY <1>1, <1>2, <2>1, AfterSplits
<1>5. /\ items' \in [Keys -> Values \cup {NoEntry}]
      /\ Stored' = all \ gone
      /\ \A x \in Stored' : Size[items'[x]] = u[x]
  BY SetStored
<1>6. \A x \in all : u[x] \in Nat
  BY SizesAreNat
<1>7. NewTotal(k, v) = Total(u, all)
  BY NewTotalIsTotal
<1>8. /\ history \in Seq(Keys) /\ IsInjective(history)
      /\ order \in Seq(Keys) /\ IsInjective(order)
      /\ Range(order) = Stored /\ Range(order) \subseteq Range(history)
      /\ InOrder(order, history)
  BY DEF IInv, TypeOK, Accounted
<1>9. /\ history' \in Seq(Keys) /\ IsInjective(history')
      /\ Range(history') = Range(history) \cup {k}
  BY <1>1, <1>8, ToFrontKeeps
<1>10. InOrder(o, history')
  BY <1>1, <1>8, ToFrontInOrder DEF Listed
<1> HIDE DEF o, n, u, gone
<1>11. used' = Total(u, Stored') /\ used' \in Nat /\ IsFiniteSet(Stored')
  <2>1. IsFiniteSet(all \ gone)
    BY <1>2, FS_Subset
  <2>2. Total(u, all) = Total(u, gone) + Total(u, all \ gone)
    <3> HIDE DEF all
    <3> QED
      BY <1>2, <1>4, <1>6, TotalSplit
  <2>3. Total(u, gone) \in Nat /\ Total(u, all \ gone) \in Nat
    <3>1. (\A x \in gone : u[x] \in Nat) /\ \A x \in all \ gone : u[x] \in Nat
      BY <1>4, <1>6
    <3> QED
      BY <1>4, <2>1, <3>1, TotalNat
  <2> QED
    BY <1>1, <1>5, <1>7, <2>1, <2>2, <2>3
<1>12. used' = Bytes'
  <2> DEFINE w == [x \in Stored' |-> Size[items'[x]]]
  <2>1. Bytes' = Total(w, Stored')
    BY DEF Bytes, Total
  <2>2. \A x \in Stored' : w[x] = u[x]
    BY <1>5
  <2> HIDE DEF w
  <2> QED
    BY <1>11, <2>1, <2>2, TotalSame
<1>13. TypeOK'
  <2>1. used' \in 0..MaxBytes
    BY <1>1, <1>3, <1>11, ManifestAssumption
  <2> QED
    BY <1>4, <1>5, <1>9, <2>1 DEF TypeOK
<1>14. Accounted'
  <2>1. Range(order)' = Stored' /\ Len(order') = Cardinality(Stored')
    BY <1>4, <1>5, RangeCounted
  <2> QED
    BY <1>12, <2>1 DEF Accounted
<1>15. Range(order') \subseteq Range(history')
  BY <1>4, <1>8, <1>9
<1>16. InOrder(order', history')
  BY <1>2, <1>3, <1>4, <1>10 DEF InOrder
<1> QED
  BY <1>4, <1>9, <1>13, <1>14, <1>15, <1>16 DEF IInv

LEMMA GetKeeps ==
  ASSUME IInv, NEW k \in Keys, Get(k)
  PROVE  IInv'
<1>1. /\ k \in Stored /\ order' = ToFront(k, order) /\ history' = ToFront(k, history)
      /\ items' = items /\ used' = used
  BY DEF Get, Touched, Stored
<1>2. /\ history \in Seq(Keys) /\ IsInjective(history)
      /\ order \in Seq(Keys) /\ IsInjective(order)
      /\ Range(order) = Stored /\ Range(order) \subseteq Range(history)
      /\ InOrder(order, history)
  BY DEF IInv, TypeOK, Accounted
<1>3. /\ order' \in Seq(Keys) /\ IsInjective(order') /\ Range(order') = Stored \cup {k}
      /\ history' \in Seq(Keys) /\ IsInjective(history')
      /\ Range(history') = Range(history) \cup {k}
  BY <1>1, <1>2, ToFrontKeeps
<1>4. InOrder(order', history')
  BY <1>1, <1>2, ToFrontInOrder
<1>5. Stored' = Stored /\ Bytes' = Bytes /\ Range(order') = Stored
  BY <1>1, <1>3 DEF Stored, Bytes
<1>6. Len(order') = Cardinality(Stored)
  BY <1>3, <1>5, RangeCounted
<1>7. Range(order') \subseteq Range(history')
  BY <1>1, <1>2, <1>3
<1>8. TypeOK'
  BY <1>1, <1>3 DEF TypeOK, IInv
<1>9. Accounted'
  BY <1>1, <1>5, <1>6 DEF Accounted, IInv
<1> QED
  BY <1>3, <1>4, <1>7, <1>8, <1>9 DEF IInv

LEMMA Initially == Init => IInv
<1> SUFFICES ASSUME Init PROVE IInv
  OBVIOUS
<1>1. /\ items = [k \in Keys |-> NoEntry] /\ order = <<>> /\ used = 0 /\ history = <<>>
  BY DEF Init
<1>2. <<>> \in Seq(Keys) /\ Len(<<>>) = 0 /\ DOMAIN <<>> = {}
  BY EmptySeq, LenProperties
<1>3. Stored = {} /\ Cardinality(Stored) = 0
  BY <1>1, FS_EmptySet DEF Stored
<1>4. Bytes = 0
  <2>1. Bytes = Total([k \in Stored |-> Size[items[k]]], Stored)
    BY DEF Bytes, Total
  <2> QED
    BY <1>3, <2>1, TotalEmpty
<1>5. Range(order) = {} /\ IsInjective(order) /\ InOrder(order, history)
  BY <1>1, <1>2 DEF Range, IsInjective, InOrder
<1>6. TypeOK
  BY <1>1, <1>2, ManifestAssumption DEF TypeOK
<1> QED
  BY <1>1, <1>2, <1>3, <1>4, <1>5, <1>6 DEF IInv, Accounted

LEMMA Inductive == IInv /\ [Next]_vars => IInv'
<1> SUFFICES ASSUME IInv, [Next]_vars PROVE IInv'
  OBVIOUS
<1>1. ASSUME NEW k \in Keys, Get(k) PROVE IInv'
  BY <1>1, GetKeeps
<1>2. ASSUME NEW k \in Keys, NEW v \in Values, Set(k, v) PROVE IInv'
  BY <1>2, SetKeeps
<1>3. CASE UNCHANGED vars
  <2>1. UNCHANGED <<items, order, used, history>>
    BY <1>3 DEF vars
  <2>2. UNCHANGED <<Stored, Bytes>>
    BY <2>1 DEF Stored, Bytes
  <2> QED
    BY <2>1, <2>2 DEF IInv, TypeOK, Accounted
<1> QED
  BY <1>1, <1>2, <1>3 DEF Next, Miss, Refuse

LEMMA Invariance == Spec => []IInv
  BY Initially, Inductive, PTL DEF Spec

-----------------------------------------------------------------------------

\* Every call leaves the map, the list, the history and a byte count that is
\* neither negative nor above the limit.
THEOREM TypeCorrect == Spec => []TypeOK
<1>1. IInv => TypeOK
  BY DEF IInv
<1> QED
  BY <1>1, Invariance, PTL

\* The list and the map hold the same keys, each once, and the count set adds
\* to and subtracts from is the bytes of what is stored.
THEOREM AccountedCorrect == Spec => []Accounted
<1>1. IInv => Accounted
  BY DEF IInv
<1> QED
  BY <1>1, Invariance, PTL

\* What is stored never takes more than the limit.
THEOREM MemoryBoundCorrect == Spec => []MemoryBound
<1>1. IInv => MemoryBound
  BY ManifestAssumption DEF IInv, TypeOK, Accounted, MemoryBound
<1> QED
  BY <1>1, Invariance, PTL

-----------------------------------------------------------------------------
(* What a set drops.                                                       *)

LEMMA SetEvicts ==
  ASSUME IInv, NEW k \in Keys, NEW v \in Values, Set(k, v)
  PROVE  Evicts
<1> DEFINE o == Listed(k)
           n == Left(k, v)
           u == SizeOf(k, v)
           out == Dropped(k, v)
           all == Stored \cup {k}
           gone == {x \in Stored : items'[x] = NoEntry}
           kept == {x \in Keys : items'[x] # NoEntry}
<1>1. /\ Size[v] <= MaxBytes
      /\ used' = NewTotal(k, v) - Total(u, out)
      /\ history' = ToFront(k, history)
  BY SetEffect
<1>2. /\ o \in Seq(Keys) /\ IsInjective(o) /\ Len(o) \in Nat /\ DOMAIN o = 1..Len(o)
      /\ Len(o) >= 1 /\ o[1] = k
      /\ Range(o) = all /\ IsFiniteSet(all)
  BY ListedShape
<1>3. /\ n \in 1..Len(o)
      /\ \A m \in 1..Len(o) : m > n =>
           ~ (NewTotal(k, v) - Total(u, After(o, m)) <= MaxBytes)
  BY <1>1, LeftEnough
<1>4. out = {o[i] : i \in (n + 1)..Len(o)} /\ out = After(o, n)
  BY DEF Dropped, After
<1>5. Stored' = all \ out /\ kept = Stored'
  BY SetStored DEF Stored
<1>6. /\ history \in Seq(Keys) /\ IsInjective(history)
      /\ order \in Seq(Keys) /\ IsInjective(order)
      /\ Range(order) \subseteq Range(history) /\ InOrder(order, history)
      /\ Stored \subseteq Keys
  BY DEF IInv, TypeOK, Stored
<1>7. /\ history' \in Seq(Keys) /\ Len(history') >= 1 /\ history'[1] = k
  BY <1>1, <1>6, ToFrontKeeps
<1>8. InOrder(o, history')
  BY <1>1, <1>6, ToFrontInOrder DEF Listed
<1>9. \A x \in Stored \ {k} : u[x] = Size[items[x]]
  BY SizesAreNat
<1>10. \A x \in all : u[x] \in Nat
  BY SizesAreNat
<1>11. NewTotal(k, v) = Total(u, all)
  BY NewTotalIsTotal
<1> HIDE DEF o, n, u, out
<1>12. k \notin out
  BY <1>2, <1>3, <1>4 DEF IsInjective
<1>13. gone = out
  <2>1. out \subseteq all
    BY <1>2, <1>3, <1>4 DEF Range
  <2>2. ASSUME NEW x \in Stored PROVE items'[x] = NoEntry <=> x \in out
    BY <1>5, <1>6, <2>2
  <2> QED
    BY <1>12, <2>1, <2>2
<1> HIDE DEF gone, kept
<1>14. \A i, j \in 1..Len(o) : i < j => UsedBefore(o[j], o[i])
  <2> SUFFICES ASSUME NEW i \in 1..Len(o), NEW j \in 1..Len(o), i < j
               PROVE  UsedBefore(o[j], o[i])
    OBVIOUS
  <2>1. Before(history', o[i], o[j])
    BY <1>2, <1>8 DEF InOrder
  <2>2. PICK m, l \in DOMAIN history' : m < l /\ history'[m] = o[i] /\ history'[l] = o[j]
    BY <2>1 DEF Before
  <2>3. l > m
    BY <1>7, <2>2, LenProperties
  <2> QED
    BY <2>2, <2>3 DEF UsedBefore
<1>15. ASSUME NEW a \in gone, NEW b \in kept PROVE UsedBefore(a, b)
  <2>1. PICK j \in (n + 1)..Len(o) : o[j] = a
    BY <1>4, <1>13
  <2>2. PICK i \in 1..Len(o) : o[i] = b /\ b \notin out
    BY <1>2, <1>5 DEF Range
  <2>3. i < j /\ j \in 1..Len(o)
    BY <1>2, <1>3, <1>4, <2>1, <2>2
  <2> QED
    BY <1>14, <2>1, <2>2, <2>3
<1>16. Head(history') \in kept
  <2>1. Head(history') = k
    BY <1>7
  <2> QED
    BY <1>5, <1>12, <2>1
<1>17. ASSUME gone # {}
       PROVE  \E a \in gone : used' + Size[items[a]] > MaxBytes
                             /\ \A b \in gone \ {a} : UsedBefore(b, a)
  <2>1. n < Len(o) /\ n + 1 \in 1..Len(o) /\ n \in 0..Len(o)
    BY <1>2, <1>3, <1>4, <1>13, <1>17
  <2> DEFINE a == o[n + 1]
  <2>2. a \in out /\ After(o, n + 1) = out \ {a}
    BY <1>2, <1>4, <2>1, AfterNext
  <2>3. a \in Stored \ {k}
    BY <1>12, <1>13, <2>2 DEF gone
  <2> HIDE DEF a
  <2>4. IsFiniteSet(out) /\ out \subseteq all
    BY <1>2, <1>4, <2>1, AfterSplits
  <2>5. Total(u, out) = u[a] + Total(u, out \ {a})
    BY <1>10, <2>2, <2>4, TotalTake
  <2>6. Total(u, out \ {a}) \in Nat
    <3>1. IsFiniteSet(out \ {a}) /\ \A x \in out \ {a} : u[x] \in Nat
      BY <1>10, <2>4, FS_Subset
    <3> QED
      BY <3>1, TotalNat
  <2>7. ~ (NewTotal(k, v) - Total(u, out \ {a}) <= MaxBytes)
    <3>1. n + 1 > n
      BY <1>3
    <3> QED
      BY <1>3, <2>1, <2>2, <3>1
  <2>8. NewTotal(k, v) \in Nat
    <3> HIDE DEF all
    <3> QED
      BY <1>2, <1>10, <1>11, TotalNat
  <2>9. used' + Size[items[a]] > MaxBytes
    <3>1. Size[items[a]] = u[a] /\ u[a] \in Nat
      BY <1>9, <1>10, <2>3
    <3> QED
      BY <1>1, <2>5, <2>6, <2>7, <2>8, <3>1, ManifestAssumption
  <2>10. ASSUME NEW b \in gone \ {a} PROVE UsedBefore(b, a)
    <3>1. PICK j \in (n + 1)..Len(o) : o[j] = b
      BY <1>4, <1>13
    <3>2. n + 1 < j /\ j \in 1..Len(o)
      BY <1>2, <1>3, <2>10, <3>1 DEF a
    <3> QED
      BY <1>14, <2>1, <3>1, <3>2 DEF a
  <2> QED
    BY <1>13, <2>2, <2>9, <2>10
<1> QED
  BY <1>15, <1>16, <1>17 DEF Evicts, gone, kept

LEMMA EvictsStep == IInv /\ [Next]_vars => [Evicts]_vars
<1> SUFFICES ASSUME IInv, Next PROVE Evicts \/ UNCHANGED vars
  OBVIOUS
<1>1. ASSUME NEW k \in Keys, NEW v \in Values, Set(k, v) PROVE Evicts
  BY <1>1, SetEvicts
<1>2. ASSUME NEW k \in Keys, Get(k) PROVE Evicts
  <2>1. {x \in Stored : items'[x] = NoEntry} = {}
    BY <1>2 DEF Get, Stored
  <2> QED
    BY <2>1 DEF Evicts
<1> QED
  BY <1>1, <1>2 DEF Next, Miss, Refuse

\* A set drops what was used before everything it keeps, keeps what it stores,
\* and could not have kept the last entry it drops.
THEOREM EvictsColdestCorrect == Spec => EvictsColdest
  BY Invariance, EvictsStep, PTL DEF Spec, EvictsColdest
=============================================================================
