---------------------------- MODULE SessionProofs ----------------------------
(***************************************************************************)
(* The properties of Session for any flags, names and number of pages.     *)
(*                                                                         *)
(* They rest on what the string functions of Rewrite do to the paths and   *)
(* scopes of any name: the path for a name goes upstream as the path for   *)
(* upstream's name of it, and both kinds of scope name the same.           *)
(***************************************************************************)
EXTENDS Session, SequenceTheorems, WellFoundedInduction, TLAPS

\* STRING, with the words of this specification listed for the provers.
Words == STRING \cup {"/", "v2", "tags", "list", "ref", "manifests", "blobs", "repository:",
                       ":pull", ".", ".."}

-----------------------------------------------------------------------------
(* Strings: sequences of words.                                            *)

Text == Seq(Words)

\* Where the parentheses of s, t and u stand does not matter.
Assoc(s, t, u) == (s \o t) \o u = s \o (t \o u)

\* Concatenation is associative.
LEMMA Associative ==
  ASSUME NEW s \in Text, NEW t \in Text, NEW u \in Text
  PROVE  Assoc(s, t, u)
<1>1. s \in Seq(Words) /\ t \in Seq(Words) /\ u \in Seq(Words)
  BY DEF Text
<1> QED
  BY <1>1, ConcatAssociative DEF Assoc

\* It stays among the strings.
LEMMA Closed ==
  ASSUME NEW s \in Text, NEW t \in Text
  PROVE  s \o t \in Text
  BY ConcatProperties DEF Text

\* The strings of the registry API's paths are strings.
LEMMA Literals ==
  /\ <<"/">> \in Text /\ <<"/", "v2">> \in Text /\ <<"/", "v2", "/">> \in Text
  /\ <<"/", "tags", "/", "list">> \in Text /\ <<"ref">> \in Text
  /\ \A k \in Kinds : <<"/", k, "/">> \in Text
<1>1. /\ "/" \in Words /\ "v2" \in Words /\ "tags" \in Words /\ "list" \in Words
      /\ "ref" \in Words /\ \A k \in Kinds : k \in Words
  BY Zenon DEF Words, Kinds
<1>2. \A a \in Words : <<a>> \in Seq(Words)
  OBVIOUS
<1>3. \A a, b \in Words : <<a, b>> \in Seq(Words)
  OBVIOUS
<1>4. \A a, b \in Words : <<a, b, a>> \in Seq(Words)
  OBVIOUS
<1>5. \A a, b, d \in Words : <<a, b, a, d>> \in Seq(Words)
  OBVIOUS
<1> QED
  BY <1>1, <1>2, <1>3, <1>4, <1>5, Zenon DEF Text

\* So are the strings that Rewrite names.
LEMMA Marks == V2 \in Text /\ Slash \in Text /\ <<"/", "v2">> \in Text
  BY Literals, Zenon DEF V2, Slash

\* And the strings of scopes.
LEMMA ScopeMarks == <<"repository:">> \in Text /\ <<":pull">> \in Text
<1>1. "repository:" \in Words /\ ":pull" \in Words
  BY Zenon DEF Words
<1> QED
  BY <1>1 DEF Text

\* V2 is "/v2" and a slash.
LEMMA ShortMark == <<"/", "v2">> \o Slash = V2
<1>1. <<"/", "v2">> \o Slash \in Seq(Words) /\ Len(<<"/", "v2">> \o Slash) = 3
  BY Marks, ConcatProperties DEF Slash, Text
<1>2. \A i \in 1..3 : (<<"/", "v2">> \o Slash)[i] = V2[i]
  BY Marks, ConcatProperties DEF V2, Slash, Text
<1> QED
  BY Marks, <1>1, <1>2, SeqEqual DEF V2, Text

\* Strings of two words, put together from words.
LEMMA TwoWords ==
  ASSUME NEW a \in Words, NEW b \in Words
  PROVE  <<a>> \o <<b>> = <<a, b>>
<1> DEFINE s == <<a>>  t == <<b>>  u == s \o t  v == <<a, b>>
<1>1. /\ s \in Seq(Words) /\ Len(s) = 1 /\ s[1] = a /\ t \in Seq(Words) /\ Len(t) = 1 /\ t[1] = b
      /\ v \in Seq(Words) /\ Len(v) = 2 /\ v[1] = a /\ v[2] = b
  OBVIOUS
<1> HIDE DEF s, t, v
<1>2. /\ u \in Seq(Words) /\ Len(u) = Len(s) + Len(t)
      /\ \A i \in 1..(Len(s) + Len(t)) : u[i] = IF i <= Len(s) THEN s[i] ELSE t[i - Len(s)]
  BY <1>1, ConcatProperties
<1> HIDE DEF u
<1>3. u = v
  <2>1. \A i \in 1..2 : u[i] = v[i]
    <3>1. \A i \in 1..2 : i = 1 \/ i = 2
      OBVIOUS
    <3> QED
      BY <1>1, <1>2, <3>1
  <2> QED
    BY <1>1, <1>2, <2>1, SeqEqual
<1> QED
  BY <1>3 DEF u, v, s, t

\* Strings of three.
LEMMA ThreeWords ==
  ASSUME NEW a \in Words, NEW b \in Words, NEW c \in Words
  PROVE  <<a>> \o <<b>> \o <<c>> = <<a, b, c>>
<1> DEFINE s == <<a, b>>  t == <<c>>  u == s \o t  v == <<a, b, c>>
<1>1. /\ s \in Seq(Words) /\ Len(s) = 2 /\ s[1] = a /\ s[2] = b
      /\ t \in Seq(Words) /\ Len(t) = 1 /\ t[1] = c
      /\ v \in Seq(Words) /\ Len(v) = 3 /\ v[1] = a /\ v[2] = b /\ v[3] = c
  OBVIOUS
<1> HIDE DEF s, t, v
<1>2. /\ u \in Seq(Words) /\ Len(u) = Len(s) + Len(t)
      /\ \A i \in 1..(Len(s) + Len(t)) : u[i] = IF i <= Len(s) THEN s[i] ELSE t[i - Len(s)]
  BY <1>1, ConcatProperties
<1> HIDE DEF u
<1>3. u = v
  <2>1. u[1] = v[1] /\ u[2] = v[2] /\ u[3] = v[3] /\ Len(u) = 3
    BY <1>1, <1>2
  <2>2. \A i \in 1..3 : u[i] = v[i]
    <3>1. \A i \in 1..3 : i = 1 \/ i = 2 \/ i = 3
      OBVIOUS
    <3> QED
      BY <2>1, <3>1
  <2> QED
    BY <1>1, <1>2, <2>1, <2>2, SeqEqual
<1>4. <<a>> \o <<b>> = s
  BY TwoWords DEF s
<1> QED
  BY <1>3, <1>4 DEF u, v, t

\* Strings of four, from strings of two.
LEMMA FourWords ==
  ASSUME NEW a \in Words, NEW b \in Words, NEW c \in Words, NEW d \in Words
  PROVE  <<a, b>> \o <<c, d>> = <<a, b, c, d>>
<1> DEFINE s == <<a, b>>  t == <<c, d>>  u == s \o t  v == <<a, b, c, d>>
<1>1. /\ s \in Seq(Words) /\ Len(s) = 2 /\ s[1] = a /\ s[2] = b
      /\ t \in Seq(Words) /\ Len(t) = 2 /\ t[1] = c /\ t[2] = d
      /\ v \in Seq(Words) /\ Len(v) = 4 /\ v[1] = a /\ v[2] = b /\ v[3] = c /\ v[4] = d
  OBVIOUS
<1> HIDE DEF s, t, v
<1>2. /\ u \in Seq(Words) /\ Len(u) = Len(s) + Len(t)
      /\ \A i \in 1..(Len(s) + Len(t)) : u[i] = IF i <= Len(s) THEN s[i] ELSE t[i - Len(s)]
  BY <1>1, ConcatProperties
<1> HIDE DEF u
<1>3. u = v
  <2>1. u[1] = v[1] /\ u[2] = v[2] /\ u[3] = v[3] /\ u[4] = v[4] /\ Len(u) = 4
    BY <1>1, <1>2
  <2>2. \A i \in 1..4 : u[i] = v[i]
    <3>1. \A i \in 1..4 : i = 1 \/ i = 2 \/ i = 3 \/ i = 4
      OBVIOUS
    <3> QED
      BY <2>1, <3>1
  <2> QED
    BY <1>1, <1>2, <2>1, <2>2, SeqEqual
<1> QED
  BY <1>3 DEF u, v, s, t

\* A prefix can be taken off what it was put in front of.
LEMMA TrimAfterConcat ==
  ASSUME NEW s \in Text, NEW t \in Text
  PROVE  IsPrefix(s, s \o t) /\ TrimPrefix(s \o t, s) = t
<1> DEFINE u == s \o t
<1>1. /\ u \in Seq(Words) /\ Len(u) = Len(s) + Len(t) /\ Len(s) \in Nat /\ Len(t) \in Nat
      /\ \A i \in 1..Len(u) : u[i] = IF i <= Len(s) THEN s[i] ELSE t[i - Len(s)]
  BY ConcatProperties, LenProperties DEF Text
<1> HIDE DEF u
<1>2. SubSeq(s, 1, Len(s)) = s
  BY SubSeqFull DEF Text
<1>3. SubSeq(u, 1, Len(s)) = s
  <2>1. \A i \in 1..Len(s) : u[i] = s[i] /\ u[i] \in Words
    BY <1>1, ElementOfSeq DEF Text
  <2>2. /\ SubSeq(u, 1, Len(s)) \in Seq(Words)
        /\ Len(SubSeq(u, 1, Len(s))) = Len(s)
        /\ \A i \in 1..Len(s) : SubSeq(u, 1, Len(s))[i] = u[i]
    BY <1>1, <2>1, SubSeqProperties
  <2> QED
    BY <2>1, <2>2, SeqEqual DEF Text
<1>4. SubSeq(u, Len(s) + 1, Len(u)) = t
  <2>1. \A i \in (Len(s) + 1)..Len(u) : u[i] = t[i - Len(s)] /\ u[i] \in Words
    BY <1>1, ElementOfSeq
  <2>2. /\ SubSeq(u, Len(s) + 1, Len(u)) \in Seq(Words)
        /\ Len(SubSeq(u, Len(s) + 1, Len(u))) = Len(t)
        /\ \A i \in 1..Len(t) : SubSeq(u, Len(s) + 1, Len(u))[i] = u[Len(s) + 1 + i - 1]
    BY <1>1, <2>1, SubSeqProperties
  <2>3. ASSUME NEW i \in 1..Len(t) PROVE SubSeq(u, Len(s) + 1, Len(u))[i] = t[i]
    <3>1. Len(s) + i \in (Len(s) + 1)..Len(u) /\ Len(s) + 1 + i - 1 = Len(s) + i
          /\ (Len(s) + i) - Len(s) = i
      BY <1>1
    <3> QED
      BY <2>1, <2>2, <3>1
  <2> QED
    BY <2>2, <2>3, SeqEqual DEF Text
<1>5. IsPrefix(s, u)
  BY <1>1, <1>2, <1>3 DEF IsPrefix
<1> QED
  BY <1>4, <1>5 DEF TrimPrefix, u

\* What starts with a prefix is the prefix and the rest.
LEMMA ConcatAfterTrim ==
  ASSUME NEW s \in Text, NEW t \in Text, IsPrefix(s, t)
  PROVE  TrimPrefix(t, s) \in Text /\ t = s \o TrimPrefix(t, s)
<1>1. Len(s) \in Nat /\ Len(t) \in Nat /\ Len(s) <= Len(t)
  BY LenProperties DEF Text, IsPrefix
<1>2. SubSeq(t, 1, Len(s)) = s
  BY SubSeqFull DEF Text, IsPrefix
<1>3. TrimPrefix(t, s) = SubSeq(t, Len(s) + 1, Len(t))
  BY DEF TrimPrefix
<1>4. SubSeq(t, 1, Len(s)) \o SubSeq(t, Len(s) + 1, Len(t)) = SubSeq(t, 1, Len(t))
  <2>1. 1 \in 1..(Len(t) + 1) /\ Len(s) \in (1 - 1)..Len(t) /\ Len(t) \in Len(s)..Len(t)
    BY <1>1
  <2> QED
    BY <2>1, ConcatAdjacentSubSeq DEF Text
<1>5. SubSeq(t, 1, Len(t)) = t
  BY SubSeqFull DEF Text
<1>6. TrimPrefix(t, s) \in Text
  <2>1. \A i \in (Len(s) + 1)..Len(t) : t[i] \in Words
    BY <1>1, ElementOfSeq DEF Text
  <2> QED
    BY <1>1, <1>3, <2>1, SubSeqProperties DEF Text
<1> QED
  BY <1>2, <1>3, <1>4, <1>5, <1>6

\* Prefixes and occurrences, word by word.
LEMMA PrefixIs ==
  ASSUME NEW s \in Text, NEW t \in Text
  PROVE  /\ Len(s) \in Nat /\ Len(t) \in Nat
         /\ IsPrefix(s, t) <=> Len(s) <= Len(t) /\ \A i \in 1..Len(s) : s[i] = t[i]
<1>1. Len(s) \in Nat /\ Len(t) \in Nat
  BY LenProperties DEF Text
<1>2. ASSUME Len(s) <= Len(t)
      PROVE  SubSeq(s, 1, Len(s)) = SubSeq(t, 1, Len(s)) <=> \A i \in 1..Len(s) : s[i] = t[i]
  <2>1. SubSeq(s, 1, Len(s)) = s
    BY SubSeqFull DEF Text
  <2>2. \A i \in 1..Len(s) : t[i] \in Words
    BY <1>1, <1>2, ElementOfSeq DEF Text
  <2> DEFINE u == SubSeq(t, 1, Len(s))
  <2>3. u \in Seq(Words) /\ Len(u) = Len(s) /\ \A i \in 1..Len(s) : u[i] = t[i]
    BY <1>1, <2>2, SubSeqProperties
  <2> HIDE DEF u
  <2>4. (\A i \in 1..Len(s) : s[i] = t[i]) => s = u
    BY <2>3, SeqEqual DEF Text
  <2> QED
    BY <2>1, <2>3, <2>4 DEF u
<1> QED
  BY <1>1, <1>2 DEF IsPrefix

LEMMA AtIs ==
  ASSUME NEW s \in Text, NEW t \in Text, NEW i \in 1..(Len(s) - Len(t) + 1)
  PROVE  i \in At(s, t) <=> \A j \in 1..Len(t) : s[i + j - 1] = t[j]
<1>1. Len(s) \in Nat /\ Len(t) \in Nat
  BY LenProperties DEF Text
<1>2. \A j \in i..(i + Len(t) - 1) : s[j] \in Words
  BY <1>1, ElementOfSeq DEF Text
<1> DEFINE u == SubSeq(s, i, i + Len(t) - 1)
<1>3. u \in Seq(Words) /\ Len(u) = Len(t) /\ \A j \in 1..Len(t) : u[j] = s[i + j - 1]
  BY <1>1, <1>2, SubSeqProperties
<1> HIDE DEF u
<1>4. (\A j \in 1..Len(t) : u[j] = t[j]) => u = t
  BY <1>3, SeqEqual DEF Text
<1>5. i \in At(s, t) <=> u = t
  BY DEF At, u
<1> QED
  BY <1>3, <1>4, <1>5

\* The words of two strings with a slash between them.
LEMMA Between ==
  ASSUME NEW s \in Text, NEW t \in Text
  PROVE  LET u == s \o Slash \o t IN
         /\ u \in Text /\ Len(s) \in Nat /\ Len(t) \in Nat /\ Len(u) = Len(s) + 1 + Len(t)
         /\ \A i \in 1..Len(s) : u[i] = s[i]
         /\ u[Len(s) + 1] = "/"
         /\ \A i \in 1..Len(t) : u[Len(s) + 1 + i] = t[i]
<1> DEFINE a == s \o Slash  u == a \o t
<1>1. Slash \in Text /\ Len(Slash) = 1 /\ Slash[1] = "/"
  BY DEF Slash, Text, Words
<1>2. Len(s) \in Nat /\ Len(t) \in Nat
  BY LenProperties DEF Text
<1>3. /\ a \in Seq(Words) /\ Len(a) = Len(s) + 1
      /\ \A i \in 1..(Len(s) + 1) : a[i] = IF i <= Len(s) THEN s[i] ELSE Slash[i - Len(s)]
  <2>1. /\ a \in Seq(Words) /\ Len(a) = Len(s) + Len(Slash)
        /\ \A i \in 1..(Len(s) + Len(Slash)) : a[i] = IF i <= Len(s) THEN s[i] ELSE Slash[i - Len(s)]
    BY <1>1, ConcatProperties DEF Text
  <2> HIDE DEF a
  <2> QED
    BY <1>1, <2>1
<1> HIDE DEF a
<1>4. /\ u \in Seq(Words) /\ Len(u) = Len(a) + Len(t)
      /\ \A i \in 1..(Len(a) + Len(t)) : u[i] = IF i <= Len(a) THEN a[i] ELSE t[i - Len(a)]
  <2>1. a \in Seq(Words) /\ t \in Seq(Words)
    BY <1>3 DEF Text
  <2> QED
    BY <2>1, ConcatProperties, Zenon
<1> HIDE DEF u
<1>5. \A i \in 1..Len(s) : u[i] = s[i]
  BY <1>2, <1>3, <1>4
<1>6. u[Len(s) + 1] = "/"
  BY <1>1, <1>2, <1>3, <1>4
<1>7. \A i \in 1..Len(t) : u[Len(s) + 1 + i] = t[i]
  BY <1>2, <1>3, <1>4
<1> QED
  BY <1>2, <1>3, <1>4, <1>5, <1>6, <1>7 DEF u, a, Text

\* The words of a string with a slash behind it.
LEMMA PrefixMark ==
  ASSUME NEW d \in Text
  PROVE  /\ d \o Slash \in Text /\ Len(d) \in Nat /\ Len(d \o Slash) = Len(d) + 1
         /\ \A i \in 1..Len(d) : (d \o Slash)[i] = d[i]
         /\ (d \o Slash)[Len(d) + 1] = "/"
<1>1. Slash \in Seq(Words) /\ Len(Slash) = 1 /\ Slash[1] = "/"
  BY Marks DEF Slash, Text
<1> DEFINE s == Slash
<1> HIDE DEF s
<1>2. s \in Seq(Words) /\ Len(s) = 1 /\ s[1] = "/" /\ d \in Seq(Words) /\ Len(d) \in Nat
  BY <1>1, LenProperties DEF s, Text
<1>3. /\ d \o s \in Seq(Words) /\ Len(d \o s) = Len(d) + Len(s)
      /\ \A i \in 1..(Len(d) + Len(s)) : (d \o s)[i] = IF i <= Len(d) THEN d[i] ELSE s[i - Len(d)]
  BY <1>2, ConcatProperties, Zenon
<1> DEFINE u == d \o s
<1> HIDE DEF u
<1>4. /\ u \in Seq(Words) /\ Len(u) = Len(d) + 1
      /\ \A i \in 1..Len(d) : u[i] = d[i]
      /\ u[Len(d) + 1] = "/"
  <2>1. u \in Seq(Words) /\ Len(u) = Len(d) + 1
    BY <1>2, <1>3 DEF u
  <2>2. \A i \in 1..(Len(d) + Len(s)) : u[i] = IF i <= Len(d) THEN d[i] ELSE s[i - Len(d)]
    BY <1>3 DEF u
  <2>3. \A i \in 1..Len(d) : u[i] = d[i]
    BY <1>2, <2>2
  <2>4. u[Len(d) + 1] = s[(Len(d) + 1) - Len(d)] /\ (Len(d) + 1) - Len(d) = 1
    BY <1>2, <2>2
  <2> QED
    BY <1>2, <2>1, <2>3, <2>4
<1> QED
  BY <1>2, <1>4 DEF u, s, Text

-----------------------------------------------------------------------------
(* Recursion.  Split and Join are recursive functions; least elements stand *)
(* for induction over what they compute.                                   *)

\* A nonempty set of natural numbers has a least element.
LEMMA Least ==
  ASSUME NEW T, T \subseteq Nat, T # {}
  PROVE  \E m \in T : \A n \in T : m <= n
<1>1. PICK m \in T : \A n \in T : ~ (<<n, m>> \in OpToRel(<, Nat))
  BY WFMin, NatLessThanWellFounded
<1>2. \A n \in T : ~ (n < m)
  BY <1>1 DEF OpToRel
<1> QED
  BY <1>2

\* Induction over a set: what holds of 0 and, after n - 1, of n holds up to N.
LEMMA UpTo ==
  ASSUME NEW N \in Nat, NEW T, 0 \in T, \A n \in 1..N : n - 1 \in T => n \in T
  PROVE  0..N \subseteq T
<1> SUFFICES ASSUME ~(0..N \subseteq T) PROVE FALSE
  OBVIOUS
<1> DEFINE Missing == {n \in 0..N : n \notin T}
<1>1. Missing \subseteq Nat /\ Missing # {}
  OBVIOUS
<1>2. PICK m \in Missing : \A n \in Missing : m <= n
  <2> HIDE DEF Missing
  <2> QED
    BY <1>1, Least
<1>3. m \in 1..N /\ m - 1 \in 0..N
  BY <1>2
<1>4. m - 1 \in T
  BY <1>2, <1>3
<1> QED
  BY <1>2, <1>3, <1>4

\* What a recursive function on 0..N does at each step, and its values.
Steps(N, A) == [1..N -> [A -> A]]

Chain(N, A, base, step, f) ==
  /\ f \in [0..N -> A]
  /\ f[0] = base
  /\ \A n \in 1..N : f[n] = step[n][f[n - 1]]

\* A recursive function exists.
LEMMA ChainExists ==
  ASSUME NEW N \in Nat, NEW A, NEW base \in A, NEW step \in Steps(N, A)
  PROVE  \E f : Chain(N, A, base, step, f)
<1> DEFINE T == {n \in 0..N : \E f : Chain(n, A, base, step, f)}
<1>1. 0 \in T
  <2>1. Chain(0, A, base, step, [i \in 0..0 |-> base])
    BY DEF Chain
  <2> QED
    BY <2>1
<1>2. ASSUME NEW n \in 1..N, n - 1 \in T PROVE n \in T
  <2>1. PICK f : Chain(n - 1, A, base, step, f)
    BY <1>2
  <2> DEFINE g == [i \in 0..n |-> IF i = n THEN step[n][f[n - 1]] ELSE f[i]]
  <2>2. f[n - 1] \in A /\ step[n][f[n - 1]] \in A
    BY <2>1 DEF Chain, Steps
  <2>3. g \in [0..n -> A] /\ g[0] = base
    BY <2>1, <2>2 DEF Chain
  <2>4. ASSUME NEW i \in 1..n PROVE g[i] = step[i][g[i - 1]]
    <3>1. g[i - 1] = f[i - 1]
      OBVIOUS
    <3>2. CASE i = n
      <4>1. g[n] = step[n][f[n - 1]]
        OBVIOUS
      <4> HIDE DEF g
      <4> QED
        BY <3>1, <3>2, <4>1
    <3>3. CASE i # n
      <4>1. i \in 1..(n - 1) /\ g[i] = f[i]
        BY <3>3
      <4> QED
        BY <2>1, <3>1, <4>1 DEF Chain
    <3> QED
      BY <3>2, <3>3
  <2>5. Chain(n, A, base, step, g)
    <3> HIDE DEF g
    <3> QED
      BY <2>3, <2>4 DEF Chain
  <2> QED
    BY <2>5
<1>3. N \in T
  <2> HIDE DEF T
  <2>1. 0..N \subseteq T
    BY <1>1, <1>2, UpTo
  <2> QED
    BY <2>1
<1> QED
  BY <1>3

-----------------------------------------------------------------------------
(* Split.                                                                  *)

\* What Split returns: at least one string.
Parts == Seq(Text) \ {<<>>}

\* Cut keeps to that.
LEMMA CutTyped ==
  ASSUME NEW p \in Parts, NEW w \in Words
  PROVE  Cut(p, w) \in Parts
<1>1. p \in Seq(Text) /\ p # <<>> /\ Empty \in Text
  BY DEF Text, Parts, Empty
<1>2. Len(p) \in 1..Len(p)
  BY <1>1, EmptySeq
<1>3. Append(p, Empty) \in Parts
  BY <1>1, AppendProperties DEF Parts
<1>4. p[Len(p)] \in Text
  BY <1>1, <1>2, ElementOfSeq
<1>5. Append(p[Len(p)], w) \in Text
  BY <1>1, <1>4, AppendProperties DEF Text
<1>6. [p EXCEPT ![Len(p)] = Append(@, w)] \in Seq(Text)
      /\ Len([p EXCEPT ![Len(p)] = Append(@, w)]) = Len(p)
  BY <1>1, <1>2, <1>5, ExceptSeq
<1>7. [p EXCEPT ![Len(p)] = Append(@, w)] \in Parts
  <2> DEFINE q == [p EXCEPT ![Len(p)] = Append(@, w)]
  <2>1. q \in Seq(Text) /\ Len(q) # 0
    BY <1>2, <1>6
  <2> HIDE DEF q
  <2>2. q # <<>>
    BY <2>1
  <2> QED
    BY <2>1, <2>2 DEF Parts, q
<1> QED
  BY <1>3, <1>7, Zenon DEF Cut

\* f is the computation of Split(s), word by word.
Splits(s, f) ==
  /\ f \in [0..Len(s) -> Parts]
  /\ f[0] = <<Empty>>
  /\ \A n \in 1..Len(s) : f[n] = Cut(f[n - 1], s[n])

\* The computation exists, and ends with Split(s).
LEMMA SplitComputed ==
  ASSUME NEW s \in Text
  PROVE  Len(s) \in Nat /\ \E f : Splits(s, f) /\ Split(s) = f[Len(s)]
<1> DEFINE
      Body(g) == [n \in 0..Len(s) |-> IF n = 0 THEN <<Empty>> ELSE Cut(g[n - 1], s[n])]
<1>1. Len(s) \in Nat
  BY LenProperties DEF Text
<1>2. Split(s) = (CHOOSE g : g = Body(g))[Len(s)]
  BY Zenon DEF Split
<1>3. \E g : g = Body(g)
  <2> DEFINE step == [n \in 1..Len(s) |-> [p \in Parts |-> Cut(p, s[n])]]
  <2>1. step \in Steps(Len(s), Parts)
    BY <1>1, ElementOfSeq, CutTyped DEF Steps, Text
  <2>2. <<Empty>> \in Parts
    BY DEF Parts, Empty, Text
  <2>3. \A n \in 1..Len(s), p \in Parts : step[n][p] = Cut(p, s[n])
    OBVIOUS
  <2> HIDE DEF step
  <2>4. PICK f : Chain(Len(s), Parts, <<Empty>>, step, f)
    BY <1>1, <2>1, <2>2, ChainExists
  <2> USE DEF Chain
  <2>5. \A n \in 1..Len(s) : f[n] = Cut(f[n - 1], s[n])
    BY <1>1, <2>3, <2>4
  <2>6. f = [n \in 0..Len(s) |-> f[n]]
    BY <2>4
  <2>7. \A n \in 0..Len(s) : n # 0 => n \in 1..Len(s)
    BY <1>1
  <2>8. \A n \in 0..Len(s) : f[n] = Body(f)[n]
    BY <2>4, <2>5, <2>7, Zenon
  <2>9. f = Body(f)
    BY <2>4, <2>8
  <2> HIDE DEF Body
  <2> QED
    BY <2>9
<1>4. PICK g : g = Body(g) /\ Split(s) = g[Len(s)]
  <2> HIDE DEF Body
  <2> QED
    BY <1>2, <1>3
<1>5. g[0] = <<Empty>>
  BY <1>1, <1>4
<1>6. ASSUME NEW n \in 1..Len(s) PROVE g[n] = Cut(g[n - 1], s[n])
  <2>1. n \in 0..Len(s) /\ n # 0
    BY <1>1
  <2> QED
    BY <1>4, <2>1, Zenon
<1>7. \A n \in 0..Len(s) : g[n] \in Parts
  <2> DEFINE T == {n \in 0..Len(s) : g[n] \in Parts}
  <2>1. 0 \in T
    <3>1. <<Empty>> \in Parts
      BY DEF Parts, Empty, Text
    <3> QED
      BY <1>1, <1>5, <3>1
  <2>2. ASSUME NEW n \in 1..Len(s), n - 1 \in T PROVE n \in T
    BY <1>1, <1>6, <2>2, ElementOfSeq, CutTyped DEF Text
  <2>3. 0..Len(s) \subseteq T
    <3> HIDE DEF T
    <3> QED
      BY <1>1, <2>1, <2>2, UpTo
  <2> QED
    BY <2>3
<1>8. g \in [0..Len(s) -> Parts]
  BY <1>4, <1>7
<1> QED
  BY <1>1, <1>4, <1>5, <1>6, <1>8 DEF Splits

\* Whatever follows the steps of Split arrives at Split.
LEMMA SplitIs ==
  ASSUME NEW s \in Text, NEW f, Splits(s, f)
  PROVE  Split(s) = f[Len(s)]
<1>1. PICK g : Len(s) \in Nat /\ Splits(s, g) /\ Split(s) = g[Len(s)]
  BY SplitComputed
<1> DEFINE T == {n \in 0..Len(s) : f[n] = g[n]}
<1>2. 0 \in T
  BY <1>1 DEF Splits
<1>3. ASSUME NEW n \in 1..Len(s), n - 1 \in T PROVE n \in T
  BY <1>1, <1>3 DEF Splits
<1>4. 0..Len(s) \subseteq T
  <2> HIDE DEF T
  <2> QED
    BY <1>1, <1>2, <1>3, UpTo
<1> QED
  BY <1>1, <1>4

\* A prefix of a string is a shorter one and a word.
LEMMA Extend ==
  ASSUME NEW s \in Text, NEW n \in 1..Len(s)
  PROVE  /\ s[n] \in Words /\ SubSeq(s, 1, n - 1) \in Text
         /\ SubSeq(s, 1, n) = Append(SubSeq(s, 1, n - 1), s[n])
<1>1. Len(s) \in Nat /\ s[n] \in Words
  BY LenProperties, ElementOfSeq DEF Text
<1>2. \A i \in 1..(n - 1) : s[i] \in Words
  BY <1>1, ElementOfSeq DEF Text
<1>3. SubSeq(s, 1, n - 1) \in Seq(Words)
  BY <1>1, <1>2, SubSeqProperties
<1>4. SubSeq(s, 1, n) = SubSeq(s, 1, n - 1) \o <<s[n]>>
  BY <1>1, SubSeqRecursiveSecond DEF Text
<1> QED
  BY <1>1, <1>3, <1>4, AppendIsConcat DEF Text

\* Cut extends the last part by any other word than a slash.
LEMMA CutLast ==
  ASSUME NEW p \in Parts, NEW w \in Words, w # "/"
  PROVE  /\ Len(p) \in Nat \ {0} /\ Cut(p, w) \in Seq(Text) /\ Len(Cut(p, w)) = Len(p)
         /\ Cut(p, w)[Len(p)] = Append(p[Len(p)], w)
         /\ \A i \in 1..(Len(p) - 1) : Cut(p, w)[i] = p[i]
<1>1. p \in Seq(Text) /\ p # <<>> /\ Len(p) \in Nat \ {0}
  BY EmptySeq DEF Parts
<1>2. Len(p) \in 1..Len(p)
  BY <1>1
<1>3. p[Len(p)] \in Text
  BY <1>1, <1>2, ElementOfSeq
<1>4. Append(p[Len(p)], w) \in Text
  BY <1>3, AppendProperties DEF Text
<1>5. Cut(p, w) = [p EXCEPT ![Len(p)] = Append(p[Len(p)], w)]
  BY DEF Cut
<1> QED
  BY <1>1, <1>2, <1>4, <1>5, ExceptSeq

\* Cut leaves the parts before the last alone.
LEMMA CutConcat ==
  ASSUME NEW p \in Seq(Text), NEW q \in Parts, NEW w \in Words
  PROVE  p \o q \in Parts /\ Cut(p \o q, w) = p \o Cut(q, w)
<1> DEFINE r == p \o q
<1>1. q \in Seq(Text) /\ Len(q) \in Nat \ {0} /\ Len(p) \in Nat
  BY EmptySeq, LenProperties DEF Parts
<1>2. /\ r \in Seq(Text) /\ Len(r) = Len(p) + Len(q)
      /\ \A i \in 1..(Len(p) + Len(q)) : r[i] = IF i <= Len(p) THEN p[i] ELSE q[i - Len(p)]
  BY <1>1, ConcatProperties
<1> HIDE DEF r
<1>3. r \in Parts
  BY <1>1, <1>2 DEF Parts
<1>4. CASE w = "/"
  <2>1. Cut(r, w) = Append(r, Empty) /\ Cut(q, w) = Append(q, Empty) /\ Empty \in Text
    BY <1>4 DEF Cut, Empty, Text
  <2>2. Append(r, Empty) = r \o <<Empty>> /\ Append(q, Empty) = q \o <<Empty>>
    BY <1>1, <1>2, <2>1, AppendIsConcat
  <2>3. (p \o q) \o <<Empty>> = p \o (q \o <<Empty>>)
    <3>1. <<Empty>> \in Seq(Text)
      BY <2>1
    <3> QED
      BY <1>1, <3>1, ConcatAssociative
  <2> QED
    BY <1>3, <2>1, <2>2, <2>3 DEF r
<1>5. CASE w # "/"
  <2> DEFINE v == Cut(q, w)  x == Cut(r, w)  y == p \o v
  <2>1. /\ v \in Seq(Text) /\ Len(v) = Len(q) /\ v[Len(q)] = Append(q[Len(q)], w)
        /\ \A i \in 1..(Len(q) - 1) : v[i] = q[i]
    BY <1>5, CutLast
  <2>2. /\ x \in Seq(Text) /\ Len(x) = Len(r) /\ x[Len(r)] = Append(r[Len(r)], w)
        /\ \A i \in 1..(Len(r) - 1) : x[i] = r[i]
    BY <1>3, <1>5, CutLast
  <2> HIDE DEF v, x
  <2>3. /\ y \in Seq(Text) /\ Len(y) = Len(p) + Len(q)
        /\ \A i \in 1..(Len(p) + Len(q)) : y[i] = IF i <= Len(p) THEN p[i] ELSE v[i - Len(p)]
    <3>1. /\ y \in Seq(Text) /\ Len(y) = Len(p) + Len(v)
          /\ \A i \in 1..(Len(p) + Len(v)) : y[i] = IF i <= Len(p) THEN p[i] ELSE v[i - Len(p)]
      <4>1. v \in Seq(Text)
        BY <2>1
      <4> QED
        BY <4>1, ConcatProperties, Zenon
    <3> HIDE DEF y
    <3> QED
      BY <2>1, <3>1
  <2> HIDE DEF y
  <2>4. ASSUME NEW i \in 1..Len(x) PROVE x[i] = y[i]
    <3>1. CASE i = Len(r)
      <4>1. i \in 1..(Len(p) + Len(q)) /\ ~(i <= Len(p)) /\ i - Len(p) = Len(q)
        BY <1>1, <1>2, <3>1
      <4>2. y[i] = v[Len(q)] /\ r[i] = q[Len(q)]
        BY <1>2, <2>3, <4>1
      <4> QED
        BY <2>1, <2>2, <3>1, <4>2
    <3>2. CASE i # Len(r)
      <4>1. i \in 1..(Len(r) - 1) /\ i \in 1..(Len(p) + Len(q))
        BY <1>1, <1>2, <2>2, <3>2
      <4>2. x[i] = IF i <= Len(p) THEN p[i] ELSE q[i - Len(p)]
        BY <1>2, <2>2, <4>1
      <4>3. ~(i <= Len(p)) => v[i - Len(p)] = q[i - Len(p)]
        <5>1. ~(i <= Len(p)) => i - Len(p) \in 1..(Len(q) - 1)
          BY <1>1, <1>2, <4>1
        <5> QED
          BY <2>1, <5>1
      <4> QED
        BY <2>3, <4>1, <4>2, <4>3
    <3> QED
      BY <3>1, <3>2
  <2>5. x = y
    BY <1>2, <2>2, <2>3, <2>4, SeqEqual
  <2> QED
    BY <1>3, <2>5 DEF x, y, v, r
<1> QED
  BY <1>4, <1>5

\* A slash between two strings parts their parts.
LEMMA SplitConcat ==
  ASSUME NEW s \in Text, NEW t \in Text
  PROVE  Split(s) \in Parts /\ Split(s \o Slash \o t) = Split(s) \o Split(t)
<1> DEFINE u == s \o Slash \o t
<1>1. /\ u \in Text /\ Len(s) \in Nat /\ Len(t) \in Nat /\ Len(u) = Len(s) + 1 + Len(t)
      /\ \A i \in 1..Len(s) : u[i] = s[i]
      /\ u[Len(s) + 1] = "/"
      /\ \A i \in 1..Len(t) : u[Len(s) + 1 + i] = t[i]
  BY Between
<1> HIDE DEF u
<1>2. PICK f : Splits(s, f) /\ Split(s) = f[Len(s)]
  BY SplitComputed
<1>3. PICK g : Splits(t, g) /\ Split(t) = g[Len(t)]
  BY SplitComputed
<1> DEFINE p == f[Len(s)]
           h == [n \in 0..Len(u) |-> IF n <= Len(s) THEN f[n] ELSE p \o g[n - Len(s) - 1]]
<1>4. p \in Parts /\ p \in Seq(Text)
  BY <1>1, <1>2 DEF Splits, Parts
<1>5. \A n \in 0..Len(s) : h[n] = f[n] /\ f[n] \in Parts
  BY <1>1, <1>2 DEF Splits
<1>6. \A n \in 0..Len(t) : h[Len(s) + 1 + n] = p \o g[n] /\ g[n] \in Parts
  <2> SUFFICES ASSUME NEW n \in 0..Len(t)
               PROVE  h[Len(s) + 1 + n] = p \o g[n] /\ g[n] \in Parts
    OBVIOUS
  <2>1. Len(s) + 1 + n \in 0..Len(u) /\ ~(Len(s) + 1 + n <= Len(s))
        /\ Len(s) + 1 + n - Len(s) - 1 = n
    BY <1>1
  <2> HIDE DEF p
  <2>2. h[Len(s) + 1 + n] = p \o g[n]
    BY <2>1
  <2>3. g \in [0..Len(t) -> Parts]
    BY <1>3, Zenon DEF Splits
  <2>4. g[n] \in Parts
    BY <2>3
  <2> QED
    BY <2>2, <2>4
<1>7. DOMAIN h = 0..Len(u) /\ h = [n \in 0..Len(u) |-> h[n]]
  OBVIOUS
<1> HIDE DEF h, p
<1>8. \A n \in 0..Len(u) : n \in 0..Len(s) \/ \E m \in 0..Len(t) : n = Len(s) + 1 + m
  <2> SUFFICES ASSUME NEW n \in 0..Len(u), n \notin 0..Len(s)
               PROVE  \E m \in 0..Len(t) : n = Len(s) + 1 + m
    OBVIOUS
  <2>1. n - Len(s) - 1 \in 0..Len(t) /\ n = Len(s) + 1 + (n - Len(s) - 1)
    BY <1>1
  <2> QED
    BY <2>1
<1>9. \A n \in 0..Len(u) : h[n] \in Parts
  <2>1. \A m \in 0..Len(t) : h[Len(s) + 1 + m] \in Parts
    <3>1. \A q \in Parts : p \o q \in Parts
      <4>1. "/" \in Words
        BY DEF Words
      <4> QED
        BY <1>4, <4>1, CutConcat
    <3> QED
      BY <1>6, <3>1
  <2> QED
    BY <1>5, <1>8, <2>1
<1>10. ASSUME NEW n \in 1..Len(u) PROVE h[n] = Cut(h[n - 1], u[n])
  <2>1. CASE n \in 1..Len(s)
    <3>1. n \in 0..Len(s) /\ n - 1 \in 0..Len(s)
      BY <1>1, <2>1
    <3> QED
      BY <1>1, <1>2, <1>5, <2>1, <3>1 DEF Splits
  <2>2. CASE n = Len(s) + 1
    <3>1. n - 1 = Len(s) /\ Len(s) \in 0..Len(s) /\ 0 \in 0..Len(t) /\ n = Len(s) + 1 + 0
      BY <1>1, <2>2
    <3>2. h[n - 1] = p /\ h[n] = p \o g[0]
      BY <1>5, <1>6, <3>1 DEF p
    <3>3. g[0] = <<Empty>> /\ u[n] = "/"
      BY <1>1, <1>3, <2>2 DEF Splits
    <3>4. Cut(p, "/") = Append(p, Empty) /\ Empty \in Text
      BY DEF Cut, Empty, Text
    <3>5. Append(p, Empty) = p \o <<Empty>>
      BY <1>4, <3>4, AppendIsConcat
    <3> QED
      BY <3>2, <3>3, <3>4, <3>5
  <2>3. CASE n > Len(s) + 1
    <3> DEFINE m == n - Len(s) - 1
    <3>1. m \in 1..Len(t) /\ m \in 0..Len(t) /\ m - 1 \in 0..Len(t)
          /\ n = Len(s) + 1 + m /\ n - 1 = Len(s) + 1 + (m - 1)
      BY <1>1, <2>3
    <3> HIDE DEF m
    <3>2. h[n] = p \o g[m] /\ h[n - 1] = p \o g[m - 1] /\ g[m - 1] \in Parts
      BY <1>6, <3>1
    <3>3. g[m] = Cut(g[m - 1], t[m]) /\ u[n] = t[m] /\ t[m] \in Words
      BY <1>1, <1>3, <3>1, ElementOfSeq DEF Splits, Text
    <3>4. Cut(p \o g[m - 1], t[m]) = p \o Cut(g[m - 1], t[m])
      BY <1>4, <3>2, <3>3, CutConcat
    <3> QED
      BY <3>2, <3>3, <3>4
  <2> QED
    BY <1>1, <2>1, <2>2, <2>3
<1>11. h[0] = <<Empty>>
  BY <1>1, <1>2, <1>5 DEF Splits
<1>12. Splits(u, h)
  <2>1. h \in [0..Len(u) -> Parts]
    BY <1>7, <1>9
  <2> QED
    BY <1>10, <1>11, <2>1 DEF Splits
<1>13. Split(u) = h[Len(u)]
  BY <1>1, <1>12, SplitIs
<1>14. h[Len(u)] = p \o g[Len(t)]
  BY <1>1, <1>6
<1> QED
  BY <1>2, <1>3, <1>4, <1>13, <1>14 DEF u, p

\* A string without slashes is one part.
LEMMA SplitOne ==
  ASSUME NEW s \in Text, \A i \in 1..Len(s) : s[i] # "/"
  PROVE  Split(s) = <<s>>
<1> DEFINE h == [n \in 0..Len(s) |-> <<SubSeq(s, 1, n)>>]
<1>1. Len(s) \in Nat
  BY LenProperties DEF Text
<1>2. SubSeq(s, 1, 0) = Empty /\ Empty \in Text /\ SubSeq(s, 1, Len(s)) = s
  BY <1>1, SubSeqEmpty, SubSeqFull DEF Empty, Text
<1>3. \A n \in 0..Len(s) : SubSeq(s, 1, n) \in Text
  <2> SUFFICES ASSUME NEW n \in 0..Len(s) PROVE SubSeq(s, 1, n) \in Text
    OBVIOUS
  <2>1. \A i \in 1..n : s[i] \in Words
    BY <1>1, ElementOfSeq DEF Text
  <2> QED
    BY <1>1, <2>1, SubSeqProperties DEF Text
<1>4. \A x \in Text : <<x>> \in Parts /\ Len(<<x>>) = 1 /\ <<x>>[1] = x
  BY DEF Parts
<1>5. \A n \in 0..Len(s) : h[n] = <<SubSeq(s, 1, n)>>
  OBVIOUS
<1>6. h \in [0..Len(s) -> Parts]
  BY <1>3, <1>4
<1> HIDE DEF h
<1>7. ASSUME NEW n \in 1..Len(s) PROVE h[n] = Cut(h[n - 1], s[n])
  <2> DEFINE x == SubSeq(s, 1, n - 1)
  <2>1. n \in 0..Len(s) /\ n - 1 \in 0..Len(s)
    BY <1>1
  <2>2. x \in Text /\ s[n] \in Words /\ s[n] # "/" /\ SubSeq(s, 1, n) = Append(x, s[n])
    BY Extend
  <2>3. h[n] = <<Append(x, s[n])>> /\ h[n - 1] = <<x>>
    BY <1>5, <2>1, <2>2
  <2> HIDE DEF x
  <2>4. /\ <<x>> \in Parts /\ Cut(<<x>>, s[n]) \in Seq(Text) /\ Len(Cut(<<x>>, s[n])) = 1
        /\ Cut(<<x>>, s[n])[1] = Append(x, s[n])
    <3>1. <<x>> \in Parts /\ Len(<<x>>) = 1 /\ <<x>>[1] = x
      BY <1>4, <2>2, Zenon
    <3> DEFINE y == <<x>>
    <3>2. y \in Parts /\ Len(y) = 1 /\ y[1] = x
      BY <3>1
    <3> HIDE DEF y
    <3>3. /\ Cut(y, s[n]) \in Seq(Text) /\ Len(Cut(y, s[n])) = Len(y)
          /\ Cut(y, s[n])[Len(y)] = Append(y[Len(y)], s[n])
      BY <2>2, <3>2, CutLast, Zenon
    <3> QED
      BY <3>2, <3>3, Zenon DEF y
  <2>5. Cut(<<x>>, s[n]) = <<Append(x, s[n])>>
    <3> DEFINE c == Cut(<<x>>, s[n])  d == Append(x, s[n])
    <3>1. c \in Seq(Text) /\ Len(c) = 1 /\ c[1] = d
      BY <2>4
    <3> HIDE DEF c, d
    <3>2. c = <<d>>
      BY <3>1
    <3> QED
      BY <3>2 DEF c, d
  <2> QED
    BY <2>3, <2>5
<1>8. Splits(s, h)
  BY <1>1, <1>2, <1>5, <1>6, <1>7 DEF Splits
<1>9. Split(s) = h[Len(s)]
  BY <1>8, SplitIs
<1> QED
  BY <1>1, <1>2, <1>5, <1>9

\* A word that is not a slash is a part.
LEMMA SplitWord ==
  ASSUME NEW w \in Words, w # "/"
  PROVE  <<w>> \in Text /\ Split(<<w>>) = <<<<w>>>>
<1> DEFINE t == <<w>>
<1>1. t \in Text /\ Len(t) = 1 /\ t[1] = w
  BY DEF Text
<1> HIDE DEF t
<1>2. Split(t) = <<t>>
  BY <1>1, SplitOne
<1> QED
  BY <1>1, <1>2 DEF t

\* The words of a part are words of the string, and no slashes.
LEMMA PartWords ==
  ASSUME NEW s \in Text, NEW i \in DOMAIN Split(s), NEW j \in DOMAIN Split(s)[i]
  PROVE  Split(s)[i][j] # "/" /\ \E k \in DOMAIN s : s[k] = Split(s)[i][j]
<1>1. PICK f : Len(s) \in Nat /\ Splits(s, f) /\ Split(s) = f[Len(s)]
  BY SplitComputed
<1> DEFINE Of(w) == w # "/" /\ \E k \in 1..Len(s) : s[k] = w
           Good(t) == \A l \in 1..Len(t) : Of(t[l])
           T == {n \in 0..Len(s) : \A x \in 1..Len(f[n]) : Good(f[n][x])}
<1>2. Good(Empty)
  BY DEF Empty
<1>3. 0 \in T
  <2>1. f[0] = <<Empty>> /\ \A x \in 1..Len(<<Empty>>) : <<Empty>>[x] = Empty
    BY <1>1 DEF Splits
  <2> HIDE DEF Good
  <2> QED
    BY <1>1, <1>2, <2>1
<1>4. ASSUME NEW n \in 1..Len(s), n - 1 \in T PROVE n \in T
  <2> DEFINE p == f[n - 1]  w == s[n]  q == Cut(p, w)
  <2>1. n \in 0..Len(s) /\ n - 1 \in 0..Len(s)
    BY <1>1
  <2>2. p \in Parts /\ f[n] = q /\ w \in Words
    BY <1>1, <2>1, Extend DEF Splits
  <2>3. \A x \in 1..Len(p) : Good(p[x])
    BY <1>4
  <2>4. p \in Seq(Text) /\ Len(p) \in Nat \ {0} /\ Len(p) \in 1..Len(p)
    BY <2>2, EmptySeq DEF Parts
  <2>5. \A x \in 1..Len(q) : Good(q[x])
    <3>1. CASE w = "/"
      <4>1. q = Append(p, Empty) /\ Empty \in Text
        BY <3>1 DEF Cut, Empty, Text
      <4>2. Len(q) = Len(p) + 1 /\ q[Len(p) + 1] = Empty /\ \A x \in 1..Len(p) : q[x] = p[x]
        BY <2>4, <4>1, AppendProperties
      <4> HIDE DEF Good, p, q
      <4> QED
        BY <1>2, <2>3, <2>4, <4>2
    <3>2. CASE w # "/"
      <4> HIDE DEF Of, p, w
      <4>1. /\ Len(q) = Len(p) /\ q[Len(p)] = Append(p[Len(p)], w)
            /\ \A x \in 1..(Len(p) - 1) : q[x] = p[x]
        BY <2>2, <3>2, CutLast
      <4>2. p[Len(p)] \in Seq(Words)
        BY <2>4, ElementOfSeq DEF Text
      <4>3. Of(w)
        BY <3>2 DEF Of, w
      <4> HIDE DEF q
      <4>4. Good(q[Len(p)])
        <5> DEFINE t == p[Len(p)]  u == Append(t, w)
        <5>1. Len(u) = Len(t) + 1 /\ u[Len(t) + 1] = w /\ Len(t) \in Nat
              /\ \A l \in 1..Len(t) : u[l] = t[l]
          BY <2>2, <4>2, AppendProperties, LenProperties
        <5>2. Good(t)
          BY <2>3, <2>4
        <5> HIDE DEF t, u
        <5>3. \A l \in 1..Len(u) : Of(u[l])
          BY <4>3, <5>1, <5>2
        <5> QED
          BY <4>1, <5>3 DEF t, u
      <4> HIDE DEF Good
      <4>5. ASSUME NEW x \in 1..Len(q) PROVE Good(q[x])
        <5>1. x = Len(p) \/ (x \in 1..(Len(p) - 1) /\ x \in 1..Len(p))
          BY <2>4, <4>1
        <5> QED
          BY <2>3, <4>1, <4>4, <5>1
      <4> QED
        BY <4>5
    <3> QED
      BY <3>1, <3>2
  <2> HIDE DEF Good, q, p, w
  <2> QED
    BY <2>1, <2>2, <2>5
<1>5. 0..Len(s) \subseteq T
  <2> HIDE DEF T
  <2> QED
    BY <1>1, <1>3, <1>4, UpTo
<1>6. f[Len(s)] \in Seq(Text) /\ Len(s) \in T
  <2>1. Len(s) \in 0..Len(s)
    BY <1>1
  <2>2. f[Len(s)] \in Parts
    BY <1>1, <2>1 DEF Splits
  <2> QED
    BY <1>5, <2>1, <2>2 DEF Parts
<1>7. DOMAIN Split(s) = 1..Len(Split(s)) /\ Split(s)[i] \in Text
  BY <1>1, <1>6, LenProperties, ElementOfSeq
<1>8. DOMAIN Split(s)[i] = 1..Len(Split(s)[i]) /\ DOMAIN s = 1..Len(s)
  BY <1>7, LenProperties DEF Text
<1>9. Good(Split(s)[i])
  <2> HIDE DEF Good
  <2> QED
    BY <1>1, <1>6, <1>7
<1> QED
  BY <1>8, <1>9

-----------------------------------------------------------------------------
(* Join.                                                                   *)

\* g is the computation of Join(p), part by part.
Joins(p, g) ==
  /\ g \in [0..Len(p) -> Text]
  /\ g[0] = Empty
  /\ \A n \in 1..Len(p) : g[n] = IF n = 1 THEN p[1] ELSE g[n - 1] \o Slash \o p[n]

\* The computation exists, and ends with Join(p).
LEMMA JoinComputed ==
  ASSUME NEW p \in Seq(Text)
  PROVE  Len(p) \in Nat /\ \E g : Joins(p, g) /\ Join(p) = g[Len(p)]
<1> DEFINE
      Link(t, n) == IF n = 1 THEN p[1] ELSE t \o Slash \o p[n]
      Body(g) == [n \in 0..Len(p) |->
                    IF n = 0 THEN Empty
                    ELSE IF n = 1 THEN p[1] ELSE g[n - 1] \o Slash \o p[n]]
<1>1. Len(p) \in Nat /\ Empty \in Text
  BY LenProperties DEF Empty, Text
<1>2. Join(p) = (CHOOSE g : g = Body(g))[Len(p)]
  BY Zenon DEF Join
<1>3. \A n \in 1..Len(p), t \in Text : Link(t, n) \in Text
  <2> SUFFICES ASSUME NEW n \in 1..Len(p), NEW t \in Text PROVE Link(t, n) \in Text
    OBVIOUS
  <2>1. p[n] \in Text
    BY ElementOfSeq
  <2> QED
    BY <2>1, Between
<1>4. \E g : g = Body(g)
  <2> DEFINE step == [n \in 1..Len(p) |-> [t \in Text |-> Link(t, n)]]
  <2>1. step \in Steps(Len(p), Text)
    <3> HIDE DEF Link
    <3> QED
      BY <1>3 DEF Steps
  <2>2. \A n \in 1..Len(p), t \in Text : step[n][t] = Link(t, n)
    OBVIOUS
  <2> HIDE DEF step
  <2>3. PICK f : Chain(Len(p), Text, Empty, step, f)
    BY <1>1, <2>1, ChainExists
  <2>4. \A n \in 1..Len(p) : f[n] = Link(f[n - 1], n)
    <3> HIDE DEF Link
    <3> QED
      BY <1>1, <2>2, <2>3 DEF Chain
  <2>5. \A n \in 0..Len(p) : n # 0 => n \in 1..Len(p)
    BY <1>1
  <2>6. \A n \in 0..Len(p) : f[n] = Body(f)[n]
    BY <2>3, <2>4, <2>5, Zenon DEF Chain
  <2>7. DOMAIN f = 0..Len(p) /\ f = [n \in 0..Len(p) |-> f[n]]
    BY <2>3 DEF Chain
  <2>8. f = Body(f)
    BY <2>6, <2>7
  <2> HIDE DEF Body
  <2> QED
    BY <2>8
<1>5. PICK g : g = Body(g) /\ Join(p) = g[Len(p)]
  <2> HIDE DEF Body
  <2> QED
    BY <1>2, <1>4
<1>6. g[0] = Empty
  BY <1>1, <1>5
<1>7. ASSUME NEW n \in 1..Len(p) PROVE g[n] = Link(g[n - 1], n)
  <2>1. n \in 0..Len(p) /\ n # 0
    BY <1>1
  <2> QED
    BY <1>5, <2>1, Zenon
<1>8. \A n \in 0..Len(p) : g[n] \in Text
  <2> DEFINE T == {n \in 0..Len(p) : g[n] \in Text}
  <2>1. 0 \in T
    BY <1>1, <1>6
  <2>2. ASSUME NEW n \in 1..Len(p), n - 1 \in T PROVE n \in T
    <3> HIDE DEF Link
    <3> QED
      BY <1>1, <1>3, <1>7, <2>2
  <2>3. 0..Len(p) \subseteq T
    <3> HIDE DEF T
    <3> QED
      BY <1>1, <2>1, <2>2, UpTo
  <2> QED
    BY <2>3
<1>9. g \in [0..Len(p) -> Text]
  BY <1>5, <1>8
<1> QED
  BY <1>1, <1>5, <1>6, <1>7, <1>9 DEF Joins

\* Whatever follows the steps of Join arrives at Join.
LEMMA JoinIs ==
  ASSUME NEW p \in Seq(Text), NEW g, Joins(p, g)
  PROVE  Join(p) = g[Len(p)]
<1>1. PICK h : Len(p) \in Nat /\ Joins(p, h) /\ Join(p) = h[Len(p)]
  BY JoinComputed
<1> DEFINE T == {n \in 0..Len(p) : g[n] = h[n]}
<1>2. 0 \in T
  BY <1>1 DEF Joins
<1>3. ASSUME NEW n \in 1..Len(p), n - 1 \in T PROVE n \in T
  BY <1>1, <1>3 DEF Joins
<1>4. 0..Len(p) \subseteq T
  <2> HIDE DEF T
  <2> QED
    BY <1>1, <1>2, <1>3, UpTo
<1> QED
  BY <1>1, <1>4

\* Join returns a string.
LEMMA JoinTyped ==
  ASSUME NEW p \in Seq(Text)
  PROVE  Join(p) \in Text
<1>1. PICK g : Len(p) \in Nat /\ Joins(p, g) /\ Join(p) = g[Len(p)]
  BY JoinComputed
<1> QED
  BY <1>1 DEF Joins

\* One part joined is that part.
LEMMA JoinOne ==
  ASSUME NEW s \in Text
  PROVE  Join(<<s>>) = s
<1> DEFINE p == <<s>>
<1>1. p \in Seq(Text) /\ Len(p) = 1 /\ p[1] = s
  OBVIOUS
<1> HIDE DEF p
<1>2. PICK g : Joins(p, g) /\ Join(p) = g[Len(p)]
  BY <1>1, JoinComputed
<1>3. g[1] = p[1]
  BY <1>1, <1>2 DEF Joins
<1> QED
  BY <1>1, <1>2, <1>3 DEF p

\* Join with one part more in front.
LEMMA JoinCons ==
  ASSUME NEW s \in Text, NEW q \in Parts
  PROVE  <<s>> \o q \in Parts /\ Join(<<s>> \o q) = s \o Slash \o Join(q)
<1> DEFINE one == <<s>>  p == one \o q
<1>1. q \in Seq(Text) /\ Len(q) \in Nat \ {0}
  BY EmptySeq DEF Parts
<1>2. one \in Seq(Text) /\ Len(one) = 1 /\ one[1] = s
  OBVIOUS
<1> HIDE DEF one
<1>3. /\ p \in Seq(Text) /\ Len(p) = Len(one) + Len(q)
      /\ \A i \in 1..(Len(one) + Len(q)) : p[i] = IF i <= Len(one) THEN one[i] ELSE q[i - Len(one)]
  BY <1>1, <1>2, ConcatProperties
<1> HIDE DEF p
<1>4. Len(p) = Len(q) + 1 /\ p[1] = s /\ \A i \in 1..Len(q) : p[i + 1] = q[i]
  BY <1>1, <1>2, <1>3
<1>5. PICK g : Joins(q, g) /\ Join(q) = g[Len(q)]
  BY <1>1, JoinComputed
<1> DEFINE h == [n \in 0..Len(p) |->
                   IF n = 0 THEN Empty ELSE IF n = 1 THEN s ELSE s \o Slash \o g[n - 1]]
<1>6. \A n \in 0..Len(q) : g[n] \in Text
  BY <1>5 DEF Joins
<1>7. \A t \in Text : s \o Slash \o t \in Text
  BY Between
<1>8. h[0] = Empty /\ h[1] = s /\ \A n \in 1..Len(q) : n # 0 /\ h[n + 1] = s \o Slash \o g[n]
  BY <1>1, <1>4
<1>9. h \in [0..Len(p) -> Text]
  <2>1. ASSUME NEW n \in 0..Len(p) PROVE h[n] \in Text
    <3>1. n = 0 \/ n = 1 \/ (n - 1 \in 0..Len(q) /\ n # 0 /\ n # 1)
      BY <1>1, <1>4
    <3>2. Empty \in Text
      BY DEF Empty, Text
    <3> QED
      BY <1>6, <1>7, <3>1, <3>2, Zenon
  <2> QED
    BY <2>1
<1> HIDE DEF h
<1>10. ASSUME NEW n \in 1..Len(p)
       PROVE  h[n] = IF n = 1 THEN p[1] ELSE h[n - 1] \o Slash \o p[n]
  <2>1. CASE n = 1
    BY <1>4, <1>8, <2>1
  <2>2. CASE n = 2
    <3>1. 1 \in 1..Len(q) /\ p[2] = q[1] /\ h[2] = s \o Slash \o g[1] /\ h[1] = s
      <4>1. 1 \in 1..Len(q) /\ 1 + 1 = 2
        BY <1>1
      <4> QED
        BY <1>4, <1>8, <4>1
    <3>2. g[1] = q[1]
      BY <1>5, <3>1 DEF Joins
    <3>3. n # 1 /\ n - 1 = 1
      BY <2>2
    <3> QED
      BY <2>2, <3>1, <3>2, <3>3, Zenon
  <2>3. CASE n > 2
    <3> DEFINE m == n - 1
    <3>1. m \in 1..Len(q) /\ m - 1 \in 1..Len(q) /\ m # 1 /\ n = m + 1 /\ m = (m - 1) + 1
      BY <1>1, <1>4, <2>3
    <3>2. m - 1 \in 0..Len(q)
      BY <3>1
    <3> HIDE DEF m
    <3>3. h[n] = s \o Slash \o g[m] /\ h[m] = s \o Slash \o g[m - 1] /\ p[n] = q[m]
      BY <1>4, <1>8, <3>1
    <3>4. g[m] = g[m - 1] \o Slash \o q[m]
      BY <1>5, <3>1 DEF Joins
    <3>5. g[m - 1] \in Text /\ q[m] \in Text /\ Slash \in Text
      BY <1>1, <1>6, <3>1, <3>2, ElementOfSeq DEF Slash, Text, Words
    <3>6. s \o Slash \in Text /\ g[m - 1] \o Slash \in Text
      BY <3>5, ConcatProperties DEF Text
    <3>7. ((s \o Slash) \o g[m - 1]) \o Slash = (s \o Slash) \o (g[m - 1] \o Slash)
      <4>1. Assoc(s \o Slash, g[m - 1], Slash)
        BY <3>5, <3>6, Associative, Zenon
      <4> QED
        BY <4>1, Zenon DEF Assoc
    <3>8. ((s \o Slash) \o (g[m - 1] \o Slash)) \o q[m] = (s \o Slash) \o ((g[m - 1] \o Slash) \o q[m])
      <4>1. Assoc(s \o Slash, g[m - 1] \o Slash, q[m])
        BY <3>5, <3>6, Associative, Zenon
      <4> QED
        BY <4>1, Zenon DEF Assoc
    <3>9. n - 1 = m /\ n # 1
      BY <3>1
    <3> QED
      BY <3>3, <3>4, <3>7, <3>8, <3>9
  <2> QED
    BY <1>1, <1>4, <2>1, <2>2, <2>3
<1>11. Join(p) = h[Len(p)]
  <2>1. Joins(p, h)
    BY <1>8, <1>9, <1>10 DEF Joins
  <2> QED
    BY <1>3, <2>1, JoinIs
<1>12. Len(q) \in 1..Len(q) /\ Len(p) = Len(q) + 1
  BY <1>1, <1>4
<1>13. p \in Parts
  BY <1>1, <1>3, <1>12 DEF Parts
<1> QED
  BY <1>5, <1>8, <1>11, <1>12, <1>13 DEF p, one

\* Join undoes a step of Split.
LEMMA JoinCut ==
  ASSUME NEW p \in Parts, NEW w \in Words
  PROVE  Join(Cut(p, w)) = Append(Join(p), w)
<1> DEFINE q == Cut(p, w)
<1>1. p \in Seq(Text) /\ Len(p) \in Nat \ {0} /\ Len(p) \in 1..Len(p)
  BY EmptySeq DEF Parts
<1>2. q \in Seq(Text)
  BY CutTyped DEF Parts
<1>3. PICK g : Joins(p, g) /\ Join(p) = g[Len(p)]
  BY <1>1, JoinComputed
<1>4. g[Len(p)] \in Text /\ Append(g[Len(p)], w) \in Text
  BY <1>1, <1>3, AppendProperties DEF Joins, Text
<1>5. Slash \in Text /\ Empty \in Text
  BY DEF Slash, Empty, Text, Words
<1>6. CASE w = "/"
  <2> DEFINE h == [n \in 0..(Len(p) + 1) |-> IF n <= Len(p) THEN g[n] ELSE Append(g[Len(p)], w)]
  <2>1. q = Append(p, Empty)
    BY <1>6 DEF Cut
  <2> HIDE DEF q
  <2>2. Len(q) = Len(p) + 1 /\ q[Len(p) + 1] = Empty /\ \A i \in 1..Len(p) : q[i] = p[i]
    BY <1>1, <1>5, <2>1, AppendProperties
  <2>3. h[Len(p) + 1] = Append(g[Len(p)], w) /\ \A n \in 0..Len(p) : h[n] = g[n]
    BY <1>1
  <2>4. h \in [0..(Len(p) + 1) -> Text]
    BY <1>1, <1>3, <1>4 DEF Joins
  <2> HIDE DEF h
  <2>5. ASSUME NEW n \in 1..Len(q)
        PROVE  h[n] = IF n = 1 THEN q[1] ELSE h[n - 1] \o Slash \o q[n]
    <3>1. CASE n \in 1..Len(p)
      <4>1. n \in 0..Len(p) /\ n - 1 \in 0..Len(p)
        BY <1>1, <3>1
      <4> QED
        BY <1>1, <1>3, <2>2, <2>3, <3>1, <4>1 DEF Joins
    <3>2. CASE n = Len(p) + 1
      <4>1. n # 1 /\ n - 1 = Len(p) /\ Len(p) \in 0..Len(p)
        BY <1>1, <3>2
      <4>2. h[n] = Append(g[Len(p)], w) /\ h[n - 1] = g[Len(p)] /\ q[n] = Empty
        BY <2>2, <2>3, <3>2, <4>1
      <4>3. Append(g[Len(p)], w) = g[Len(p)] \o Slash
        BY <1>4, <1>6, AppendIsConcat DEF Slash, Text, Words
      <4>4. g[Len(p)] \o Slash \in Text
        BY <1>4, <1>5, ConcatProperties DEF Text
      <4>5. (g[Len(p)] \o Slash) \o Empty = g[Len(p)] \o Slash
        BY <4>4, ConcatEmptySeq DEF Empty, Text
      <4> QED
        BY <4>1, <4>2, <4>3, <4>5
    <3> QED
      BY <1>1, <2>2, <3>1, <3>2
  <2>6. Joins(q, h)
    BY <1>1, <1>3, <2>2, <2>3, <2>4, <2>5 DEF Joins
  <2>7. Join(q) = h[Len(q)]
    BY <1>2, <2>6, JoinIs
  <2> QED
    BY <1>3, <2>2, <2>3, <2>7 DEF q
<1>7. CASE w # "/"
  <2> DEFINE h == [n \in 0..Len(p) |-> IF n < Len(p) THEN g[n] ELSE Append(g[Len(p)], w)]
  <2>1. /\ Len(q) = Len(p) /\ q[Len(p)] = Append(p[Len(p)], w)
        /\ \A i \in 1..(Len(p) - 1) : q[i] = p[i]
    BY <1>7, CutLast
  <2> HIDE DEF q
  <2>2. h[Len(p)] = Append(g[Len(p)], w) /\ \A n \in 0..(Len(p) - 1) : h[n] = g[n]
    BY <1>1
  <2>3. h \in [0..Len(p) -> Text]
    BY <1>1, <1>3, <1>4 DEF Joins
  <2> HIDE DEF h
  <2>4. ASSUME NEW n \in 1..Len(q)
        PROVE  h[n] = IF n = 1 THEN q[1] ELSE h[n - 1] \o Slash \o q[n]
    <3>1. g[n] = IF n = 1 THEN p[1] ELSE g[n - 1] \o Slash \o p[n]
      BY <1>3, <2>1 DEF Joins
    <3>2. CASE n < Len(p)
      <4>1. n \in 1..(Len(p) - 1) /\ n \in 0..(Len(p) - 1) /\ n - 1 \in 0..(Len(p) - 1)
        BY <1>1, <3>2
      <4>2. 1 \in 1..(Len(p) - 1)
        BY <1>1, <3>2
      <4>3. h[n] = g[n] /\ h[n - 1] = g[n - 1] /\ q[n] = p[n] /\ q[1] = p[1]
        BY <2>1, <2>2, <4>1, <4>2
      <4> QED
        BY <3>1, <4>3
    <3>3. CASE n = Len(p) /\ n = 1
      BY <2>1, <2>2, <3>1, <3>3
    <3>4. CASE n = Len(p) /\ n # 1
      <4>1. n - 1 \in 0..(Len(p) - 1) /\ n - 1 \in 0..Len(p)
        BY <1>1, <3>4
      <4>2. h[n - 1] = g[n - 1] /\ q[n] = Append(p[n], w) /\ h[n] = Append(g[n], w)
        BY <2>1, <2>2, <3>4, <4>1
      <4>3. g[n - 1] \in Text /\ p[n] \in Text
        BY <1>1, <1>3, <2>1, <4>1, ElementOfSeq DEF Joins
      <4> DEFINE a == g[n - 1] \o Slash  b == p[n]
      <4>4. a \in Text /\ b \in Text /\ <<w>> \in Text /\ g[n] = a \o b
        <5>1. <<w>> \in Text
          BY DEF Text
        <5>2. a \in Text
          BY <1>5, <4>3, ConcatProperties DEF Text
        <5> QED
          BY <3>1, <3>4, <4>3, <5>1, <5>2
      <4> HIDE DEF a, b
      <4>5. a \o b \in Text
        BY <4>4, ConcatProperties DEF Text
      <4>6. Append(a \o b, w) = (a \o b) \o <<w>> /\ Append(b, w) = b \o <<w>>
        BY <4>4, <4>5, AppendIsConcat DEF Text
      <4>7. (a \o b) \o <<w>> = a \o (b \o <<w>>)
        <5>1. Assoc(a, b, <<w>>)
          BY <4>4, Associative, Zenon
        <5> QED
          BY <5>1, Zenon DEF Assoc
      <4>8. Append(g[n], w) = a \o Append(b, w)
        BY <4>4, <4>6, <4>7
      <4> QED
        BY <3>4, <4>2, <4>8 DEF a, b
    <3> QED
      BY <1>1, <2>1, <3>2, <3>3, <3>4
  <2>5. Joins(q, h)
    <3>1. 0 \in 0..(Len(p) - 1)
      BY <1>1
    <3> QED
      BY <1>3, <2>1, <2>2, <2>3, <2>4, <3>1 DEF Joins
  <2>6. Join(q) = h[Len(q)]
    BY <1>2, <2>5, JoinIs
  <2> QED
    BY <1>3, <2>1, <2>2, <2>6 DEF q
<1> QED
  BY <1>6, <1>7

\* Join undoes Split.
LEMMA JoinSplit ==
  ASSUME NEW s \in Text
  PROVE  Join(Split(s)) = s
<1>1. PICK f : Len(s) \in Nat /\ Splits(s, f) /\ Split(s) = f[Len(s)]
  BY SplitComputed
<1> DEFINE T == {n \in 0..Len(s) : Join(f[n]) = SubSeq(s, 1, n)}
<1>2. 0 \in T
  <2>1. SubSeq(s, 1, 0) = Empty /\ Empty \in Text
    BY SubSeqEmpty DEF Empty, Text
  <2>2. 0 \in 0..Len(s) /\ f[0] = <<Empty>>
    BY <1>1 DEF Splits
  <2>3. Join(<<Empty>>) = Empty
    BY <2>1, JoinOne
  <2> QED
    BY <2>1, <2>2, <2>3
<1>3. ASSUME NEW n \in 1..Len(s), n - 1 \in T PROVE n \in T
  <2>1. n \in 0..Len(s) /\ n - 1 \in 0..Len(s)
    BY <1>1
  <2>2. f[n - 1] \in Parts /\ f[n] = Cut(f[n - 1], s[n])
    BY <1>1, <2>1 DEF Splits
  <2>3. s[n] \in Words /\ SubSeq(s, 1, n) = Append(SubSeq(s, 1, n - 1), s[n])
    BY Extend
  <2>4. Join(f[n]) = Append(Join(f[n - 1]), s[n])
    BY <2>2, <2>3, JoinCut
  <2> QED
    BY <1>3, <2>1, <2>3, <2>4
<1>4. 0..Len(s) \subseteq T
  <2> HIDE DEF T
  <2> QED
    BY <1>1, <1>2, <1>3, UpTo
<1>5. Join(f[Len(s)]) = SubSeq(s, 1, Len(s))
  BY <1>1, <1>4
<1> QED
  BY <1>1, <1>5, SubSeqFull DEF Text

\* A name with a slash in it has two parts.
LEMMA TwoParts ==
  ASSUME NEW n \in Text, NEW i \in DOMAIN n, n[i] = "/"
  PROVE  Len(Split(n)) \in Nat /\ Len(Split(n)) >= 2
<1> DEFINE q == Split(n)
<1>1. q \in Seq(Text) /\ q # << >> /\ Len(q) \in Nat \ {0}
  <2>1. q \in Parts
    BY SplitConcat
  <2> QED
    BY <2>1, EmptySeq, LenProperties DEF Parts
<1>2. Join(q) = n
  BY JoinSplit
<1>3. ASSUME Len(q) = 1 PROVE FALSE
  <2>1. q[1] \in Text /\ 1 \in DOMAIN q
    BY <1>1, <1>3, ElementOfSeq
  <2>2. \A j \in DOMAIN q[1] : q[1][j] # "/"
    BY <2>1, PartWords
  <2> HIDE DEF q
  <2>3. q = <<q[1]>>
    BY <1>1, <1>3
  <2>4. Join(q) = q[1]
    BY <2>1, <2>3, JoinOne
  <2> QED
    BY <1>2, <2>2, <2>4
<1> HIDE DEF q
<1>4. Len(q) # 1
  BY <1>3
<1>5. Len(q) \in Nat /\ Len(q) >= 2
  <2> DEFINE m == Len(q)
  <2>1. m \in Nat \ {0} /\ m # 1
    BY <1>1, <1>4
  <2> HIDE DEF m
  <2>2. m \in Nat /\ m >= 2
    BY <2>1
  <2> QED
    BY <2>2 DEF m
<1> QED
  BY <1>5 DEF q

\* A sequence of parts falls into the first and the rest.
LEMMA FrontTail ==
  ASSUME NEW s \in Text, NEW q \in Seq(Text)
  PROVE  (<<s>> \o q)[1] = s /\ Tail(<<s>> \o q) = q
<1> DEFINE a == <<s>>  u == a \o q  t == Tail(u)
<1>1. a \in Seq(Text) /\ Len(a) = 1 /\ a[1] = s /\ Len(q) \in Nat
  BY LenProperties
<1> HIDE DEF a
<1>2. /\ u \in Seq(Text) /\ Len(u) = 1 + Len(q)
      /\ \A i \in 1..(1 + Len(q)) : u[i] = IF i <= 1 THEN a[i] ELSE q[i - 1]
  <2>1. /\ u \in Seq(Text) /\ Len(u) = Len(a) + Len(q)
        /\ \A i \in 1..(Len(a) + Len(q)) : u[i] = IF i <= Len(a) THEN a[i] ELSE q[i - Len(a)]
    BY <1>1, ConcatProperties, Zenon
  <2> HIDE DEF u
  <2> QED
    BY <1>1, <2>1
<1> HIDE DEF u
<1>3. u[1] = s /\ u # << >>
  BY <1>1, <1>2
<1>4. t \in Seq(Text) /\ Len(t) = Len(u) - 1 /\ \A i \in 1..Len(t) : t[i] = u[i + 1]
  BY <1>2, <1>3, HeadTailProperties
<1> HIDE DEF t
<1>5. \A i \in 1..Len(q) : t[i] = q[i]
  <2> SUFFICES ASSUME NEW i \in 1..Len(q) PROVE t[i] = q[i]
    OBVIOUS
  <2>1. i + 1 \in 1..(1 + Len(q)) /\ ~(i + 1 <= 1) /\ (i + 1) - 1 = i /\ i \in 1..Len(t)
    BY <1>1, <1>2, <1>4
  <2> QED
    BY <1>2, <1>4, <2>1
<1>6. t = q
  BY <1>1, <1>2, <1>4, <1>5, SeqEqual
<1> QED
  BY <1>3, <1>6 DEF a, u, t

\* So does any that is not empty.
LEMMA FrontAndTail ==
  ASSUME NEW p \in Seq(Text), p # << >>
  PROVE  Tail(p) \in Seq(Text) /\ p = <<p[1]>> \o Tail(p)
<1> DEFINE a == <<p[1]>>  t == Tail(p)  u == a \o t
<1>1. Len(p) \in Nat \ {0} /\ p[1] \in Text
  <2>1. Len(p) \in Nat /\ Len(p) # 0
    BY EmptySeq, LenProperties
  <2> QED
    BY <2>1, ElementOfSeq
<1>2. a \in Seq(Text) /\ Len(a) = 1 /\ a[1] = p[1]
  BY <1>1
<1>3. t \in Seq(Text) /\ Len(t) = Len(p) - 1 /\ \A i \in 1..Len(t) : t[i] = p[i + 1]
  BY HeadTailProperties
<1> HIDE DEF a, t
<1>4. /\ u \in Seq(Text) /\ Len(u) = Len(a) + Len(t)
      /\ \A i \in 1..(Len(a) + Len(t)) : u[i] = IF i <= Len(a) THEN a[i] ELSE t[i - Len(a)]
  <2>1. a \in Seq(Text) /\ t \in Seq(Text)
    BY <1>2, <1>3
  <2> QED
    BY <2>1, ConcatProperties, Zenon
<1> HIDE DEF u
<1>5. \A i \in 1..Len(p) : u[i] = p[i]
  <2> SUFFICES ASSUME NEW i \in 1..Len(p) PROVE u[i] = p[i]
    OBVIOUS
  <2>1. CASE i = 1
    BY <1>1, <1>2, <1>3, <1>4, <2>1
  <2>2. CASE i # 1
    <3>1. i \in 1..(Len(a) + Len(t)) /\ ~(i <= Len(a)) /\ i - Len(a) = i - 1
          /\ i - 1 \in 1..Len(t) /\ (i - 1) + 1 = i
      BY <1>1, <1>2, <1>3, <2>2
    <3> QED
      BY <1>3, <1>4, <3>1
  <2> QED
    BY <2>1, <2>2
<1>6. Len(u) = Len(p)
  BY <1>1, <1>2, <1>3, <1>4
<1>7. u = p
  BY <1>4, <1>5, <1>6, SeqEqual
<1> QED
  BY <1>3, <1>7 DEF a, t, u

-----------------------------------------------------------------------------
(* Replace.                                                                *)

\* old comes nowhere in a, old and b before the place it has behind a.
First(a, old, b) == \A j \in At(a \o old \o b, old) : Len(a) < j

\* There, and at the front of a string, new takes its place.
Replaces(a, old, b, new) == Replace(a \o old \o b, old, new) = a \o new \o b

ReplacesFront(old, b, new) == Replace(old \o b, old, new) = new \o b

\* Replace puts new in the place of old where old comes first.
LEMMA ReplaceFirst ==
  ASSUME NEW a \in Text, NEW old \in Text, NEW b \in Text, NEW new \in Text,
         First(a, old, b)
  PROVE  Replaces(a, old, b, new)
<1> DEFINE x == a \o old  u == x \o b  m == Len(a) + 1
<1>1. Len(a) \in Nat /\ Len(old) \in Nat /\ Len(b) \in Nat
  BY LenProperties DEF Text
<1>2. /\ x \in Seq(Words) /\ Len(x) = Len(a) + Len(old)
      /\ \A i \in 1..(Len(a) + Len(old)) : x[i] = IF i <= Len(a) THEN a[i] ELSE old[i - Len(a)]
  BY ConcatProperties DEF Text
<1>3. old \o b \in Text /\ u = a \o (old \o b)
  <2>1. Assoc(a, old, b)
    BY Associative, Zenon
  <2>2. old \o b \in Text
    BY Closed, Zenon
  <2> QED
    BY <2>1, <2>2, Zenon DEF Assoc, u, x
<1>4. IsPrefix(a, u)
  BY <1>3, TrimAfterConcat
<1>5. IsPrefix(x, u) /\ TrimPrefix(u, x) = b
  BY <1>2, TrimAfterConcat DEF Text
<1> HIDE DEF x
<1>6. /\ u \in Seq(Words) /\ Len(u) = Len(x) + Len(b)
      /\ \A i \in 1..(Len(x) + Len(b)) : u[i] = IF i <= Len(x) THEN x[i] ELSE b[i - Len(x)]
  <2>1. x \in Seq(Words) /\ b \in Seq(Words)
    BY <1>2 DEF Text
  <2> QED
    BY <2>1, ConcatProperties, Zenon
<1> HIDE DEF u
<1>7. SubSeq(u, 1, Len(a)) = a
  <2>1. SubSeq(a, 1, Len(a)) = a
    BY SubSeqFull DEF Text
  <2> QED
    BY <1>4, <2>1 DEF IsPrefix
<1>8. SubSeq(u, m + Len(old), Len(u)) = b
  <2>1. Len(x) + 1 = m + Len(old)
    BY <1>1, <1>2
  <2> QED
    BY <1>5, <2>1 DEF TrimPrefix
<1>9. m \in At(u, old)
  <2>1. m \in 1..(Len(u) - Len(old) + 1)
    BY <1>1, <1>2, <1>6
  <2>2. ASSUME NEW j \in 1..Len(old) PROVE u[m + j - 1] = old[j]
    <3>1. m + j - 1 = Len(a) + j
      BY <1>1
    <3> HIDE DEF m
    <3>2. Len(a) + j \in 1..(Len(a) + Len(old)) /\ ~(Len(a) + j <= Len(a)) /\ (Len(a) + j) - Len(a) = j
      BY <1>1
    <3>3. x[Len(a) + j] = old[(Len(a) + j) - Len(a)]
      BY <1>2, <3>2, Zenon
    <3>4. Len(a) + j \in 1..(Len(x) + Len(b)) /\ Len(a) + j <= Len(x)
      BY <1>1, <1>2
    <3>5. u[Len(a) + j] = x[Len(a) + j]
      BY <1>6, <3>4, Zenon
    <3> QED
      BY <3>1, <3>2, <3>3, <3>5
  <2> HIDE DEF m
  <2> QED
    BY <1>6, <2>1, <2>2, AtIs DEF Text
<1>10. \A j \in At(u, old) : m <= j
  <2>1. \A j \in At(u, old) : Len(a) < j
    BY DEF u, x, First
  <2>2. \A j \in At(u, old) : j \in Int
    BY <1>1, <1>6 DEF At
  <2> QED
    BY <1>1, <2>1, <2>2
<1>11. m = CHOOSE i \in At(u, old) : \A j \in At(u, old) : i <= j
  <2> HIDE DEF m
  <2>1. \A i \in At(u, old) : (\A j \in At(u, old) : i <= j) => i = m
    <3>1. \A i \in At(u, old) : i \in Int
      BY <1>1, <1>6 DEF At
    <3> QED
      BY <1>9, <1>10, <3>1
  <2> QED
    BY <1>9, <1>10, <2>1
<1>12. SubSeq(u, 1, m - 1) = a
  <2>1. m - 1 = Len(a)
    BY <1>1
  <2> QED
    BY <1>7, <2>1
<1> HIDE DEF m
<1>13. Replace(u, old, new) = a \o new \o b
  BY <1>8, <1>9, <1>11, <1>12 DEF Replace, Holds
<1> QED
  BY <1>13 DEF u, x, Replaces

\* In particular where a string starts with old.
LEMMA ReplaceFront ==
  ASSUME NEW old \in Text, NEW b \in Text, NEW new \in Text
  PROVE  ReplacesFront(old, b, new)
<1>1. Empty \in Text /\ Len(Empty) = 0
  BY DEF Empty, Text
<1>2. Empty \o old = old /\ Empty \o new = new
  BY ConcatEmptySeq DEF Empty, Text
<1>3. \A j \in At(Empty \o old \o b, old) : Len(Empty) < j
  <2>1. old \o b \in Text
    BY Closed
  <2>2. Len(old) \in Nat /\ Len(old \o b) \in Nat
    BY <2>1, LenProperties DEF Text
  <2> DEFINE u == old \o b
  <2>3. \A j \in At(u, old) : 0 < j
    <3> HIDE DEF u
    <3> QED
      BY <2>2 DEF At
  <2> QED
    BY <1>1, <1>2, <2>3
<1>4. Replace(Empty \o old \o b, old, new) = Empty \o new \o b
  <2> DEFINE a == Empty
  <2>1. a \in Text /\ First(a, old, b)
    BY <1>1, <1>3 DEF First
  <2> HIDE DEF a
  <2>2. Replaces(a, old, b, new)
    BY <2>1, ReplaceFirst, Zenon
  <2> QED
    BY <2>2, Zenon DEF a, Replaces
<1> QED
  BY <1>2, <1>4, Zenon DEF ReplacesFront

-----------------------------------------------------------------------------
(* The paths clients ask for.                                              *)

End(k) == IF k = "tags" THEN "list" ELSE "ref"

Rest(k) == <<"/", k, "/", End(k)>>

\* The words of a path behind its name.
LEMMA RestIs ==
  ASSUME NEW k \in Kinds
  PROVE  /\ k \in Words /\ End(k) \in Words /\ k # "/" /\ End(k) # "/" /\ End(k) \notin Kinds
         /\ Rest(k) \in Text /\ Len(Rest(k)) = 4
         /\ Rest(k)[1] = "/" /\ Rest(k)[2] = k /\ Rest(k)[3] = "/" /\ Rest(k)[4] = End(k)
<1>1. /\ k \in Words /\ End(k) \in Words /\ "/" \in Words /\ k # "/" /\ End(k) # "/"
      /\ End(k) \notin Kinds
  BY DEF Words, Kinds, End
<1>2. \A a, b, d \in Words : <<a, b, a, d>> \in Seq(Words)
  OBVIOUS
<1> QED
  BY <1>1, <1>2 DEF Rest, Text

\* A path is V2, the name and the rest.
LEMMA PathIs ==
  ASSUME NEW n \in Text, NEW k \in Kinds
  PROVE  PathOf(n, k, Ref) = V2 \o n \o Rest(k) /\ PathOf(n, k, Ref) \in Text
<1>1. k = "tags" => TagsList = Rest(k)
  BY DEF TagsList, Rest, End
<1>2. k # "tags" => <<"/", k, "/">> \o Ref = Rest(k)
  <2> HAVE k # "tags"
  <2> DEFINE t == <<"/", k, "/">>  u == t \o Ref
  <2>1. t \in Seq(Words) /\ Len(t) = 3 /\ t[1] = "/" /\ t[2] = k /\ t[3] = "/"
    BY Literals DEF Text
  <2>2. Ref \in Seq(Words) /\ Len(Ref) = 1 /\ Ref[1] = "ref"
    BY Literals DEF Text, Ref
  <2> HIDE DEF t
  <2>3. u \in Seq(Words) /\ Len(u) = 4 /\ u[1] = t[1] /\ u[2] = t[2] /\ u[3] = t[3] /\ u[4] = Ref[1]
    <3>1. /\ u \in Seq(Words) /\ Len(u) = Len(t) + Len(Ref)
          /\ \A i \in 1..(Len(t) + Len(Ref)) : u[i] = IF i <= Len(t) THEN t[i] ELSE Ref[i - Len(t)]
      BY <2>1, <2>2, ConcatProperties
    <3> HIDE DEF u
    <3> QED
      BY <2>1, <2>2, <3>1
  <2> HIDE DEF u
  <2>4. End(k) = "ref"
    BY DEF End
  <2>5. /\ Rest(k) \in Seq(Words) /\ Len(Rest(k)) = 4
        /\ Rest(k)[1] = "/" /\ Rest(k)[2] = k /\ Rest(k)[3] = "/" /\ Rest(k)[4] = "ref"
    BY <2>4, RestIs DEF Text
  <2>6. \A i \in 1..4 : u[i] = Rest(k)[i]
    <3>1. \A i \in 1..4 : i = 1 \/ i = 2 \/ i = 3 \/ i = 4
      OBVIOUS
    <3> QED
      BY <2>1, <2>2, <2>3, <2>5, <3>1
  <2> QED
    BY <2>3, <2>5, <2>6, SeqEqual DEF u, t
<1>3. PathOf(n, k, Ref) = V2 \o n \o Rest(k)
  BY <1>1, <1>2, Zenon DEF PathOf
<1>4. V2 \o n \in Text /\ Rest(k) \in Text
  BY Marks, RestIs, Closed
<1> QED
  BY <1>3, <1>4, Closed

\* What is behind V2 in it.
LEMMA OwnIs ==
  ASSUME NEW n \in Text, NEW k \in Kinds
  PROVE  /\ IsPrefix(V2, PathOf(n, k, Ref))
         /\ TrimPrefix(PathOf(n, k, Ref), V2) = n \o Rest(k)
         /\ n \o Rest(k) \in Text
<1>1. V2 \in Text /\ Rest(k) \in Text
  BY Marks, RestIs
<1>2. PathOf(n, k, Ref) = V2 \o (n \o Rest(k))
  <2>1. (V2 \o n) \o Rest(k) = V2 \o (n \o Rest(k))
    <3>1. Assoc(V2, n, Rest(k))
      BY <1>1, Associative, Zenon
    <3> QED
      BY <3>1, Zenon DEF Assoc
  <2> QED
    BY <2>1, PathIs, Zenon
<1>3. n \o Rest(k) \in Text
  BY <1>1, Closed
<1> QED
  BY <1>1, <1>2, <1>3, TrimAfterConcat

\* The words of a path after V2.
LEMMA OwnWords ==
  ASSUME NEW n \in Text, NEW k \in Kinds
  PROVE  LET own == n \o Rest(k) IN
         /\ own \in Text /\ Len(n) \in Nat /\ Len(own) = Len(n) + 4
         /\ \A i \in 1..Len(n) : own[i] = n[i]
         /\ \A i \in 1..4 : own[Len(n) + i] = Rest(k)[i]
<1> DEFINE r == Rest(k)  own == n \o r
<1>1. r \in Text /\ Len(r) = 4 /\ Len(n) \in Nat
  BY RestIs, LenProperties DEF Text
<1> HIDE DEF r
<1>2. /\ own \in Seq(Words) /\ Len(own) = Len(n) + Len(r)
      /\ \A i \in 1..(Len(n) + Len(r)) : own[i] = IF i <= Len(n) THEN n[i] ELSE r[i - Len(n)]
  BY <1>1, ConcatProperties DEF Text
<1> HIDE DEF own
<1>3. \A i \in 1..Len(n) : own[i] = n[i]
  BY <1>1, <1>2
<1>4. \A i \in 1..4 : own[Len(n) + i] = r[i]
  BY <1>1, <1>2
<1> QED
  BY <1>1, <1>2, <1>3, <1>4 DEF own, r, Text

\* The words of a path.
LEMMA PathWords ==
  ASSUME NEW n \in Text, NEW k \in Kinds
  PROVE  LET p == PathOf(n, k, Ref) IN
         /\ p \in Text /\ Len(n) \in Nat /\ Len(p) = Len(n) + 7
         /\ \A i \in 1..3 : p[i] = V2[i]
         /\ \A i \in 1..Len(n) : p[3 + i] = n[i]
         /\ \A i \in 1..4 : p[3 + Len(n) + i] = Rest(k)[i]
<1> DEFINE r == Rest(k)  own == n \o r  p == PathOf(n, k, Ref)
<1>1. /\ own \in Text /\ Len(n) \in Nat /\ Len(own) = Len(n) + 4
      /\ \A i \in 1..Len(n) : own[i] = n[i]
      /\ \A i \in 1..4 : own[Len(n) + i] = r[i]
  BY OwnWords
<1>2. p = V2 \o own
  <2>1. V2 \in Text /\ r \in Text
    BY Marks, RestIs
  <2>2. (V2 \o n) \o r = V2 \o (n \o r)
    <3>1. Assoc(V2, n, r)
      BY <2>1, Associative, Zenon
    <3> QED
      BY <3>1, Zenon DEF Assoc
  <2> QED
    BY <2>2, PathIs, Zenon
<1>3. V2 \in Text /\ Len(V2) = 3
  BY Marks DEF V2
<1> HIDE DEF own, p, r
<1>4. /\ p \in Seq(Words) /\ Len(p) = Len(V2) + Len(own)
      /\ \A i \in 1..(Len(V2) + Len(own)) : p[i] = IF i <= Len(V2) THEN V2[i] ELSE own[i - Len(V2)]
  <2>1. V2 \in Seq(Words) /\ own \in Seq(Words)
    BY <1>1, <1>3 DEF Text
  <2> QED
    BY <1>2, <2>1, ConcatProperties, Zenon
<1>5. \A i \in 1..3 : p[i] = V2[i]
  BY <1>1, <1>3, <1>4
<1>6. \A i \in 1..(Len(n) + 4) : p[3 + i] = own[i]
  BY <1>1, <1>3, <1>4
<1>7. \A i \in 1..Len(n) : p[3 + i] = n[i]
  BY <1>1, <1>6
<1>8. \A i \in 1..4 : p[3 + Len(n) + i] = r[i]
  <2> SUFFICES ASSUME NEW i \in 1..4 PROVE p[3 + Len(n) + i] = r[i]
    OBVIOUS
  <2>1. Len(n) + i \in 1..(Len(n) + 4) /\ 3 + Len(n) + i = 3 + (Len(n) + i)
    BY <1>1
  <2> QED
    BY <1>1, <1>6, <2>1
<1> QED
  BY <1>1, <1>3, <1>4, <1>5, <1>7, <1>8 DEF p, r, Text

\* Every path a client asks for is routed.
LEMMA PathRouted ==
  ASSUME NEW n \in Text, NEW k \in Kinds
  PROVE  Routed(PathOf(n, k, Ref))
<1> DEFINE own == n \o Rest(k)
<1>1. /\ own \in Text /\ Len(n) \in Nat /\ Len(own) = Len(n) + 4
      /\ \A i \in 1..4 : own[Len(n) + i] = Rest(k)[i]
  BY OwnWords
<1>2. IsPrefix(V2, PathOf(n, k, Ref)) /\ TrimPrefix(PathOf(n, k, Ref), V2) = own
  BY OwnIs
<1> HIDE DEF own
<1>3. CASE k # "tags"
  <2> DEFINE t == <<"/", k, "/">>
  <2>1. t \in Text /\ Len(t) = 3 /\ \A j \in 1..3 : t[j] = Rest(k)[j]
    BY Literals, RestIs
  <2>2. \A j \in 1..3 : own[Len(n) + 1 + j - 1] = t[j]
    <3>1. \A j \in 1..3 : j \in 1..4 /\ Len(n) + 1 + j - 1 = Len(n) + j
      BY <1>1
    <3> QED
      BY <1>1, <2>1, <3>1
  <2>3. Len(n) + 1 \in 1..(Len(own) - Len(t) + 1)
    BY <1>1, <2>1
  <2> HIDE DEF t
  <2>4. Len(n) + 1 \in At(own, t)
    <3>1. Len(n) + 1 \in At(own, t) <=> \A j \in 1..Len(t) : own[(Len(n) + 1) + j - 1] = t[j]
      BY <1>1, <2>1, <2>3, AtIs, Zenon
    <3> QED
      BY <2>1, <2>2, <3>1
  <2>5. Holds(own, t)
    BY <2>4 DEF Holds
  <2>6. k = "manifests" \/ k = "blobs"
    BY <1>3 DEF Kinds
  <2> QED
    BY <1>2, <2>5, <2>6 DEF Routed, t
<1>4. CASE k = "tags"
  <2> DEFINE r == Reverse(TagsList)  o == Reverse(own)
  <2>1. TagsList = Rest(k) /\ TagsList \in Text /\ Len(TagsList) = 4
    BY <1>4, RestIs DEF TagsList, Rest, End
  <2>2. r \in Text /\ Len(r) = 4 /\ \A i \in 1..4 : r[i] = TagsList[5 - i]
    <3>1. \A i \in 1..4 : TagsList[(4 - i) + 1] \in Words /\ (4 - i) + 1 = 5 - i
      <4>1. \A i \in 1..4 : (4 - i) + 1 \in 1..4 /\ (4 - i) + 1 = 5 - i
        OBVIOUS
      <4>2. \A i \in 1..4 : TagsList[i] \in Words
        BY <2>1, ElementOfSeq DEF Text
      <4> QED
        BY <4>1, <4>2
    <3>2. r = [i \in 1..4 |-> TagsList[(4 - i) + 1]]
      BY <2>1 DEF Reverse
    <3> HIDE DEF r
    <3> QED
      BY <3>1, <3>2 DEF Text
  <2>3. o \in Text /\ Len(o) = Len(own) /\ \A i \in 1..Len(own) : o[i] = own[(Len(own) - i) + 1]
    <3>1. \A i \in 1..Len(own) : own[(Len(own) - i) + 1] \in Words
      BY <1>1, ElementOfSeq DEF Text
    <3>2. o = [i \in 1..Len(own) |-> own[(Len(own) - i) + 1]] /\ Len(own) \in Nat
      BY <1>1 DEF Reverse
    <3> HIDE DEF o
    <3> QED
      BY <3>1, <3>2 DEF Text
  <2> HIDE DEF r, o
  <2>4. ASSUME NEW i \in 1..4 PROVE r[i] = o[i]
    <3>1. 5 - i \in 1..4 /\ i \in 1..Len(own) /\ (Len(own) - i) + 1 = Len(n) + (5 - i)
      BY <1>1
    <3>2. own[Len(n) + (5 - i)] = Rest(k)[5 - i]
      BY <1>1, <3>1
    <3> QED
      BY <2>1, <2>2, <2>3, <3>1, <3>2
  <2>5. IsPrefix(r, o)
    <3>1. Len(r) <= Len(o) /\ \A i \in 1..Len(r) : r[i] = o[i]
      BY <1>1, <2>2, <2>3, <2>4
    <3> QED
      BY <2>2, <2>3, <3>1, PrefixIs
  <2> QED
    BY <1>2, <2>5 DEF Routed, IsSuffix, r, o
<1> QED
  BY <1>3, <1>4

\* The parts of a path: those of its name, between four others.
LEMMA SplitPath ==
  ASSUME NEW n \in Text, NEW k \in Kinds
  PROVE  Split(PathOf(n, k, Ref))
           = <<Empty>> \o <<<<"v2">>>> \o Split(n) \o <<<<k>>>> \o <<<<End(k)>>>>
<1> DEFINE e == End(k)
      a1 == Empty \o Slash \o <<"v2">>  a2 == a1 \o Slash \o n
      a3 == a2 \o Slash \o <<k>>  a4 == a3 \o Slash \o <<e>>
<1>1. /\ "v2" \in Words /\ "v2" # "/" /\ k \in Words /\ k # "/" /\ e \in Words /\ e # "/"
      /\ Empty \in Text /\ Slash \in Text /\ <<"/", "v2">> \in Text /\ V2 \in Text
  BY RestIs, Marks DEF Words, Empty, Text
<1>2. <<"v2">> \in Text /\ <<k>> \in Text /\ <<e>> \in Text
  BY <1>1, SplitWord
<1>3. Split(<<"v2">>) = <<<<"v2">>>> /\ Split(<<k>>) = <<<<k>>>> /\ Split(<<e>>) = <<<<e>>>>
  BY <1>1, SplitWord
<1>4. Split(Empty) = <<Empty>>
  <2>1. \A i \in 1..Len(Empty) : Empty[i] # "/"
    BY DEF Empty
  <2> QED
    BY <1>1, <2>1, SplitOne
<1>5. a1 \in Text /\ Split(a1) = Split(Empty) \o Split(<<"v2">>)
  BY <1>1, <1>2, Between, SplitConcat
<1>6. a1 = <<"/", "v2">>
  <2>1. Empty \o Slash = Slash
    BY <1>1, ConcatEmptySeq DEF Empty, Text
  <2>2. Slash \o <<"v2">> = <<"/", "v2">>
    BY <1>1, TwoWords DEF Slash, Words
  <2> QED
    BY <2>1, <2>2
<1> HIDE DEF a1
<1>7. a2 \in Text /\ Split(a2) = Split(a1) \o Split(n)
  BY <1>5, Between, SplitConcat
<1>8. a2 = V2 \o n
  BY <1>6, ShortMark
<1> HIDE DEF a2, e
<1>9. a3 \in Text /\ Split(a3) = Split(a2) \o Split(<<k>>)
  BY <1>2, <1>7, Between, SplitConcat
<1>10. Split(a4) = Split(a3) \o Split(<<e>>)
  <2> HIDE DEF a3
  <2> QED
    BY <1>2, <1>9, SplitConcat
<1>11. a4 = a2 \o Rest(k)
  <2> DEFINE sk == Slash \o <<k>>  se == Slash \o <<e>>
  <2>1. sk \in Text /\ se \in Text
    BY <1>1, <1>2, Closed
  <2>2. (a2 \o Slash) \o <<k>> = a2 \o sk
    <3>1. Assoc(a2, Slash, <<k>>)
      BY <1>1, <1>2, <1>7, Associative, Zenon
    <3> QED
      BY <3>1, Zenon DEF Assoc
  <2>3. a3 \in Text /\ (a3 \o Slash) \o <<e>> = a3 \o se
    <3>1. Assoc(a3, Slash, <<e>>)
      BY <1>1, <1>2, <1>9, Associative, Zenon
    <3> HIDE DEF a3
    <3> QED
      BY <1>9, <3>1, Zenon DEF Assoc
  <2>4. sk \o se = Rest(k)
    <3>1. "/" \in Words
      BY DEF Words
    <3>2. sk = <<"/", k>> /\ se = <<"/", e>>
      BY <1>1, <3>1, TwoWords DEF Slash
    <3> HIDE DEF sk, se
    <3>3. <<"/", k>> \o <<"/", e>> = <<"/", k, "/", e>>
      BY <1>1, <3>1, FourWords
    <3> QED
      BY <3>2, <3>3 DEF Rest, e
  <2> HIDE DEF sk, se
  <2>5. (a2 \o sk) \o se = a2 \o (sk \o se)
    <3>1. Assoc(a2, sk, se)
      BY <1>7, <2>1, Associative, Zenon
    <3> QED
      BY <3>1, Zenon DEF Assoc
  <2> QED
    BY <2>2, <2>3, <2>4, <2>5
<1>12. PathOf(n, k, Ref) = a4
  BY <1>8, <1>11, PathIs
<1> QED
  BY <1>3, <1>4, <1>5, <1>7, <1>9, <1>10, <1>12 DEF e

\* The parts of a path, one by one.
LEMMA PathParts ==
  ASSUME NEW n \in Text, NEW k \in Kinds
  PROVE  LET p == Split(PathOf(n, k, Ref))
             q == Split(n)
             l == Len(q) IN
         /\ q \in Parts /\ q \in Seq(Text) /\ l \in Nat \ {0}
         /\ p \in Seq(Text) /\ Len(p) = l + 4
         /\ p[1] = Empty /\ p[2] = <<"v2">>
         /\ \A i \in 1..l : p[2 + i] = q[i]
         /\ p[l + 3] = <<k>> /\ p[l + 4] = <<End(k)>>
<1> DEFINE p == Split(PathOf(n, k, Ref))  q == Split(n)  l == Len(q)
           b == <<Empty>>  c == <<<<"v2">>>>  d == <<<<k>>>>  e == <<<<End(k)>>>>
           x == b \o c  y == x \o q  z == y \o d  w == z \o e
<1>1. p = w
  BY SplitPath
<1>2. q \in Parts /\ q \in Seq(Text) /\ l \in Nat \ {0}
  <2>1. q \in Parts
    BY SplitConcat
  <2> HIDE DEF q
  <2> QED
    BY <2>1, EmptySeq DEF Parts
<1>3. /\ b \in Seq(Text) /\ Len(b) = 1 /\ b[1] = Empty
      /\ c \in Seq(Text) /\ Len(c) = 1 /\ c[1] = <<"v2">>
      /\ d \in Seq(Text) /\ Len(d) = 1 /\ d[1] = <<k>>
      /\ e \in Seq(Text) /\ Len(e) = 1 /\ e[1] = <<End(k)>>
  <2>1. Empty \in Text /\ <<"v2">> \in Text /\ <<k>> \in Text /\ <<End(k)>> \in Text
    BY RestIs DEF Empty, Text, Words
  <2>2. \A t \in Text : <<t>> \in Seq(Text) /\ Len(<<t>>) = 1 /\ <<t>>[1] = t
    OBVIOUS
  <2> QED
    BY <2>1, <2>2
<1> HIDE DEF p, q, l, b, c, d, e
<1>4. x \in Seq(Text) /\ Len(x) = 2 /\ x[1] = Empty /\ x[2] = <<"v2">>
  <2>1. /\ x \in Seq(Text) /\ Len(x) = Len(b) + Len(c)
        /\ \A i \in 1..(Len(b) + Len(c)) : x[i] = IF i <= Len(b) THEN b[i] ELSE c[i - Len(b)]
    BY <1>3, ConcatProperties, Zenon
  <2> HIDE DEF x
  <2> QED
    BY <1>3, <2>1
<1> HIDE DEF x
<1>5. /\ y \in Seq(Text) /\ Len(y) = Len(x) + Len(q)
      /\ \A i \in 1..(Len(x) + Len(q)) : y[i] = IF i <= Len(x) THEN x[i] ELSE q[i - Len(x)]
  BY <1>2, <1>4, ConcatProperties
<1> HIDE DEF y
<1>6. /\ Len(y) = l + 2 /\ y[1] = Empty /\ y[2] = <<"v2">>
      /\ \A i \in 1..l : y[2 + i] = q[i]
  BY <1>2, <1>4, <1>5 DEF l
<1>7. /\ z \in Seq(Text) /\ Len(z) = Len(y) + Len(d)
      /\ \A i \in 1..(Len(y) + Len(d)) : z[i] = IF i <= Len(y) THEN y[i] ELSE d[i - Len(y)]
  BY <1>3, <1>5, ConcatProperties
<1> HIDE DEF z
<1>8. Len(z) = l + 3 /\ z[l + 3] = <<k>> /\ \A i \in 1..(l + 2) : z[i] = y[i]
  BY <1>2, <1>3, <1>6, <1>7
<1>9. /\ w \in Seq(Text) /\ Len(w) = Len(z) + Len(e)
      /\ \A i \in 1..(Len(z) + Len(e)) : w[i] = IF i <= Len(z) THEN z[i] ELSE e[i - Len(z)]
  <2>1. z \in Seq(Text) /\ e \in Seq(Text)
    BY <1>3, <1>7
  <2> QED
    BY <2>1, ConcatProperties, Zenon
<1> HIDE DEF w
<1>10. Len(w) = l + 4 /\ w[l + 4] = <<End(k)>> /\ \A i \in 1..(l + 3) : w[i] = z[i]
  BY <1>2, <1>3, <1>8, <1>9
<1>11. \A i \in 1..(l + 2) : w[i] = y[i]
  BY <1>2, <1>8, <1>10
<1>12. w[1] = Empty /\ w[2] = <<"v2">> /\ w[l + 3] = <<k>>
  BY <1>2, <1>6, <1>8, <1>10, <1>11
<1>13. \A i \in 1..l : w[2 + i] = q[i]
  BY <1>2, <1>6, <1>11
<1> QED
  BY <1>1, <1>2, <1>9, <1>10, <1>12, <1>13 DEF p, q, l

\* getToken finds the parts of the name in a path.
LEMMA NameParts ==
  ASSUME NEW n \in Text, NEW k \in Kinds
  PROVE  LET p == Split(PathOf(n, k, Ref)) IN SubSeq(p, 3, Len(p) - 2) = Split(n)
<1> DEFINE p == Split(PathOf(n, k, Ref))  q == Split(n)  l == Len(q)
<1>1. /\ q \in Seq(Text) /\ l \in Nat \ {0} /\ p \in Seq(Text) /\ Len(p) = l + 4
      /\ \A i \in 1..l : p[2 + i] = q[i]
  BY PathParts
<1> HIDE DEF p, q, l
<1>2. \A i \in 3..(l + 2) : p[i] \in Text
  BY <1>1, ElementOfSeq
<1> DEFINE u == SubSeq(p, 3, l + 2)
<1>3. u \in Seq(Text) /\ Len(u) = l /\ \A i \in 1..l : u[i] = p[3 + i - 1]
  BY <1>1, <1>2, SubSeqProperties
<1> HIDE DEF u
<1>4. \A i \in 1..l : u[i] = q[i]
  <2>1. \A i \in 1..l : 3 + i - 1 = 2 + i
    BY <1>1
  <2> QED
    BY <1>1, <1>3, <2>1
<1>5. u = q
  BY <1>1, <1>3, <1>4, SeqEqual DEF l
<1>6. Len(p) - 2 = l + 2
  BY <1>1
<1> QED
  BY <1>5, <1>6 DEF p, q, u

-----------------------------------------------------------------------------
(* Upstream's names.                                                       *)

\* The name below the prefix, and upstream's name for it.
Below(c, plain, n) ==
  IF c.prefix # Empty /\ ~plain THEN TrimPrefix(n, c.prefix \o Slash) ELSE n

UpName(c, plain, n) ==
  IF c.repo # Empty THEN c.repo \o Slash \o Below(c, plain, n) ELSE Below(c, plain, n)

\* The prefix is not the name, nor does it reach into the path behind it.
Apart(c, n, k) ==
  /\ n # c.prefix
  /\ \/ \A i \in DOMAIN c.prefix : c.prefix[i] # "/"
     \/ \A i \in DOMAIN c.prefix : c.prefix[i] # k

\* Behind the prefix of an accepted path there is a name.
LEMMA BelowIs ==
  ASSUME NEW c, NEW plain \in BOOLEAN, NEW n \in Text, NEW k \in Kinds,
         c.prefix \in Text, c.prefix # Empty, ~plain,
         Accepted(c, plain, PathOf(n, k, Ref)), Apart(c, n, k)
  PROVE  /\ Below(c, plain, n) \in Text
         /\ n = c.prefix \o Slash \o Below(c, plain, n)
<1> DEFINE p == c.prefix  pre == p \o Slash  own == n \o Rest(k)
<1>1. IsPrefix(pre, own)
  BY OwnIs DEF Accepted
<1>2. /\ own \in Text /\ Len(n) \in Nat /\ Len(own) = Len(n) + 4
      /\ \A i \in 1..Len(n) : own[i] = n[i]
      /\ \A i \in 1..4 : own[Len(n) + i] = Rest(k)[i]
  BY OwnWords
<1>3. /\ pre \in Text /\ Len(p) \in Nat /\ Len(pre) = Len(p) + 1
      /\ \A i \in 1..Len(p) : pre[i] = p[i]
      /\ pre[Len(p) + 1] = "/"
  <2>1. Slash \in Text /\ Len(Slash) = 1 /\ Slash[1] = "/"
    BY Marks DEF Slash
  <2>2. Len(p) \in Nat /\ DOMAIN p = 1..Len(p)
    BY LenProperties DEF Text
  <2>3. /\ pre \in Seq(Words) /\ Len(pre) = Len(p) + Len(Slash)
        /\ \A i \in 1..(Len(p) + Len(Slash)) : pre[i] = IF i <= Len(p) THEN p[i] ELSE Slash[i - Len(p)]
    BY <2>1, ConcatProperties DEF Text
  <2> HIDE DEF pre, p
  <2> QED
    BY <2>1, <2>2, <2>3 DEF Text
<1>4. DOMAIN p = 1..Len(p) /\ p \in Text
  BY LenProperties DEF Text
<1>5. n # p
  BY DEF Apart
<1>6. (\A i \in DOMAIN p : p[i] # "/") \/ (\A i \in DOMAIN p : p[i] # k)
  BY DEF Apart
<1>7. Len(pre) <= Len(own) /\ \A i \in 1..Len(pre) : pre[i] = own[i]
  <2> HIDE DEF pre, own
  <2> QED
    BY <1>1, <1>2, <1>3, PrefixIs
<1>8. Below(c, plain, n) = TrimPrefix(n, pre)
  BY DEF Below
<1> HIDE DEF own, pre, p
<1>9. Len(p) < Len(n)
  <2>1. SUFFICES ASSUME Len(p) >= Len(n) PROVE FALSE
    BY <1>2, <1>3
  <2>2. \A i \in 1..Len(n) : n[i] = p[i]
    <3> SUFFICES ASSUME NEW i \in 1..Len(n) PROVE n[i] = p[i]
      OBVIOUS
    <3>1. i \in 1..Len(p) /\ i \in 1..Len(pre)
      BY <1>2, <1>3, <2>1
    <3>2. own[i] = n[i]
      BY <1>2
    <3>3. pre[i] = p[i]
      BY <1>3, <3>1
    <3> QED
      BY <1>7, <3>1, <3>2, <3>3
  <2>3. Len(p) # Len(n)
    BY <1>4, <1>5, <2>2, SeqEqual DEF Text
  <2>4. Rest(k)[1] = "/" /\ Rest(k)[2] = k /\ k # "/"
    BY RestIs
  <2>5. p[Len(n) + 1] = "/" /\ Len(n) + 1 \in DOMAIN p
    <3>1. Len(n) + 1 \in 1..Len(p) /\ Len(n) + 1 \in 1..Len(pre)
      BY <1>2, <1>3, <2>1, <2>3
    <3>2. own[Len(n) + 1] = "/"
      BY <1>2, <2>4
    <3> QED
      BY <1>3, <1>4, <1>7, <3>1, <3>2
  <2>6. \A i \in DOMAIN p : p[i] # k
    BY <1>6, <2>5
  <2>7. Len(n) + 2 \in 1..Len(pre)
    BY <1>2, <1>3, <2>1, <2>3
  <2>8. pre[Len(n) + 2] = k
    BY <1>2, <1>7, <2>4, <2>7
  <2>9. CASE Len(p) = Len(n) + 1
    <3>1. Len(n) + 2 = Len(p) + 1
      BY <1>2, <2>9
    <3> QED
      BY <1>3, <2>4, <2>8, <3>1
  <2>10. CASE Len(p) > Len(n) + 1
    <3>1. Len(n) + 2 \in 1..Len(p)
      BY <1>2, <1>3, <2>10
    <3> QED
      BY <1>3, <1>4, <2>6, <2>8, <3>1
  <2> QED
    BY <1>2, <1>3, <2>1, <2>3, <2>9, <2>10
<1>10. IsPrefix(pre, n)
  <2>1. Len(pre) <= Len(n) /\ \A i \in 1..Len(pre) : pre[i] = n[i]
    BY <1>2, <1>3, <1>7, <1>9
  <2> QED
    BY <1>3, <2>1, PrefixIs
<1>11. TrimPrefix(n, pre) \in Text /\ n = pre \o TrimPrefix(n, pre)
  BY <1>3, <1>10, ConcatAfterTrim
<1> QED
  BY <1>8, <1>11 DEF pre, p

\* The path for a name is upstream the path for upstream's name of it.
LEMMA UpstreamIs ==
  ASSUME NEW c, NEW plain \in BOOLEAN, NEW n \in Text, NEW k \in Kinds,
         c.repo \in Text, c.prefix \in Text,
         Accepted(c, plain, PathOf(n, k, Ref)),
         c.prefix # Empty /\ ~plain => Apart(c, n, k)
  PROVE  /\ Below(c, plain, n) \in Text /\ UpName(c, plain, n) \in Text
         /\ UpstreamPath(c, plain, PathOf(n, k, Ref)) = PathOf(UpName(c, plain, n), k, Ref)
<1> DEFINE b == Below(c, plain, n)  m == UpName(c, plain, n)  r == Rest(k)
           front == IF c.repo # Empty THEN c.repo \o Slash ELSE Empty
           back == IF c.prefix # Empty /\ ~plain
                   THEN TrimPrefix(n \o r, c.prefix \o Slash) ELSE n \o r
<1>1. r \in Text /\ V2 \in Text /\ Slash \in Text /\ Empty \in Text
  BY RestIs, Marks DEF Empty, Text
<1>2. UpstreamPath(c, plain, PathOf(n, k, Ref)) = V2 \o front \o back
  BY OwnIs DEF UpstreamPath
<1>3. b \in Text /\ back = b \o r
  <2>1. CASE c.prefix # Empty /\ ~plain
    <3> DEFINE pre == c.prefix \o Slash
    <3>1. b \in Text /\ n = pre \o b
      BY <2>1, BelowIs
    <3>2. pre \in Text /\ b \o r \in Text
      BY <1>1, <3>1, Closed
    <3>3. back = TrimPrefix(n \o r, pre)
      BY <2>1
    <3> HIDE DEF pre, b, r, back
    <3>4. n \o r = pre \o (b \o r)
      <4>1. (pre \o b) \o r = pre \o (b \o r)
        <5>1. pre \in Text /\ b \in Text /\ r \in Text
          BY <1>1, <3>1, <3>2
        <5>2. Assoc(pre, b, r)
          BY <5>1, Associative, Zenon
        <5> QED
          BY <5>2, Zenon DEF Assoc
      <4> QED
        BY <3>1, <4>1, Zenon
    <3>5. TrimPrefix(n \o r, pre) = b \o r
      BY <3>2, <3>4, TrimAfterConcat
    <3> QED
      BY <3>1, <3>3, <3>5
  <2>2. CASE ~(c.prefix # Empty /\ ~plain)
    BY <2>2 DEF Below
  <2> QED
    BY <2>1, <2>2
<1>4. front \in Text
  BY <1>1, Closed
<1>5. m = front \o b /\ m \in Text
  <2>1. Empty \o b = b
    BY <1>3, ConcatEmptySeq DEF Empty, Text
  <2>2. m = front \o b
    BY <2>1 DEF UpName
  <2> HIDE DEF front, m, b
  <2> QED
    BY <1>3, <1>4, <2>2, Closed
<1> HIDE DEF front, back, b, m, r
<1>6. V2 \o front \o back = V2 \o m \o r
  <2>1. (V2 \o front) \o (b \o r) = ((V2 \o front) \o b) \o r
    <3>1. V2 \o front \in Text /\ b \in Text /\ r \in Text
      BY <1>1, <1>3, <1>4, Closed
    <3>2. Assoc(V2 \o front, b, r)
      BY <3>1, Associative, Zenon
    <3> QED
      BY <3>2, Zenon DEF Assoc
  <2>2. (V2 \o front) \o b = V2 \o (front \o b)
    <3>1. V2 \in Text /\ front \in Text /\ b \in Text
      BY <1>1, <1>3, <1>4
    <3>2. Assoc(V2, front, b)
      BY <3>1, Associative, Zenon
    <3> QED
      BY <3>2, Zenon DEF Assoc
  <2> QED
    BY <1>3, <1>5, <2>1, <2>2
<1>7. PathOf(m, k, Ref) = V2 \o m \o r
  BY <1>5, PathIs DEF r
<1> QED
  BY <1>2, <1>3, <1>5, <1>6, <1>7 DEF m, b

\* A path is about the repository it names.
LEMMA UpstreamRepoIs ==
  ASSUME NEW n \in Text, NEW k \in Kinds
  PROVE  UpstreamRepo(k, PathOf(n, k, Ref)) = n
<1> DEFINE own == n \o Rest(k)
<1>1. /\ own \in Text /\ Len(n) \in Nat /\ Len(own) = Len(n) + 4
  BY OwnWords
<1>2. UpstreamRepo(k, PathOf(n, k, Ref)) = SubSeq(own, 1, Len(own) - 4)
  BY OwnIs DEF UpstreamRepo
<1>3. IsPrefix(n, own)
  BY RestIs, TrimAfterConcat
<1> HIDE DEF own
<1>4. SubSeq(own, 1, Len(n)) = n
  BY <1>3, SubSeqFull DEF IsPrefix, Text
<1>5. Len(own) - 4 = Len(n)
  BY <1>1
<1> QED
  BY <1>2, <1>4, <1>5

-----------------------------------------------------------------------------
(* Links.                                                                  *)

LEMMA LinkReturns ==
  ASSUME NEW c, NEW plain \in BOOLEAN, NEW p \in Text,
         c.repo \in Text, c.prefix \in Text, c.repo # Empty,
         IsPrefix(V2, p), Accepted(c, plain, p)
  PROVE  RewriteLink(c, plain, UpstreamPath(c, plain, p)) = p
<1> DEFINE own == TrimPrefix(p, V2)
           up == UpstreamPath(c, plain, p)
           mark == V2 \o c.repo
<1>1. own \in Text /\ p = V2 \o own
  BY Marks, ConcatAfterTrim
<1>2. mark \in Text /\ c.repo \o Slash \in Text /\ V2 \o (c.repo \o Slash) = mark \o Slash
  <2>1. V2 \o (c.repo \o Slash) = (V2 \o c.repo) \o Slash
    <3>1. V2 \in Text /\ Slash \in Text
      BY Marks, Zenon
    <3>2. Assoc(V2, c.repo, Slash)
      BY <3>1, Associative, Zenon
    <3> QED
      BY <3>2, Zenon DEF Assoc
  <2>2. V2 \o c.repo \in Text /\ c.repo \o Slash \in Text
    BY Marks, Closed, Zenon
  <2> QED
    BY <2>1, <2>2
<1>3. ASSUME NEW rest \in Text, up = (V2 \o (c.repo \o Slash)) \o rest
      PROVE  IsPrefix(mark, up) /\ TrimPrefix(up, mark) = Slash \o rest /\ Slash \o rest \in Text
  <2>1. Slash \o rest \in Text
    BY Marks, ConcatProperties DEF Text
  <2>2. up = mark \o (Slash \o rest)
    <3>1. (mark \o Slash) \o rest = mark \o (Slash \o rest)
      <4>1. mark \in Text /\ Slash \in Text /\ rest \in Text
        BY <1>2, <1>3, Marks, Zenon
      <4> HIDE DEF mark
      <4>2. Assoc(mark, Slash, rest)
        BY <4>1, Associative, Zenon
      <4> QED
        BY <4>2, Zenon DEF Assoc
    <3> QED
      BY <1>2, <1>3, <3>1, Zenon
  <2> HIDE DEF up, mark
  <2> QED
    BY <1>2, <2>1, <2>2, TrimAfterConcat
<1>4. CASE c.prefix # Empty /\ ~plain
  <2>1. IsPrefix(c.prefix \o Slash, own) /\ c.prefix \o Slash \in Text
    BY <1>4, Marks, ConcatProperties DEF Accepted, Text
  <2> DEFINE rest == TrimPrefix(own, c.prefix \o Slash)
  <2>2. rest \in Text /\ own = (c.prefix \o Slash) \o rest
    BY <1>1, <2>1, ConcatAfterTrim
  <2>3. up = (V2 \o (c.repo \o Slash)) \o rest
    BY <1>4 DEF UpstreamPath
  <2>4. RewriteLink(c, plain, up) = (V2 \o c.prefix) \o TrimPrefix(up, mark)
    BY <1>3, <1>4, <2>2, <2>3 DEF RewriteLink
  <2>5. TrimPrefix(up, mark) = Slash \o rest
    BY <1>3, <2>2, <2>3
  <2> HIDE DEF rest, own, up, mark
  <2>6. (V2 \o c.prefix) \o (Slash \o rest) = V2 \o (c.prefix \o (Slash \o rest))
    <3> DEFINE tail == Slash \o rest
    <3>1. V2 \in Text /\ tail \in Text
      BY <2>2, Marks, Closed, Zenon
    <3> HIDE DEF tail
    <3>2. (V2 \o c.prefix) \o tail = V2 \o (c.prefix \o tail)
      <4>1. Assoc(V2, c.prefix, tail)
        BY <3>1, Associative, Zenon
      <4> QED
        BY <4>1, Zenon DEF Assoc
    <3> QED
      BY <3>2 DEF tail
  <2>7. c.prefix \o (Slash \o rest) = own
    <3>1. rest \in Text /\ Slash \in Text
      BY <2>2, Marks, Zenon
    <3>2. (c.prefix \o Slash) \o rest = c.prefix \o (Slash \o rest)
      <4>1. Assoc(c.prefix, Slash, rest)
        BY <3>1, Associative, Zenon
      <4> QED
        BY <4>1, Zenon DEF Assoc
    <3> QED
      BY <2>2, <3>2, Zenon
  <2> QED
    BY <1>1, <2>4, <2>5, <2>6, <2>7 DEF up
<1>5. CASE ~(c.prefix # Empty /\ ~plain)
  <2>1. up = (V2 \o (c.repo \o Slash)) \o own
    BY <1>5 DEF UpstreamPath
  <2>2. RewriteLink(c, plain, up) = <<"/", "v2">> \o TrimPrefix(up, mark)
    BY <1>1, <1>3, <1>5, <2>1 DEF RewriteLink
  <2>3. TrimPrefix(up, mark) = Slash \o own
    BY <1>1, <1>3, <2>1
  <2> HIDE DEF own, up, mark
  <2>4. <<"/", "v2">> \o (Slash \o own) = (<<"/", "v2">> \o Slash) \o own
    <3>1. own \in Text
      BY <1>1, Zenon
    <3>2. Slash \in Text /\ <<"/", "v2">> \in Text
      BY Marks, Zenon
    <3>3. Assoc(<<"/", "v2">>, Slash, own)
      BY <3>1, <3>2, Associative, Zenon
    <3> QED
      BY <3>3, Zenon DEF Assoc
  <2> QED
    BY <1>1, <2>2, <2>3, <2>4, ShortMark DEF up
<1> QED
  BY <1>4, <1>5

\* A path with two slashes in a row is not clean.
LEMMA NotClean ==
  ASSUME NEW p \in Text, NEW i \in 1..Len(p), i + 1 \in 1..Len(p), p[i] = "/", p[i + 1] = "/"
  PROVE  ~Clean(p)
<1> DEFINE t == <<"/", "/">>
<1>1. t \in Text /\ Len(t) = 2 /\ t[1] = "/" /\ t[2] = "/" /\ Len(p) \in Nat
  BY LenProperties DEF Text, Words
<1> HIDE DEF t
<1>2. i \in 1..(Len(p) - Len(t) + 1)
  BY <1>1
<1>3. \A j \in 1..Len(t) : p[i + j - 1] = t[j]
  <2>1. ASSUME NEW j \in 1..Len(t)
        PROVE  (j = 1 /\ i + j - 1 = i) \/ (j = 2 /\ i + j - 1 = i + 1)
    <3>1. j = 1 \/ j = 2
      BY <1>1
    <3> QED
      BY <1>1, <3>1
  <2> QED
    BY <1>1, <2>1
<1>4. i \in At(p, t)
  BY <1>1, <1>2, <1>3, AtIs
<1> QED
  BY <1>4 DEF Clean, Holds, t

\* Without a repo, no Link is to a path that is served: a slash is missing.
LEMMA LeadsNowhere ==
  ASSUME NEW c, NEW plain \in BOOLEAN, NEW p \in Text, c.repo = Empty, c.prefix \in Text,
         IsPrefix(V2, p), Clean(p), Accepted(c, plain, p),
         NEW link, link = RewriteLink(c, plain, UpstreamPath(c, plain, p))
  PROVE  ~(Routed(link) /\ Accepted(c, plain, link))
<1> SUFFICES ASSUME Routed(link), Accepted(c, plain, link) PROVE FALSE
  OBVIOUS
<1> DEFINE own == TrimPrefix(p, V2)  up == UpstreamPath(c, plain, p)
<1>1. own \in Text /\ p = V2 \o own
  BY Marks, ConcatAfterTrim
<1>2. V2 \in Text /\ V2 \o Empty = V2 /\ Len(V2) = 3 /\ V2[3] = "/"
  <2>1. V2 \in Text /\ Len(V2) = 3 /\ V2[3] = "/"
    BY Marks DEF V2
  <2> QED
    BY <2>1, ConcatEmptySeq DEF Empty, Text
<1>3. /\ Len(own) \in Nat /\ Len(p) = Len(own) + 3
      /\ p[3] = "/" /\ \A i \in 1..Len(own) : p[3 + i] = own[i]
  <2> HIDE DEF own
  <2>1. Len(own) \in Nat
    BY <1>1, LenProperties DEF Text
  <2>2. /\ Len(p) = Len(V2) + Len(own)
        /\ \A i \in 1..(Len(V2) + Len(own)) : p[i] = IF i <= Len(V2) THEN V2[i] ELSE own[i - Len(V2)]
    BY <1>1, <1>2, ConcatProperties DEF Text
  <2> QED
    BY <1>2, <2>1, <2>2
<1>4. CASE c.prefix # Empty /\ ~plain
  <2> DEFINE pre == c.prefix \o Slash  x == TrimPrefix(own, pre)  l == Len(c.prefix)
  <2>1. pre \in Text /\ IsPrefix(pre, own)
    BY <1>4, Marks, Closed DEF Accepted
  <2>2. x \in Text /\ own = pre \o x
    <3> HIDE DEF own, pre
    <3> QED
      BY <1>1, <2>1, ConcatAfterTrim
  <2>3. up = V2 \o x
    BY <1>2, <1>4 DEF UpstreamPath
  <2>4. link = V2 \o c.prefix \o x
    <3>1. IsPrefix(V2, V2 \o x) /\ TrimPrefix(V2 \o x, V2) = x
      <4> HIDE DEF x
      <4> QED
        BY <1>2, <2>2, TrimAfterConcat
    <3> HIDE DEF x, up
    <3> QED
      BY <1>2, <1>4, <2>3, <3>1 DEF RewriteLink, up
  <2> DEFINE y == c.prefix \o x
  <2>5. TrimPrefix(link, V2) = y /\ y \in Text
    <3> HIDE DEF x
    <3>1. y \in Text
      BY <2>2, Closed
    <3>2. link = V2 \o y
      <4>1. V2 \in Text /\ c.prefix \in Text /\ x \in Text
        BY <1>2, <2>2
      <4>2. Assoc(V2, c.prefix, x)
        BY <4>1, Associative, Zenon
      <4> QED
        BY <2>4, <4>2, Zenon DEF Assoc, y
    <3> HIDE DEF y
    <3> QED
      BY <1>2, <3>1, <3>2, TrimAfterConcat
  <2>6. IsPrefix(pre, y)
    BY <1>4, <2>5 DEF Accepted
  <2>7. l \in Nat /\ Len(x) \in Nat
    <3> HIDE DEF x
    <3> QED
      BY <2>2, LenProperties DEF Text
  <2>8. /\ Len(pre) = l + 1 /\ pre[l + 1] = "/"
        /\ Len(own) = l + 1 + Len(x) /\ own[l + 1] = "/"
        /\ \A i \in 1..Len(x) : own[l + 1 + i] = x[i]
    <3> HIDE DEF x, own
    <3>1. /\ Len(own) = l + 1 + Len(x) /\ own[l + 1] = "/"
          /\ \A i \in 1..Len(x) : own[l + 1 + i] = x[i]
      BY <2>2, Between
    <3>2. Slash \in Text /\ Len(Slash) = 1 /\ Slash[1] = "/"
      BY Marks DEF Slash
    <3>3. Len(pre) = l + Len(Slash)
          /\ \A i \in 1..(l + Len(Slash)) : pre[i] = IF i <= l THEN c.prefix[i] ELSE Slash[i - l]
      BY <3>2, ConcatProperties DEF Text
    <3> HIDE DEF pre, l
    <3> QED
      BY <2>7, <3>1, <3>2, <3>3
  <2>9. Len(y) = l + Len(x) /\ \A i \in 1..(l + Len(x)) : y[i] = IF i <= l THEN c.prefix[i] ELSE x[i - l]
    <3> HIDE DEF x
    <3> QED
      BY <2>2, ConcatProperties DEF Text
  <2> HIDE DEF pre, own, x, y, l
  <2>10. Len(pre) <= Len(y) /\ \A i \in 1..Len(pre) : pre[i] = y[i]
    BY <2>1, <2>5, <2>6, PrefixIs
  <2>11. Len(x) >= 1 /\ x[1] = "/"
    <3>1. l + 1 \in 1..Len(pre) /\ l + 1 \in 1..(l + Len(x))
      BY <2>7, <2>8, <2>9, <2>10
    <3>2. y[l + 1] = x[1]
      BY <2>7, <2>9, <3>1
    <3> QED
      BY <2>7, <2>8, <2>10, <3>1, <3>2
  <2>12. own[l + 2] = "/" /\ l + 1 \in 1..Len(own) /\ l + 2 \in 1..Len(own)
    <3>1. 1 \in 1..Len(x) /\ l + 1 + 1 = l + 2
      BY <2>7, <2>11
    <3> QED
      BY <2>7, <2>8, <2>11, <3>1
  <2>13. p[3 + (l + 1)] = "/" /\ p[3 + (l + 2)] = "/"
    BY <1>3, <2>8, <2>12
  <2> DEFINE i == l + 4
  <2>14. p[i] = "/" /\ p[i + 1] = "/" /\ i \in 1..Len(p) /\ i + 1 \in 1..Len(p)
    <3>1. 3 + (l + 1) = i /\ 3 + (l + 2) = i + 1
      BY <2>7
    <3> QED
      BY <1>3, <2>7, <2>12, <2>13, <3>1
  <2> HIDE DEF i
  <2> QED
    BY <2>14, NotClean
<1>5. CASE ~(c.prefix # Empty /\ ~plain)
  <2>1. up = V2 \o own
    BY <1>2, <1>5 DEF UpstreamPath
  <2>2. link = <<"/", "v2">> \o own
    <3>1. IsPrefix(V2, V2 \o own) /\ TrimPrefix(V2 \o own, V2) = own
      <4> HIDE DEF own
      <4> QED
        BY <1>1, <1>2, TrimAfterConcat
    <3> HIDE DEF own, up
    <3> QED
      BY <1>2, <1>5, <2>1, <3>1 DEF RewriteLink, up
  <2>3. IsPrefix(V2, link)
    BY DEF Routed
  <2> DEFINE m == <<"/", "v2">>
  <2>4. m \in Text /\ Len(m) = 2
    BY Marks
  <2> HIDE DEF own, m
  <2>5. /\ link \in Text /\ Len(link) = Len(m) + Len(own)
        /\ \A i \in 1..(Len(m) + Len(own)) : link[i] = IF i <= Len(m) THEN m[i] ELSE own[i - Len(m)]
    <3>1. link = m \o own /\ m \in Seq(Words) /\ own \in Seq(Words)
      BY <1>1, <2>2, <2>4 DEF m, Text
    <3> QED
      <4>1. LET y == m \o own IN
            /\ y \in Seq(Words) /\ Len(y) = Len(m) + Len(own)
            /\ \A i \in 1..(Len(m) + Len(own)) : y[i] = IF i <= Len(m) THEN m[i] ELSE own[i - Len(m)]
        BY <3>1, ConcatProperties, Zenon
      <4> QED
        BY <3>1, <4>1, Zenon DEF Text
  <2>6. 3 <= Len(link) /\ V2[3] = link[3]
    <3>1. V2 \in Text /\ link \in Text
      BY <1>2, <2>5
    <3>2. Len(V2) <= Len(link) /\ \A i \in 1..Len(V2) : V2[i] = link[i]
      BY <2>3, <3>1, PrefixIs, Zenon
    <3> QED
      BY <1>2, <3>2
  <2>7. Len(own) >= 1 /\ own[1] = "/"
    BY <1>2, <1>3, <2>4, <2>5, <2>6
  <2>8. p[3 + 1] = "/"
    BY <1>3, <2>7
  <2>9. p[3 + 1] = "/" /\ 3 \in 1..Len(p) /\ 3 + 1 \in 1..Len(p)
    BY <1>3, <2>7, <2>8
  <2> QED
    BY <1>3, <2>9, NotClean
<1> QED
  BY <1>4, <1>5

-----------------------------------------------------------------------------
(* What a path is about.                                                   *)

Reserved == {"manifests", "blobs", "tags", "list"}

\* No word is one that the registry API has a use for.
Free(s) == \A i \in DOMAIN s : s[i] \notin Reserved

\* A path's parts after the first, if no word of its name is reserved.
LEMMA TailParts ==
  ASSUME NEW n \in Text, NEW k \in Kinds, Free(n)
  PROVE  LET parts == Tail(Split(PathOf(n, k, Ref)))
             l == Len(Split(n)) IN
         /\ l \in Nat \ {0} /\ Len(parts) = l + 3
         /\ parts[l + 2] = <<k>> /\ parts[l + 3] = <<End(k)>>
         /\ \A i \in 1..(l + 1) : \A w \in Reserved : parts[i] # <<w>>
<1> DEFINE p == Split(PathOf(n, k, Ref))  q == Split(n)  l == Len(q)  parts == Tail(p)
<1>1. /\ q \in Seq(Text) /\ l \in Nat \ {0} /\ p \in Seq(Text) /\ Len(p) = l + 4
      /\ p[2] = <<"v2">> /\ \A i \in 1..l : p[2 + i] = q[i]
      /\ p[l + 3] = <<k>> /\ p[l + 4] = <<End(k)>>
  BY PathParts
<1>2. ASSUME NEW i \in 1..l, NEW w \in Reserved PROVE q[i] # <<w>>
  <2> SUFFICES ASSUME q[i] = <<w>> PROVE FALSE
    OBVIOUS
  <2>1. i \in DOMAIN q
    BY <1>1
  <2>2. 1 \in DOMAIN q[i] /\ q[i][1] = w
    OBVIOUS
  <2>3. \E j \in DOMAIN n : n[j] = w
    BY <2>1, <2>2, PartWords
  <2> QED
    BY <2>3 DEF Free
<1> HIDE DEF p, q, l
<1>3. /\ parts \in Seq(Text) /\ Len(parts) = l + 3
      /\ \A i \in 1..(l + 3) : parts[i] = p[i + 1]
  <2>1. p # << >>
    BY <1>1
  <2> QED
    BY <1>1, <2>1, HeadTailProperties
<1> HIDE DEF parts
<1>4. parts[l + 2] = <<k>> /\ parts[l + 3] = <<End(k)>>
  <2>1. parts[l + 2] = p[l + 2 + 1] /\ parts[l + 3] = p[l + 3 + 1]
    BY <1>1, <1>3
  <2>2. l + 2 + 1 = l + 3 /\ l + 3 + 1 = l + 4
    BY <1>1
  <2> QED
    BY <1>1, <2>1, <2>2
<1>5. ASSUME NEW i \in 1..(l + 1), NEW w \in Reserved PROVE parts[i] # <<w>>
  <2>1. CASE i = 1
    <3>1. parts[i] = <<"v2">>
      BY <1>1, <1>3, <2>1
    <3>2. w # "v2"
      BY DEF Reserved
    <3> QED
      BY <3>1, <3>2
  <2>2. CASE i # 1
    <3>1. i - 1 \in 1..l /\ i + 1 = 2 + (i - 1) /\ i \in 1..(l + 3)
      BY <1>1, <2>2
    <3>2. parts[i] = q[i - 1]
      BY <1>1, <1>3, <3>1
    <3> QED
      BY <1>2, <3>1, <3>2
  <2> QED
    BY <2>1, <2>2
<1> QED
  BY <1>1, <1>3, <1>4, <1>5 DEF p, q, l, parts

\* isBlobRequest knows the paths of blobs.
LEMMA BlobRequestIs ==
  ASSUME NEW n \in Text, NEW k \in Kinds, Free(n)
  PROVE  IsBlobRequest(PathOf(n, k, Ref)) <=> k = "blobs"
<1> DEFINE parts == Tail(Split(PathOf(n, k, Ref)))  l == Len(Split(n))
<1>1. /\ l \in Nat \ {0} /\ Len(parts) = l + 3
      /\ parts[l + 2] = <<k>> /\ parts[l + 3] = <<End(k)>>
      /\ \A i \in 1..(l + 1) : parts[i] # <<"blobs">>
  BY TailParts DEF Reserved
<1>2. IsBlobRequest(PathOf(n, k, Ref))
        <=> Len(parts) >= 4 /\ \E i \in 3..(Len(parts) - 1) : parts[i] = <<"blobs">>
  BY DEF IsBlobRequest
<1> HIDE DEF parts, l
<1>3. ASSUME k = "blobs" PROVE \E i \in 3..(Len(parts) - 1) : parts[i] = <<"blobs">>
  <2>1. l + 2 \in 3..(Len(parts) - 1) /\ parts[l + 2] = <<"blobs">>
    BY <1>1, <1>3
  <2> QED
    BY <2>1
<1>4. ASSUME NEW i \in 3..(Len(parts) - 1), parts[i] = <<"blobs">> PROVE k = "blobs"
  <2>1. i \in 1..(l + 1) \/ i = l + 2
    BY <1>1
  <2>2. i = l + 2
    BY <1>1, <1>4, <2>1
  <2>3. <<k>> = <<"blobs">>
    BY <1>1, <1>4, <2>2
  <2> QED
    BY <2>3
<1>5. Len(parts) >= 4
  BY <1>1
<1> QED
  BY <1>2, <1>3, <1>4, <1>5

\* So does the code that relays bodies.
LEMMA BodyRelayedIs ==
  ASSUME NEW n \in Text, NEW k \in Kinds
  PROVE  BodyRelayed(PathOf(n, k, Ref)) <=> k # "blobs"
<1> DEFINE p == Split(PathOf(n, k, Ref))  l == Len(Split(n))
<1>1. l \in Nat /\ Len(p) = l + 4 /\ p[l + 3] = <<k>>
  BY PathParts
<1>2. BodyRelayed(PathOf(n, k, Ref)) <=> p[Len(p) - 1] # <<"blobs">>
  BY DEF BodyRelayed
<1> HIDE DEF p, l
<1>3. Len(p) - 1 = l + 3
  BY <1>1
<1>4. <<k>> = <<"blobs">> <=> k = "blobs"
  OBVIOUS
<1> QED
  BY <1>1, <1>2, <1>3, <1>4

\* The words of a path that are reserved are its own.
LEMMA ReservedWords ==
  ASSUME NEW n \in Text, NEW k \in Kinds, Free(n),
         NEW i \in 1..Len(PathOf(n, k, Ref)), PathOf(n, k, Ref)[i] \in Reserved
  PROVE  PathOf(n, k, Ref)[i] \in {k, End(k)}
<1> DEFINE p == PathOf(n, k, Ref)
<1>1. /\ p \in Text /\ Len(n) \in Nat /\ Len(p) = Len(n) + 7
      /\ \A j \in 1..3 : p[j] = V2[j]
      /\ \A j \in 1..Len(n) : p[3 + j] = n[j]
      /\ \A j \in 1..4 : p[3 + Len(n) + j] = Rest(k)[j]
  BY PathWords
<1> HIDE DEF p
<1>2. p[i] \in Reserved /\ i \in 1..Len(p)
  BY DEF p
<1>3. i \notin 1..3
  <2>1. \A j \in 1..3 : V2[j] \in {"/", "v2"}
    BY DEF V2
  <2>2. "/" \notin Reserved /\ "v2" \notin Reserved
    BY DEF Reserved
  <2> QED
    BY <1>1, <1>2, <2>1, <2>2
<1>4. \A j \in 1..Len(n) : i # 3 + j
  <2> SUFFICES ASSUME NEW j \in 1..Len(n), i = 3 + j PROVE FALSE
    OBVIOUS
  <2>1. j \in DOMAIN n
    BY DEF Text
  <2> QED
    BY <1>1, <1>2, <2>1 DEF Free
<1>5. \E j \in 1..4 : i = 3 + Len(n) + j
  <2>1. i - 3 \notin 1..Len(n)
    BY <1>1, <1>2, <1>4
  <2>2. i - 3 - Len(n) \in 1..4 /\ i = 3 + Len(n) + (i - 3 - Len(n))
    BY <1>1, <1>2, <1>3, <2>1
  <2> QED
    BY <2>2
<1>6. PICK j \in 1..4 : p[i] = Rest(k)[j]
  BY <1>1, <1>5
<1>7. \A m \in 1..4 : Rest(k)[m] \in {"/", k, End(k)}
  BY RestIs
<1>8. "/" \notin Reserved
  BY DEF Reserved
<1> QED
  BY <1>2, <1>6, <1>7, <1>8 DEF p

\* Paths of one kind are cached as that kind.
LEMMA MaybeCachedIs ==
  ASSUME NEW n \in Text, NEW k \in Kinds, Free(n), NEW w \in {"manifests", "blobs"}
  PROVE  MaybeCached(PathOf(n, k, Ref), w) <=> k = w
<1> DEFINE p == PathOf(n, k, Ref)  mark == Slash \o <<w>> \o Slash
<1>1. /\ p \in Text /\ Len(n) \in Nat /\ Len(p) = Len(n) + 7
      /\ \A j \in 1..4 : p[3 + Len(n) + j] = Rest(k)[j]
  BY PathWords
<1>2. mark = <<"/", w, "/">> /\ mark \in Text
  <2>1. "/" \in Words /\ w \in Words
    BY Zenon DEF Words
  <2>2. <<"/", w, "/">> \in Text
    BY <2>1 DEF Text
  <2>3. <<"/">> \o <<w>> \o <<"/">> = <<"/", w, "/">>
    BY <2>1, ThreeWords
  <2> QED
    BY <2>2, <2>3 DEF Slash
<1> HIDE DEF mark
<1>3. Len(mark) = 3 /\ mark[1] = "/" /\ mark[2] = w /\ mark[3] = "/"
  BY <1>2
<1>4. MaybeCached(p, w) <=> At(p, mark) # {}
  BY DEF MaybeCached, Holds, mark
<1>5. \A i \in 1..(Len(p) - Len(mark) + 1) :
        i \in At(p, mark) <=> \A j \in 1..Len(mark) : p[i + j - 1] = mark[j]
  <2> HIDE DEF p
  <2>1. p \in Text /\ mark \in Text
    BY <1>1, <1>2
  <2> QED
    BY <2>1, AtIs, Zenon
<1>6. ASSUME NEW i \in At(p, mark) PROVE k = w
  <2> HIDE DEF p, mark
  <2>1. i \in 1..(Len(p) - Len(mark) + 1)
    BY DEF At
  <2>2. i + 2 - 1 \in 1..Len(p) /\ 2 \in 1..Len(mark)
    BY <1>1, <1>3, <2>1
  <2>3. p[i + 2 - 1] = w
    BY <1>3, <1>5, <2>1, <2>2
  <2>4. w \in Reserved /\ w \in Kinds
    BY DEF Reserved, Kinds
  <2>5. w \in {k, End(k)}
    BY <2>2, <2>3, <2>4, ReservedWords DEF p
  <2> QED
    BY <2>4, <2>5, RestIs
<1>7. ASSUME k = w PROVE At(p, mark) # {}
  <2> DEFINE i == 3 + Len(n) + 1
  <2> HIDE DEF p, mark
  <2>1. i \in 1..(Len(p) - Len(mark) + 1)
    BY <1>1, <1>3
  <2>2. p[3 + Len(n) + 1] = "/" /\ p[3 + Len(n) + 2] = w /\ p[3 + Len(n) + 3] = "/"
    BY <1>1, <1>7, RestIs
  <2>3. i + 1 - 1 = 3 + Len(n) + 1 /\ i + 2 - 1 = 3 + Len(n) + 2 /\ i + 3 - 1 = 3 + Len(n) + 3
    BY <1>1
  <2> HIDE DEF i
  <2>4. \A j \in 1..Len(mark) : p[i + j - 1] = mark[j]
    <3>1. p[i + 1 - 1] = mark[1] /\ p[i + 2 - 1] = mark[2] /\ p[i + 3 - 1] = mark[3]
      BY <1>3, <2>2, <2>3
    <3>2. \A j \in 1..Len(mark) : j = 1 \/ j = 2 \/ j = 3
      BY <1>3
    <3> QED
      BY <3>1, <3>2
  <2> QED
    BY <1>5, <2>1, <2>4
<1> QED
  BY <1>4, <1>6, <1>7

\* Only tag lists are decoded as such.
LEMMA DecodedIs ==
  ASSUME NEW c, NEW n \in Text, NEW k \in Kinds, Free(n), DecodedAsList(c, PathOf(n, k, Ref))
  PROVE  k = "tags"
<1> DEFINE p == PathOf(n, k, Ref)
<1>1. p \in Text /\ TagsList \in Text
  BY PathWords, Literals, Zenon DEF TagsList
<1>2. PICK i : i \in At(p, TagsList)
  BY DEF DecodedAsList, Holds
<1>3. Len(TagsList) = 4 /\ TagsList[4] = "list"
  BY DEF TagsList
<1>4. i \in 1..(Len(p) - Len(TagsList) + 1) /\ Len(p) \in Nat
  BY <1>1, <1>2, LenProperties DEF At, Text
<1> HIDE DEF p
<1>5. \A j \in 1..Len(TagsList) : p[i + j - 1] = TagsList[j]
  BY <1>1, <1>2, <1>4, AtIs, Zenon
<1>6. i + 4 - 1 \in 1..Len(p) /\ 4 \in 1..Len(TagsList)
  BY <1>3, <1>4
<1>7. p[i + 4 - 1] = "list"
  BY <1>3, <1>5, <1>6
<1>8. "list" \in {k, End(k)}
  <2>1. "list" \in Reserved
    BY DEF Reserved
  <2> QED
    BY <1>6, <1>7, <2>1, ReservedWords DEF p
<1> QED
  BY <1>8 DEF End, Kinds

\* metricPath knows every kind.
LEMMA MetricPathIs ==
  ASSUME NEW n \in Text, NEW k \in Kinds, Free(n),
         k = "tags" => \E i \in DOMAIN n : n[i] = "/"
  PROVE  MetricPath(PathOf(n, k, Ref)) = k
<1> DEFINE parts == Tail(Split(PathOf(n, k, Ref)))  l == Len(Split(n))
           len == Len(parts)
           separated(word) == \E i \in 3..(len - 1) : parts[i] = <<word>>
           list == len >= 5 /\ parts[len - 1] = <<"tags">> /\ parts[len] = <<"list">>
<1>1. /\ l \in Nat \ {0} /\ len = l + 3
      /\ parts[l + 2] = <<k>> /\ parts[l + 3] = <<End(k)>>
      /\ \A i \in 1..(l + 1) : \A w \in Reserved : parts[i] # <<w>>
  BY TailParts
<1>2. k = "tags" => l >= 2
  BY TwoParts
<1>3. MetricPath(PathOf(n, k, Ref)) =
        IF len < 4 THEN "unknown" ELSE IF list THEN "tags"
        ELSE IF separated("manifests") THEN "manifests"
        ELSE IF separated("blobs") THEN "blobs" ELSE "unknown"
  BY DEF MetricPath
<1> HIDE DEF parts, l
<1>4. len - 1 = l + 2 /\ ~(len < 4) /\ l + 2 \in 3..(len - 1)
  BY <1>1
<1>5. list <=> k = "tags"
  <2>1. ASSUME k = "tags" PROVE list
    <3>1. len >= 5
      BY <1>1, <1>2, <2>1
    <3>2. End(k) = "list"
      BY <2>1 DEF End
    <3> QED
      BY <1>1, <1>4, <2>1, <3>1, <3>2
  <2>2. ASSUME list PROVE k = "tags"
    <3>1. <<k>> = <<"tags">>
      BY <1>1, <1>4, <2>2
    <3> QED
      BY <3>1
  <2> QED
    BY <2>1, <2>2
<1>6. ASSUME NEW w \in {"manifests", "blobs"} PROVE separated(w) <=> k = w
  <2>1. ASSUME k = w PROVE separated(w)
    BY <1>1, <1>4, <2>1
  <2>2. ASSUME NEW i \in 3..(len - 1), parts[i] = <<w>> PROVE k = w
    <3>1. i \in 1..(l + 1) \/ i = l + 2
      BY <1>1
    <3>2. w \in Reserved
      BY DEF Reserved
    <3>3. <<k>> = <<w>>
      BY <1>1, <2>2, <3>1, <3>2
    <3> QED
      BY <3>3
  <2> QED
    BY <2>1, <2>2
<1> HIDE DEF list, separated
<1> QED
  BY <1>3, <1>4, <1>5, <1>6 DEF Kinds

\* backendOperation knows every kind, of upstream's path too.
LEMMA BackendOperationIs ==
  ASSUME NEW n \in Text, NEW k \in Kinds, Free(n)
  PROVE  BackendOperation(PathOf(n, k, Ref)) = k
<1> DEFINE parts == Tail(Split(PathOf(n, k, Ref)))  l == Len(Split(n))
           len == Len(parts)
           list == len >= 4 /\ parts[len - 1] = <<"tags">> /\ parts[len] = <<"list">>
           marks == {i \in 2..(len - 1) : parts[i] \in {<<"manifests">>, <<"blobs">>}}
<1>1. /\ l \in Nat \ {0} /\ len = l + 3
      /\ parts[l + 2] = <<k>> /\ parts[l + 3] = <<End(k)>>
      /\ \A i \in 1..(l + 1) : \A w \in Reserved : parts[i] # <<w>>
  BY TailParts
<1>2. BackendOperation(PathOf(n, k, Ref)) =
        IF list THEN "tags" ELSE IF marks = {} THEN "other"
        ELSE parts[CHOOSE i \in marks : \A j \in marks : i <= j][1]
  BY DEF BackendOperation
<1> HIDE DEF parts, l
<1>3. len - 1 = l + 2 /\ l + 2 \in 2..(len - 1)
  BY <1>1
<1>4. list <=> k = "tags"
  <2>1. ASSUME k = "tags" PROVE list
    <3>1. len >= 4
      BY <1>1
    <3>2. End(k) = "list"
      BY <2>1 DEF End
    <3> QED
      BY <1>1, <1>3, <2>1, <3>1, <3>2
  <2>2. ASSUME list PROVE k = "tags"
    <3>1. <<k>> = <<"tags">>
      BY <1>1, <1>3, <2>2
    <3> QED
      BY <3>1
  <2> QED
    BY <2>1, <2>2
<1>5. ASSUME k # "tags" PROVE marks = {l + 2}
  <2>1. k = "manifests" \/ k = "blobs"
    BY <1>5 DEF Kinds
  <2>2. l + 2 \in marks
    BY <1>1, <1>3, <2>1
  <2>3. ASSUME NEW i \in marks PROVE i = l + 2
    <3>1. i \in 2..(len - 1) /\ \E w \in Reserved : parts[i] = <<w>>
      BY DEF Reserved
    <3>2. i \in 1..(l + 1) \/ i = l + 2
      BY <1>1, <3>1
    <3> QED
      BY <1>1, <3>1, <3>2
  <2> QED
    BY <2>2, <2>3
<1> HIDE DEF list, marks
<1>6. ASSUME k # "tags" PROVE parts[CHOOSE i \in marks : \A j \in marks : i <= j][1] = k
  <2>1. (CHOOSE i \in {l + 2} : \A j \in {l + 2} : i <= j) = l + 2
    BY <1>1
  <2>2. <<k>>[1] = k
    OBVIOUS
  <2> QED
    BY <1>1, <1>5, <1>6, <2>1, <2>2
<1>7. {l + 2} # {}
  OBVIOUS
<1> QED
  BY <1>2, <1>4, <1>5, <1>6, <1>7

\* A slash between two strings is not reserved.
LEMMA FreeBetween ==
  ASSUME NEW s \in Text, NEW t \in Text
  PROVE  Free(s \o Slash \o t) <=> Free(s) /\ Free(t)
<1> DEFINE u == s \o Slash \o t
<1>1. /\ u \in Text /\ Len(s) \in Nat /\ Len(t) \in Nat /\ Len(u) = Len(s) + 1 + Len(t)
      /\ \A i \in 1..Len(s) : u[i] = s[i]
      /\ u[Len(s) + 1] = "/"
      /\ \A i \in 1..Len(t) : u[Len(s) + 1 + i] = t[i]
  BY Between
<1> HIDE DEF u
<1>2. DOMAIN s = 1..Len(s) /\ DOMAIN t = 1..Len(t) /\ DOMAIN u = 1..Len(u)
  BY <1>1 DEF Text
<1>3. ASSUME Free(u) PROVE Free(s) /\ Free(t)
  <2>1. ASSUME NEW i \in 1..Len(s) PROVE s[i] \notin Reserved
    <3>1. i \in DOMAIN u
      BY <1>1, <1>2
    <3> QED
      BY <1>1, <1>3, <3>1 DEF Free
  <2>2. ASSUME NEW i \in 1..Len(t) PROVE t[i] \notin Reserved
    <3>1. Len(s) + 1 + i \in DOMAIN u
      BY <1>1, <1>2
    <3> QED
      BY <1>1, <1>3, <3>1 DEF Free
  <2> QED
    BY <1>2, <2>1, <2>2 DEF Free
<1>4. ASSUME Free(s), Free(t), NEW i \in DOMAIN u PROVE u[i] \notin Reserved
  <2>1. CASE i \in 1..Len(s)
    BY <1>1, <1>2, <1>4, <2>1 DEF Free
  <2>2. CASE i = Len(s) + 1
    BY <1>1, <2>2 DEF Reserved
  <2>3. CASE i \notin 1..(Len(s) + 1)
    <3>1. i - (Len(s) + 1) \in 1..Len(t) /\ i = Len(s) + 1 + (i - (Len(s) + 1))
      <4>1. i \in Int /\ Len(s) + 1 < i /\ i <= Len(s) + 1 + Len(t)
        BY <1>1, <1>2, <2>3
      <4> DEFINE a == Len(s)  b == Len(t)
      <4>2. a \in Nat /\ b \in Nat /\ i \in Int /\ a + 1 < i /\ i <= a + 1 + b
        BY <1>1, <4>1
      <4> HIDE DEF a, b
      <4>3. i - (a + 1) \in 1..b /\ i = a + 1 + (i - (a + 1))
        BY <4>2
      <4> QED
        BY <4>3 DEF a, b
    <3>2. u[i] = t[i - (Len(s) + 1)]
      BY <1>1, <3>1
    <3> QED
      BY <1>2, <1>4, <3>1, <3>2 DEF Free
  <2> QED
    BY <1>1, <1>2, <2>1, <2>2, <2>3
<1> QED
  BY <1>3, <1>4 DEF u, Free

\* Upstream's path is about what the client's path is about.
LEMMA UpstreamKind ==
  ASSUME NEW c, NEW plain \in BOOLEAN, NEW n \in Text, NEW k \in Kinds,
         c.repo \in Text, c.prefix \in Text, n # c.prefix,
         Free(n), Free(c.repo), Free(c.prefix), Accepted(c, plain, PathOf(n, k, Ref))
  PROVE  \E m \in Text : Free(m) /\ UpstreamPath(c, plain, PathOf(n, k, Ref)) = PathOf(m, k, Ref)
<1> DEFINE below == Below(c, plain, n)
<1>1. Apart(c, n, k)
  <2>1. k \in Reserved
    BY DEF Kinds, Reserved
  <2> QED
    BY <2>1 DEF Apart, Free
<1>2. /\ below \in Text /\ UpName(c, plain, n) \in Text
      /\ UpstreamPath(c, plain, PathOf(n, k, Ref)) = PathOf(UpName(c, plain, n), k, Ref)
  BY <1>1, UpstreamIs
<1>3. Free(below)
  <2>1. CASE c.prefix # Empty /\ ~plain
    <3>1. n = c.prefix \o Slash \o below
      BY <1>1, <2>1, BelowIs
    <3> HIDE DEF below
    <3>2. Free(c.prefix \o Slash \o below)
      BY <3>1
    <3> QED
      BY <1>2, <3>2, FreeBetween
  <2>2. CASE ~(c.prefix # Empty /\ ~plain)
    BY <2>2 DEF Below
  <2> QED
    BY <2>1, <2>2
<1> HIDE DEF below
<1>4. Free(UpName(c, plain, n))
  <2>1. c.repo # Empty => Free(c.repo \o Slash \o below)
    BY <1>2, <1>3, FreeBetween
  <2> QED
    BY <1>3, <2>1 DEF UpName, below
<1> QED
  BY <1>2, <1>4

-----------------------------------------------------------------------------
(* Scopes.                                                                 *)

\* A scope, word by word.
LEMMA ScopeWords ==
  ASSUME NEW n \in Text
  PROVE  LET s == ScopeOf(n) IN
         /\ s \in Text /\ Len(n) \in Nat /\ Len(s) = Len(n) + 2
         /\ s[1] = "repository:" /\ s[Len(n) + 2] = ":pull"
         /\ \A i \in 1..Len(n) : s[1 + i] = n[i]
<1> DEFINE a == <<"repository:">>  b == <<":pull">>  x == a \o n  y == x \o b
<1>1. /\ a \in Seq(Words) /\ Len(a) = 1 /\ a[1] = "repository:"
      /\ b \in Seq(Words) /\ Len(b) = 1 /\ b[1] = ":pull"
      /\ n \in Seq(Words) /\ Len(n) \in Nat
  BY LenProperties DEF Words, Text
<1>2. ScopeOf(n) = y
  BY DEF ScopeOf
<1> HIDE DEF a, b
<1>3. /\ x \in Seq(Words) /\ Len(x) = Len(a) + Len(n)
      /\ \A i \in 1..(Len(a) + Len(n)) : x[i] = IF i <= Len(a) THEN a[i] ELSE n[i - Len(a)]
  BY <1>1, ConcatProperties
<1> HIDE DEF x
<1>4. /\ y \in Seq(Words) /\ Len(y) = Len(x) + Len(b)
      /\ \A i \in 1..(Len(x) + Len(b)) : y[i] = IF i <= Len(x) THEN x[i] ELSE b[i - Len(x)]
  <2>1. x \in Seq(Words) /\ b \in Seq(Words)
    BY <1>1, <1>3
  <2> QED
    BY <2>1, ConcatProperties, Zenon
<1> HIDE DEF y
<1>5. Len(y) = Len(n) + 2 /\ y[1] = "repository:" /\ y[Len(n) + 2] = ":pull"
  BY <1>1, <1>3, <1>4
<1>6. \A i \in 1..Len(n) : y[1 + i] = n[i]
  BY <1>1, <1>3, <1>4
<1> QED
  BY <1>1, <1>2, <1>4, <1>5, <1>6 DEF Text

\* A scope falls into "repository:" and the rest.
LEMMA ScopeFront ==
  ASSUME NEW n \in Text
  PROVE  ScopeOf(n) = <<"repository:">> \o (n \o <<":pull">>) /\ n \o <<":pull">> \in Text
<1> DEFINE a == <<"repository:">>  b == <<":pull">>
<1>1. a \in Text /\ b \in Text
  BY ScopeMarks
<1>2. ScopeOf(n) = (a \o n) \o b
  BY DEF ScopeOf
<1> HIDE DEF a, b
<1>3. (a \o n) \o b = a \o (n \o b) /\ n \o b \in Text
  <2>1. Assoc(a, n, b)
    BY <1>1, Associative, Zenon
  <2>2. n \o b \in Text
    BY <1>1, Closed, Zenon
  <2> QED
    BY <2>1, <2>2, Zenon DEF Assoc
<1> QED
  BY <1>2, <1>3 DEF a, b

\* The repo is set in front of the name in a scope.
LEMMA RepoInScope ==
  ASSUME NEW n \in Text, NEW r \in Text
  PROVE  Replace(ScopeOf(n), <<"repository:">>, <<"repository:">> \o r \o Slash)
           = ScopeOf(r \o Slash \o n)
<1> DEFINE a == <<"repository:">>  b == <<":pull">>
<1>1. a \in Text /\ b \in Text /\ Slash \in Text
  BY ScopeMarks, Marks
<1>2. ScopeOf(n) = a \o (n \o b) /\ n \o b \in Text
  BY ScopeFront
<1>3. ScopeOf(r \o Slash \o n) = (a \o (r \o Slash \o n)) \o b
  BY DEF ScopeOf
<1> HIDE DEF a, b
<1>4. a \o r \in Text /\ a \o r \o Slash \in Text /\ r \o Slash \in Text
  BY <1>1, Closed
<1>5. Replace(ScopeOf(n), a, a \o r \o Slash) = (a \o r \o Slash) \o (n \o b)
  <2> DEFINE new == a \o r \o Slash  rest == n \o b
  <2>1. new \in Text /\ rest \in Text /\ ScopeOf(n) = a \o rest
    BY <1>2, <1>4
  <2> HIDE DEF new, rest
  <2>2. Replace(a \o rest, a, new) = new \o rest
    <3>1. ReplacesFront(a, rest, new)
      BY <1>1, <2>1, ReplaceFront, Zenon
    <3> QED
      BY <3>1, Zenon DEF ReplacesFront
  <2> QED
    BY <2>1, <2>2 DEF new, rest
<1>6. a \o r \o Slash = a \o (r \o Slash)
  <2>1. Assoc(a, r, Slash)
    BY <1>1, Associative, Zenon
  <2> QED
    BY <2>1, Zenon DEF Assoc
<1> DEFINE f == r \o Slash
<1>7. f \in Text
  BY <1>4
<1> HIDE DEF f
<1>8. (a \o f) \o (n \o b) = (a \o (f \o n)) \o b
  <2>1. a \o f \in Text
    BY <1>1, <1>7, Closed
  <2>2. (a \o f) \o (n \o b) = ((a \o f) \o n) \o b
    <3>1. Assoc(a \o f, n, b)
      BY <1>1, <2>1, Associative, Zenon
    <3> QED
      BY <3>1, Zenon DEF Assoc
  <2>3. (a \o f) \o n = a \o (f \o n)
    <3>1. Assoc(a, f, n)
      BY <1>1, <1>7, Associative, Zenon
    <3> QED
      BY <3>1, Zenon DEF Assoc
  <2> QED
    BY <2>2, <2>3
<1>9. ScopeOf(r \o Slash \o n) = (a \o (f \o n)) \o b
  BY <1>3 DEF f
<1>10. Replace(ScopeOf(n), a, a \o r \o Slash) = (a \o f) \o (n \o b)
  BY <1>5, <1>6 DEF f
<1> QED
  BY <1>8, <1>9, <1>10 DEF a

\* The prefix at the front of the name goes from a scope.
LEMMA PrefixInScope ==
  ASSUME NEW d \in Text, d # Empty, \A i \in DOMAIN d : d[i] # "/", NEW n \in Text
  PROVE  Replace(ScopeOf(d \o Slash \o n), d \o Slash, Empty) = ScopeOf(n)
<1> DEFINE a == <<"repository:">>  b == <<":pull">>  old == d \o Slash  m == Len(d)
           name1 == old \o n
<1>1. a \in Text /\ b \in Text /\ Empty \in Text /\ n \o b \in Text
  BY ScopeMarks, ScopeFront DEF Empty, Text
<1>2. /\ old \in Text /\ m \in Nat \ {0} /\ Len(old) = m + 1
      /\ old[m + 1] = "/" /\ \A i \in 1..m : old[i] = d[i]
  BY PrefixMark, EmptySeq, LenProperties DEF Empty, Text
<1>3. d[m] # "/"
  BY <1>2 DEF Text
<1> HIDE DEF old, m
<1>4. /\ name1 \in Text /\ Len(name1) \in Nat /\ Len(name1) >= m + 1 /\ name1[m] = d[m]
  <2>1. /\ name1 \in Seq(Words) /\ Len(name1) = Len(old) + Len(n)
        /\ \A i \in 1..(Len(old) + Len(n)) :
             name1[i] = IF i <= Len(old) THEN old[i] ELSE n[i - Len(old)]
    <3>1. old \in Seq(Words) /\ n \in Seq(Words)
      BY <1>2 DEF Text
    <3> QED
      BY <3>1, ConcatProperties, Zenon
  <2>2. Len(n) \in Nat
    BY LenProperties DEF Text
  <2>3. m \in 1..(Len(old) + Len(n)) /\ m <= Len(old) /\ m \in 1..m
    BY <1>2, <2>2
  <2> HIDE DEF name1
  <2> QED
    BY <1>2, <2>1, <2>2, <2>3 DEF Text
<1> HIDE DEF name1
<1>5. /\ ScopeOf(name1) \in Text /\ Len(ScopeOf(name1)) = Len(name1) + 2
      /\ ScopeOf(name1)[1 + m] = name1[m]
  <2>1. m \in 1..Len(name1)
    BY <1>2, <1>4
  <2> QED
    BY <1>4, <2>1, ScopeWords
<1> DEFINE s == ScopeOf(name1)
<1>6. \A j \in At(s, old) : 1 < j
  <2> HIDE DEF s
  <2>1. \A j \in At(s, old) : j \in 1..(Len(s) - Len(old) + 1)
    BY DEF At
  <2>2. ASSUME 1 \in At(s, old) PROVE FALSE
    <3>1. s \in Text /\ 1 \in 1..(Len(s) - Len(old) + 1)
      BY <1>5, <2>1, <2>2 DEF s
    <3>2. \A j \in 1..Len(old) : s[1 + j - 1] = old[j]
      BY <1>2, <2>2, <3>1, AtIs, Zenon
    <3>3. m + 1 \in 1..Len(old) /\ 1 + (m + 1) - 1 = 1 + m
      BY <1>2
    <3>4. s[1 + (m + 1) - 1] = old[m + 1]
      BY <3>2, <3>3
    <3>5. s[1 + m] = d[m]
      BY <1>4, <1>5 DEF s
    <3> QED
      BY <1>2, <1>3, <3>3, <3>4, <3>5
  <2>3. \A j \in At(s, old) : j # 1
    BY <2>2
  <2>4. Len(s) - Len(old) + 1 \in Int
    BY <1>2, <1>4, <1>5 DEF s
  <2> QED
    BY <2>1, <2>3, <2>4
<1>7. s = a \o old \o (n \o b)
  <2>1. s = (a \o (old \o n)) \o b
    BY DEF s, ScopeOf, name1
  <2> HIDE DEF a, b, s
  <2>2. a \o old \in Text
    BY <1>1, <1>2, Closed
  <2>3. a \o (old \o n) = (a \o old) \o n
    <3>1. a \in Text /\ old \in Text /\ n \in Text
      BY <1>1, <1>2
    <3>2. Assoc(a, old, n)
      BY <3>1, Associative, Zenon
    <3> QED
      BY <3>2, Zenon DEF Assoc
  <2>4. ((a \o old) \o n) \o b = (a \o old) \o (n \o b)
    <3>1. Assoc(a \o old, n, b)
      BY <1>1, <2>2, Associative, Zenon
    <3> QED
      BY <3>1, Zenon DEF Assoc
  <2> QED
    BY <2>1, <2>3, <2>4
<1>8. Len(a) = 1
  OBVIOUS
<1> DEFINE rest == n \o b
<1> HIDE DEF s
<1>9. rest \in Text /\ s = a \o old \o rest
  BY <1>1, <1>7
<1> HIDE DEF a, rest
<1>10. Replace(a \o old \o rest, old, Empty) = a \o Empty \o rest
  <2>1. First(a, old, rest)
    BY <1>6, <1>8, <1>9 DEF First
  <2> QED
    <3>1. a \in Text /\ old \in Text /\ rest \in Text /\ Empty \in Text
      BY <1>1, <1>2, <1>9
    <3>2. Replaces(a, old, rest, Empty)
      BY <2>1, <3>1, ReplaceFirst, Zenon
    <3> QED
      BY <3>2, Zenon DEF Replaces
<1>11. a \o Empty = a
  BY <1>1, ConcatEmptySeq DEF Empty, Text
<1>12. Replace(s, old, Empty) = a \o rest
  BY <1>9, <1>10, <1>11
<1>13. ScopeOf(n) = a \o rest
  BY ScopeFront DEF a, rest
<1> QED
  BY <1>12, <1>13 DEF s, old, name1

\* A scope with the prefix at the front of its name holds the prefix.
LEMMA PrefixHeld ==
  ASSUME NEW d \in Text, NEW n \in Text
  PROVE  Holds(ScopeOf(d \o Slash \o n), d \o Slash)
<1> DEFINE u == d \o Slash \o n  old == d \o Slash  s == ScopeOf(u)
<1>1. /\ u \in Text /\ Len(d) \in Nat /\ Len(n) \in Nat /\ Len(u) = Len(d) + 1 + Len(n)
      /\ \A i \in 1..Len(d) : u[i] = d[i]
      /\ u[Len(d) + 1] = "/"
  BY Between
<1>2. /\ old \in Text /\ Len(old) = Len(d) + 1
      /\ old[Len(d) + 1] = "/" /\ \A i \in 1..Len(d) : old[i] = d[i]
  BY PrefixMark
<1> HIDE DEF u, old
<1>3. /\ s \in Text /\ Len(s) = Len(u) + 2 /\ \A i \in 1..Len(u) : s[1 + i] = u[i]
  BY <1>1, ScopeWords
<1> HIDE DEF s
<1>4. 2 \in 1..(Len(s) - Len(old) + 1)
  BY <1>1, <1>2, <1>3
<1>5. ASSUME NEW j \in 1..Len(old) PROVE s[2 + j - 1] = old[j]
  <2>1. j \in 1..Len(u) /\ 2 + j - 1 = 1 + j
    BY <1>1, <1>2
  <2>2. s[1 + j] = u[j]
    BY <1>3, <2>1
  <2>3. j \in 1..Len(d) \/ j = Len(d) + 1
    BY <1>1, <1>2
  <2>4. u[j] = old[j]
    BY <1>1, <1>2, <2>3
  <2> QED
    BY <2>1, <2>2, <2>4
<1>6. 2 \in At(s, old)
  BY <1>2, <1>3, <1>4, <1>5, AtIs
<1> QED
  BY <1>6 DEF Holds, s, u, old

\* PrefixOnce and Accepted for any name and flags.
Fitting(c, plain, n) ==
  /\ n # c.prefix
  /\ \A i \in DOMAIN c.prefix : c.prefix[i] # "/"
  /\ plain /\ c.prefix # Empty => ~Holds(ScopeOf(n), c.prefix \o Slash)

\* A client's own token is one for upstream's name.
LEMMA TokenScopeIs ==
  ASSUME NEW c, NEW plain \in BOOLEAN, NEW n \in Text, NEW k \in Kinds,
         c.repo \in Text, c.prefix \in Text, Fitting(c, plain, n),
         Accepted(c, plain, PathOf(n, k, Ref))
  PROVE  TokenScope(c, ScopeOf(n)) = ScopeOf(UpName(c, plain, n))
<1> DEFINE below == Below(c, plain, n)
           own == IF c.prefix # Empty THEN Replace(ScopeOf(n), c.prefix \o Slash, Empty)
                  ELSE ScopeOf(n)
<1>1. Apart(c, n, k)
  BY DEF Apart, Fitting
<1>2. below \in Text
  BY <1>1, UpstreamIs
<1>3. own = ScopeOf(below)
  <2>1. CASE c.prefix # Empty /\ ~plain
    <3>1. n = c.prefix \o Slash \o below
      BY <1>1, <2>1, BelowIs
    <3>2. own = Replace(ScopeOf(n), c.prefix \o Slash, Empty)
      BY <2>1
    <3> HIDE DEF below, own
    <3>3. Replace(ScopeOf(c.prefix \o Slash \o below), c.prefix \o Slash, Empty) = ScopeOf(below)
      BY <1>2, <2>1, PrefixInScope DEF Fitting
    <3> QED
      BY <3>1, <3>2, <3>3
  <2>2. CASE c.prefix # Empty /\ plain
    <3>1. ~Holds(ScopeOf(n), c.prefix \o Slash)
      BY <2>2 DEF Fitting
    <3>2. Replace(ScopeOf(n), c.prefix \o Slash, Empty) = ScopeOf(n)
      BY <3>1 DEF Replace
    <3> QED
      BY <2>2, <3>2 DEF Below
  <2>3. CASE c.prefix = Empty
    BY <2>3 DEF Below
  <2> QED
    BY <2>1, <2>2, <2>3
<1> HIDE DEF below
<1>4. c.repo # Empty =>
        Replace(ScopeOf(below), <<"repository:">>, <<"repository:">> \o c.repo \o Slash)
          = ScopeOf(c.repo \o Slash \o below)
  BY <1>2, RepoInScope
<1>5. TokenScope(c, ScopeOf(n)) =
        IF c.repo # Empty
        THEN Replace(own, <<"repository:">>, <<"repository:">> \o c.repo \o Slash) ELSE own
  BY DEF TokenScope
<1> HIDE DEF own
<1> QED
  BY <1>3, <1>4, <1>5 DEF UpName, below

\* So is the token that proxy fetches for a path.
LEMMA GetTokenScopeIs ==
  ASSUME NEW c, NEW plain \in BOOLEAN, NEW n \in Text, NEW k \in Kinds,
         c.repo \in Text, c.prefix \in Text, Fitting(c, plain, n),
         Accepted(c, plain, PathOf(n, k, Ref))
  PROVE  GetTokenScope(c, PathOf(n, k, Ref)) = ScopeOf(UpName(c, plain, n))
<1> DEFINE below == Below(c, plain, n)
           parts == Split(n)
           own == IF c.prefix # Empty /\ parts[1] = c.prefix THEN Tail(parts) ELSE parts
<1>1. Apart(c, n, k)
  BY DEF Apart, Fitting
<1>2. below \in Text
  BY <1>1, UpstreamIs
<1>3. /\ parts \in Parts /\ parts \in Seq(Text) /\ parts # << >>
      /\ Join(parts) = n /\ Len(parts) \in Nat
  <2>1. parts \in Parts
    BY SplitConcat
  <2> QED
    BY <2>1, JoinSplit, LenProperties DEF Parts
<1>4. own \in Parts /\ Join(own) = below
  <2>1. CASE c.prefix # Empty /\ ~plain
    <3>1. n = c.prefix \o Slash \o below
      BY <1>1, <2>1, BelowIs
    <3> HIDE DEF below
    <3>2. Split(c.prefix) = <<c.prefix>>
      <4>1. \A i \in 1..Len(c.prefix) : c.prefix[i] # "/"
        BY DEF Fitting, Text
      <4> QED
        BY <4>1, SplitOne
    <3>3. parts = <<c.prefix>> \o Split(below) /\ Split(below) \in Parts
      BY <1>2, <3>1, <3>2, SplitConcat
    <3> DEFINE q == Split(below)
    <3>4. q \in Seq(Text) /\ q \in Parts /\ parts = <<c.prefix>> \o q
      BY <3>3 DEF Parts
    <3>5. Join(q) = below
      BY <1>2, JoinSplit
    <3> HIDE DEF q, parts
    <3>6. parts[1] = c.prefix /\ Tail(parts) = q
      BY <3>4, FrontTail
    <3> QED
      BY <2>1, <3>4, <3>5, <3>6
  <2>2. CASE c.prefix # Empty /\ plain
    <3>1. below = n
      BY <2>2 DEF Below
    <3>2. ASSUME parts[1] = c.prefix PROVE FALSE
      <4> DEFINE q == Tail(parts)
      <4> HIDE DEF parts
      <4>1. q \in Seq(Text) /\ parts = <<c.prefix>> \o q
        BY <1>3, <3>2, FrontAndTail
      <4> HIDE DEF q
      <4>2. CASE q = << >>
        <5>1. parts = <<c.prefix>>
          BY <4>1, <4>2, ConcatEmptySeq
        <5>2. n = c.prefix
          BY <1>3, <5>1, JoinOne
        <5> QED
          BY <5>2 DEF Fitting
      <4>3. CASE q # << >>
        <5>1. q \in Parts
          BY <4>1, <4>3 DEF Parts
        <5>2. n = c.prefix \o Slash \o Join(q) /\ Join(q) \in Text
          BY <1>3, <4>1, <5>1, JoinCons, JoinTyped
        <5>3. Holds(ScopeOf(n), c.prefix \o Slash)
          BY <5>2, PrefixHeld
        <5> QED
          BY <2>2, <5>3 DEF Fitting
      <4> QED
        BY <4>2, <4>3
    <3> HIDE DEF parts
    <3> QED
      BY <1>3, <3>1, <3>2
  <2>3. CASE c.prefix = Empty
    <3>1. below = n
      BY <2>3 DEF Below
    <3> HIDE DEF parts
    <3> QED
      BY <1>3, <2>3, <3>1
  <2> QED
    BY <2>1, <2>2, <2>3
<1>5. GetTokenScope(c, PathOf(n, k, Ref)) =
        ScopeOf(Join(IF c.repo # Empty THEN <<c.repo>> \o own ELSE own))
  <2> DEFINE split == Split(PathOf(n, k, Ref))  found == SubSeq(split, 3, Len(split) - 2)
  <2>1. found = parts
    BY NameParts
  <2>2. GetTokenScope(c, PathOf(n, k, Ref)) =
          ScopeOf(Join(IF c.repo # Empty
                       THEN <<c.repo>> \o (IF c.prefix # Empty /\ found[1] = c.prefix
                                           THEN Tail(found) ELSE found)
                       ELSE (IF c.prefix # Empty /\ found[1] = c.prefix
                             THEN Tail(found) ELSE found)))
    BY DEF GetTokenScope
  <2> HIDE DEF found, parts
  <2> QED
    BY <2>1, <2>2
<1> HIDE DEF own, below
<1>6. c.repo # Empty => Join(<<c.repo>> \o own) = c.repo \o Slash \o below
  BY <1>4, JoinCons
<1> QED
  BY <1>4, <1>5, <1>6 DEF UpName, below

\* getToken's scope is one.
LEMMA ScopeTyped ==
  ASSUME NEW c, NEW plain \in BOOLEAN, NEW n \in Text, NEW k \in Kinds,
         c.repo \in Text, c.prefix \in Text
  PROVE  GetTokenScope(c, PathOf(n, k, Ref)) # None
<1> DEFINE split == Split(PathOf(n, k, Ref))
           parts == SubSeq(split, 3, Len(split) - 2)
           own == IF c.prefix # Empty /\ parts[1] = c.prefix THEN Tail(parts) ELSE parts
           all == IF c.repo # Empty THEN <<c.repo>> \o own ELSE own
<1>1. GetTokenScope(c, PathOf(n, k, Ref)) = ScopeOf(Join(all))
  BY DEF GetTokenScope
<1>2. parts \in Seq(Text) /\ parts # <<>>
  <2>1. parts = Split(n)
    BY NameParts
  <2> QED
    BY <2>1, SplitConcat DEF Parts
<1> HIDE DEF parts
<1>3. own \in Seq(Text)
  BY <1>2, HeadTailProperties
<1> HIDE DEF own
<1>4. all \in Seq(Text)
  <2>1. <<c.repo>> \in Seq(Text)
    OBVIOUS
  <2> QED
    BY <1>3, <2>1, ConcatProperties
<1> HIDE DEF all
<1>5. Join(all) \in Text
  BY <1>4, JoinTyped
<1> DEFINE j == Join(all)
<1>6. Len(ScopeOf(j)) = Len(j) + 2 /\ Len(j) \in Nat
  <2> HIDE DEF j
  <2> QED
    BY <1>5, ScopeWords DEF j
<1>7. Len(None) = 1
  BY DEF None
<1> QED
  BY <1>1, <1>6, <1>7

-----------------------------------------------------------------------------
(* Names of lists.                                                         *)

\* A tag list's name has the repo taken off.
LEMMA NameIs ==
  ASSUME NEW c, NEW n \in Text, NEW m \in Text, c.repo \in Text
  PROVE  RewriteName(c, PathOf(m, "tags", Ref), IF c.repo # Empty THEN c.repo \o Slash \o n ELSE n) = n
<1> DEFINE p == PathOf(m, "tags", Ref)
<1>1. CASE c.repo = Empty
  BY <1>1 DEF RewriteName, DecodedAsList
<1>2. CASE c.repo # Empty
  <2>1. Holds(p, TagsList)
    <3>1. "tags" \in Kinds /\ TagsList = Rest("tags")
      BY DEF Kinds, TagsList, Rest, End
    <3>2. /\ p \in Text /\ Len(m) \in Nat /\ Len(p) = Len(m) + 7
          /\ \A i \in 1..4 : p[3 + Len(m) + i] = TagsList[i]
      BY <3>1, PathWords
    <3>3. TagsList \in Text /\ Len(TagsList) = 4
      BY <3>1, RestIs
    <3> HIDE DEF p
    <3>4. Len(m) + 4 \in 1..(Len(p) - Len(TagsList) + 1)
      BY <3>2, <3>3
    <3>5. ASSUME NEW j \in 1..Len(TagsList) PROVE p[Len(m) + 4 + j - 1] = TagsList[j]
      <4>1. j \in 1..4 /\ Len(m) + 4 + j - 1 = 3 + Len(m) + j
        BY <3>2, <3>3
      <4> QED
        BY <3>2, <4>1
    <3>6. Len(m) + 4 \in At(p, TagsList)
      BY <3>2, <3>3, <3>4, <3>5, AtIs
    <3> QED
      BY <3>6 DEF Holds
  <2>2. Replace(c.repo \o Slash \o n, c.repo \o Slash, Empty) = Empty \o n
    <3>1. c.repo \o Slash \in Text /\ Empty \in Text
      BY Marks, Closed DEF Empty, Text
    <3>2. ReplacesFront(c.repo \o Slash, n, Empty)
      BY <3>1, ReplaceFront, Zenon
    <3> QED
      BY <3>2, Zenon DEF ReplacesFront
  <2>3. Empty \o n = n
    BY ConcatEmptySeq DEF Empty, Text
  <2> QED
    BY <1>2, <2>1, <2>2, <2>3 DEF RewriteName, DecodedAsList
<1> QED
  BY <1>1, <1>2

-----------------------------------------------------------------------------
(* The inductive invariant.                                                *)

Configured ==
  /\ config \in [repo : RepoFlags, prefix : PrefixFlags, plain : BOOLEAN]
  /\ name \in Names

\* Flags and names are strings.
LEMMA Flags ==
  ASSUME Configured
  PROVE  config.repo \in Text /\ config.prefix \in Text /\ config.plain \in BOOLEAN /\ name \in Text
<1>1. \A s \in Seq(STRING) : s \in Seq(Words)
  <2> SUFFICES ASSUME NEW s \in Seq(STRING) PROVE s \in Seq(Words)
    OBVIOUS
  <2>1. \A i \in 1..Len(s) : s[i] \in Words
    BY ElementOfSeq DEF Words
  <2>2. s = [i \in 1..Len(s) |-> s[i]] /\ Len(s) \in Nat
    OBVIOUS
  <2> QED
    BY <2>1, <2>2
<1> QED
  BY <1>1, SessionAssumption DEF Configured, Text

\* Where a session is, what it asks for and which page it is on.
Shape ==
  /\ Configured
  /\ pc \in {"ready", "sent", "answered", "moved", "missing", "unrouted", "refused",
            "undecodable"}
  /\ kind \in Kinds /\ page \in 0..Pages
  /\ pc = "unrouted" => page > 1

\* Served requests are for the paths of the name, be they asked for or followed.
Asked ==
  pc \in {"sent", "answered"} =>
    /\ path = PathOf(name, kind, Ref)
    /\ Clean(path) /\ Accepted(config, config.plain, path)
    /\ upPath = UpstreamPath(config, config.plain, path)
    /\ kind = "tags" => page > 0

\* Scopes come from /token or from the path.
Scoped ==
  /\ token \in {None, TokenScope(config, ScopeOf(name))}
  /\ pc = "sent" =>
       /\ upScope \in {TokenScope(config, ScopeOf(name)), GetTokenScope(config, path)}
       /\ upScope # None

Linked ==
  next # None =>
    /\ pc = "answered" /\ kind = "tags" /\ page < Pages
    /\ next = RewriteLink(config, config.plain, upPath)

NameGiven ==
  pc = "answered" /\ kind = "tags" =>
    listed = RewriteName(config, path, UpstreamRepo(kind, upPath))

IInv == Shape /\ Asked /\ Scoped /\ Linked /\ NameGiven

\* A session starts with it.
LEMMA AtStart == Init => IInv
<1>1. Pages \in Nat /\ 0 \in 0..Pages
  BY SessionAssumption
<1>2. "manifests" \in Kinds
  BY DEF Kinds
<1> QED
  BY <1>1, <1>2 DEF Init, IInv, Shape, Configured, Asked, Scoped, Linked, NameGiven

\* What a request for a path of the name comes to.
LEMMA Sends ==
  ASSUME IInv, NEW k \in Kinds, Send(k, PathOf(name, k, Ref)), UNCHANGED <<config, name, token>>,
         page' \in 0..Pages, k = "tags" => page' > 0, next' = None
  PROVE  IInv'
<1> DEFINE p == PathOf(name, k, Ref)
<1>1. Routed(p)
  BY Flags, PathRouted DEF IInv, Shape
<1>2. GetTokenScope(config, p) # None
  BY Flags, ScopeTyped DEF IInv, Shape
<1>3. kind' = k /\ path' = p /\ pc' \in {"moved", "missing", "sent"}
  BY <1>1 DEF Send
<1> HIDE DEF p
<1>4. ASSUME pc' = "sent"
      PROVE  /\ Clean(p) /\ Accepted(config, config.plain, p)
             /\ upPath' = UpstreamPath(config, config.plain, p)
             /\ upScope' = IF token # None THEN token ELSE GetTokenScope(config, p)
  BY <1>4 DEF Send, p
<1>5. Shape'
  BY <1>3 DEF IInv, Shape, Configured
<1>6. Asked'
  BY <1>3, <1>4 DEF Asked, p
<1>7. Scoped'
  <2>1. token' \in {None, TokenScope(config', ScopeOf(name'))}
    BY DEF IInv, Scoped
  <2>2. ASSUME pc' = "sent"
        PROVE  /\ upScope' \in {TokenScope(config', ScopeOf(name')), GetTokenScope(config', path')}
               /\ upScope' # None
    BY <1>2, <1>3, <1>4, <2>1, <2>2
  <2> QED
    BY <2>1, <2>2 DEF Scoped
<1>8. Linked' /\ NameGiven'
  BY <1>3 DEF Linked, NameGiven
<1> QED
  BY <1>5, <1>6, <1>7, <1>8 DEF IInv

\* A Link is the path of the page it was given with, or leads nowhere.
LEMMA LinkIs ==
  ASSUME IInv, next # None
  PROVE  /\ IsPrefix(V2, path) /\ path \in Text
         /\ config.repo # Empty => next = path
         /\ config.repo = Empty => ~(Routed(next) /\ Accepted(config, config.plain, next))
<1>1. /\ kind = "tags" /\ path = PathOf(name, kind, Ref)
      /\ Clean(path) /\ Accepted(config, config.plain, path)
      /\ next = RewriteLink(config, config.plain, UpstreamPath(config, config.plain, path))
  BY DEF IInv, Linked, Asked
<1>2. kind \in Kinds /\ Configured
  BY DEF IInv, Shape
<1>3. IsPrefix(V2, path) /\ path \in Text
  BY <1>1, <1>2, Flags, OwnIs, PathIs
<1>4. config.repo # Empty => next = path
  BY <1>1, <1>2, <1>3, Flags, LinkReturns
<1>5. config.repo = Empty => ~(Routed(next) /\ Accepted(config, config.plain, next))
  BY <1>1, <1>2, <1>3, Flags, LeadsNowhere
<1> QED
  BY <1>3, <1>4, <1>5

\* Every step keeps it.
LEMMA Step == IInv /\ [Next]_vars => IInv'
<1> SUFFICES ASSUME IInv, [Next]_vars PROVE IInv'
  OBVIOUS
<1>1. Pages \in Nat \ {0}
  BY SessionAssumption
<1>2. CASE GetToken
  BY <1>2 DEF GetToken, IInv, Shape, Configured, Asked, Scoped, Linked, NameGiven
<1>3. ASSUME NEW k \in Kinds, Ask(k) PROVE IInv'
  <2>1. page' \in 0..Pages /\ (k = "tags" => page' > 0)
    BY <1>1, <1>3 DEF Ask
  <2>2. next' = None
    BY <1>3 DEF Ask, IInv, Linked
  <2> QED
    BY <1>3, <2>1, <2>2, Sends DEF Ask
<1>4. CASE Follow
  <2>1. /\ pc = "answered" /\ kind = "tags" /\ page \in 0..Pages /\ page < Pages /\ page > 0
        /\ path = PathOf(name, kind, Ref)
    BY <1>4 DEF Follow, IInv, Linked, Shape, Asked
  <2>2. page' \in 0..Pages /\ page' > 1
    BY <1>1, <1>4, <2>1 DEF Follow
  <2>3. CASE config.repo # Empty
    <3>1. next = PathOf(name, "tags", Ref) /\ "tags" \in Kinds
      BY <1>4, <2>1, <2>3, LinkIs DEF Follow, Kinds
    <3>2. Send("tags", PathOf(name, "tags", Ref)) /\ UNCHANGED <<config, name, token>> /\ next' = None
      BY <1>4, <3>1 DEF Follow
    <3>3. page' > 0
      BY <2>2
    <3> QED
      BY <2>2, <3>1, <3>2, <3>3, Sends
  <2>4. CASE config.repo = Empty
    <3>1. ~(Routed(next) /\ Accepted(config, config.plain, next))
      BY <1>4, <2>4, LinkIs DEF Follow
    <3>2. pc' \in {"moved", "unrouted", "missing"} /\ kind' = "tags"
      BY <1>4, <3>1 DEF Follow, Send
    <3>3. UNCHANGED <<config, name, token>> /\ next' = None
      BY <1>4 DEF Follow
    <3> QED
      BY <2>2, <3>2, <3>3
         DEF IInv, Shape, Configured, Asked, Scoped, Linked, NameGiven, Kinds
  <2> QED
    BY <2>3, <2>4
<1>5. CASE Again
  BY <1>1, <1>5 DEF Again, IInv, Shape, Configured, Asked, Scoped, Linked, NameGiven
<1>6. CASE Refuse \/ Undecodable
  BY <1>6 DEF Refuse, Undecodable, IInv, Shape, Configured, Asked, Scoped, Linked, NameGiven
<1>7. CASE Relay
  BY <1>7 DEF Relay, IInv, Shape, Configured, Asked, Scoped, Linked, NameGiven
<1>8. CASE RelayPage
  BY <1>8 DEF RelayPage, IInv, Shape, Configured, Asked, Scoped, Linked, NameGiven
<1>9. CASE UNCHANGED vars
  BY <1>9 DEF vars, IInv, Shape, Configured, Asked, Scoped, Linked, NameGiven
<1> QED
  BY <1>2, <1>3, <1>4, <1>5, <1>6, <1>7, <1>8, <1>9 DEF Next

\* It holds throughout.
LEMMA Invariance == Spec => []IInv
  BY AtStart, Step, PTL DEF Spec

-----------------------------------------------------------------------------
(* The theorems.                                                           *)

\* The path upstream has the repo in front.
LEMMA RepoInFront ==
  ASSUME IInv, pc = "sent"
  PROVE  IsPrefix(V2 \o config.repo, upPath)
<1> DEFINE plain == config.plain  own == TrimPrefix(path, V2)
           mark == V2 \o config.repo
           below == IF config.prefix # Empty /\ ~plain
                    THEN TrimPrefix(own, config.prefix \o Slash) ELSE own
<1>1. /\ path = PathOf(name, kind, Ref) /\ Accepted(config, plain, path)
      /\ upPath = UpstreamPath(config, plain, path) /\ kind \in Kinds /\ Configured
  BY DEF IInv, Shape, Asked
<1>2. own \in Text
  BY <1>1, Flags, OwnIs
<1>3. below \in Text
  <2>1. CASE config.prefix # Empty /\ ~plain
    <3>1. IsPrefix(config.prefix \o Slash, own) /\ config.prefix \o Slash \in Text
      BY <1>1, <2>1, Flags, Marks, Closed DEF Accepted
    <3> HIDE DEF own
    <3> QED
      BY <1>2, <2>1, <3>1, ConcatAfterTrim
  <2>2. CASE ~(config.prefix # Empty /\ ~plain)
    BY <1>2, <2>2
  <2> QED
    BY <2>1, <2>2
<1>4. upPath = V2 \o (IF config.repo # Empty THEN config.repo \o Slash ELSE Empty) \o below
  BY <1>1 DEF UpstreamPath
<1> HIDE DEF below
<1>5. \E rest \in Text : upPath = mark \o rest
  <2>1. V2 \in Text /\ Slash \in Text /\ config.repo \in Text
    BY <1>1, Marks, Flags
  <2>2. CASE config.repo # Empty
    <3>1. upPath = V2 \o (config.repo \o Slash) \o below
      BY <1>4, <2>2
    <3>2. V2 \o (config.repo \o Slash) = mark \o Slash /\ mark \in Text
      <4>1. Assoc(V2, config.repo, Slash)
        BY <2>1, Associative, Zenon
      <4>2. mark \in Text
        BY <2>1, Closed, Zenon DEF mark
      <4> QED
        BY <4>1, <4>2, Zenon DEF Assoc, mark
    <3>3. (mark \o Slash) \o below = mark \o (Slash \o below) /\ Slash \o below \in Text
      <4> HIDE DEF mark
      <4> QED
        <5>1. Assoc(mark, Slash, below)
          BY <1>3, <2>1, <3>2, Associative, Zenon
        <5>2. Slash \o below \in Text
          BY <1>3, <2>1, Closed, Zenon
        <5> QED
          BY <5>1, <5>2, Zenon DEF Assoc
    <3> QED
      BY <3>1, <3>2, <3>3, Zenon
  <2>3. CASE config.repo = Empty
    <3>1. V2 \o Empty = V2
      BY <2>1, ConcatEmptySeq DEF Empty, Text
    <3> QED
      BY <1>3, <1>4, <2>3, <3>1
  <2> QED
    BY <2>2, <2>3
<1>6. mark \in Text
  BY <1>1, Marks, Flags, Closed
<1> HIDE DEF mark
<1>7. IsPrefix(mark, upPath)
  BY <1>5, <1>6, TrimAfterConcat
<1> QED
  BY <1>7 DEF mark

\* A session's variables are what they are meant to be; what is sent upstream is
\* below the repo and has a scope; and only a Link leads to a path without a route.
THEOREM TypeCorrect == Spec => []TypeOK
<1>1. IInv => TypeOK
  BY RepoInFront DEF TypeOK, IInv, Shape, Configured, Scoped, Linked
<1> QED
  BY <1>1, Invariance, PTL

\* Whatever the flags, the host and the repository's name are, a client that
\* follows the Links it is given asks upstream for the list it began with, if
\* the redirector has a repo.
THEOREM RepoLinkCorrect == Spec => []RepoLinkLeadsOn
<1>1. IInv => RepoLinkLeadsOn
  <2> SUFFICES ASSUME IInv, config.repo # Empty, next # None
               PROVE  /\ Clean(next) /\ Routed(next) /\ Accepted(config, config.plain, next)
                      /\ UpstreamPath(config, config.plain, next) = upPath
    BY DEF RepoLinkLeadsOn, LinkLeadsOn
  <2>1. next = path
    BY LinkIs
  <2>2. /\ path = PathOf(name, kind, Ref) /\ Clean(path) /\ Accepted(config, config.plain, path)
        /\ upPath = UpstreamPath(config, config.plain, path) /\ kind \in Kinds /\ Configured
    BY DEF IInv, Linked, Asked, Shape
  <2>3. Routed(path)
    BY <2>2, Flags, PathRouted
  <2> QED
    BY <2>1, <2>2, <2>3
<1> QED
  BY <1>1, Invariance, PTL

\* Plain paths name what upstream does, behind the repo.
LEMMA PlainName ==
  ASSUME IInv, pc \in {"sent", "answered"}, PathIsPlain
  PROVE  UpstreamRepo(kind, upPath)
           = IF config.repo # Empty THEN config.repo \o Slash \o name ELSE name
<1>1. /\ path = PathOf(name, kind, Ref) /\ Accepted(config, config.plain, path)
      /\ upPath = UpstreamPath(config, config.plain, path) /\ kind \in Kinds /\ Configured
  BY DEF IInv, Asked, Shape
<1>2. Below(config, config.plain, name) = name
  BY DEF PathIsPlain, Below
<1>3. ~(config.prefix # Empty /\ ~config.plain)
  BY DEF PathIsPlain
<1>4. /\ UpName(config, config.plain, name) \in Text
      /\ upPath = PathOf(UpName(config, config.plain, name), kind, Ref)
  BY <1>1, <1>3, Flags, UpstreamIs
<1>5. UpstreamRepo(kind, upPath) = UpName(config, config.plain, name)
  BY <1>1, <1>4, UpstreamRepoIs
<1> QED
  BY <1>2, <1>5 DEF UpName

\* On a host without a prefix, the list of a repository's tags bears the name the
\* client asked for, whatever parts of the name or the repo recur in one another.
THEOREM ListedCorrect == Spec => []ListedName
<1>1. IInv => ListedName
  <2> SUFFICES ASSUME IInv, pc = "answered", kind = "tags", PathIsPlain PROVE listed = name
    BY DEF ListedName
  <2>1. listed = RewriteName(config, path, UpstreamRepo(kind, upPath)) /\ Configured
        /\ path = PathOf(name, "tags", Ref)
    BY DEF IInv, NameGiven, Asked, Shape
  <2>2. UpstreamRepo(kind, upPath)
          = IF config.repo # Empty THEN config.repo \o Slash \o name ELSE name
    BY PlainName
  <2> QED
    BY <2>1, <2>2, Flags, NameIs
<1> QED
  BY <1>1, Invariance, PTL

\* Whatever parts the name has, if the API's own words are not among them, the
\* limiter, the caches, the relaying of bodies and the metrics take a path for
\* what it is.
THEOREM SameKindCorrect == Spec => []SameKind
<1>1. IInv => SameKind
  <2> SUFFICES ASSUME IInv, pc \in {"sent", "answered"}, Proper, Unreserved
               PROVE  /\ IsBlobRequest(path) <=> kind = "blobs"
                      /\ BodyRelayed(path) <=> kind # "blobs"
                      /\ \A k \in {"manifests", "blobs"} : MaybeCached(path, k) <=> kind = k
                      /\ DecodedAsList(config, path) => kind = "tags"
                      /\ Counted => MetricPath(path) = kind
                      /\ BackendOperation(upPath) = kind
    BY DEF SameKind
  <2>1. /\ path = PathOf(name, kind, Ref) /\ Accepted(config, config.plain, path)
        /\ upPath = UpstreamPath(config, config.plain, path) /\ kind \in Kinds /\ Configured
    BY DEF IInv, Asked, Shape
  <2>2. config.repo \in Text /\ config.prefix \in Text /\ config.plain \in BOOLEAN /\ name \in Text
    BY <2>1, Flags
  <2>3. Free(name) /\ Free(config.repo) /\ Free(config.prefix)
    BY DEF Unreserved, Free, Reserved
  <2>4. IsBlobRequest(path) <=> kind = "blobs"
    BY <2>1, <2>2, <2>3, BlobRequestIs
  <2>5. BodyRelayed(path) <=> kind # "blobs"
    BY <2>1, <2>2, BodyRelayedIs
  <2>6. \A k \in {"manifests", "blobs"} : MaybeCached(path, k) <=> kind = k
    BY <2>1, <2>2, <2>3, MaybeCachedIs
  <2>7. DecodedAsList(config, path) => kind = "tags"
    BY <2>1, <2>2, <2>3, DecodedIs
  <2>8. Counted => MetricPath(path) = kind
    BY <2>1, <2>2, <2>3, MetricPathIs DEF Counted
  <2>9. BackendOperation(upPath) = kind
    BY <2>1, <2>2, <2>3, UpstreamKind, BackendOperationIs DEF Proper
  <2> QED
    BY <2>4, <2>5, <2>6, <2>7, <2>8, <2>9
<1> QED
  BY <1>1, Invariance, PTL

\* A request goes upstream with a token for the repository that its path names
\* there, whether the client asked /token or proxy fetched it: rewriting a scope
\* by its first occurrence, a path by its prefix and a name by its parts agree as
\* long as the prefix is one part and occurs once.
THEOREM TokenFitsCorrect == Spec => []TokenFits
<1>1. IInv => TokenFits
  <2> SUFFICES ASSUME IInv, pc = "sent", PrefixOnce
               PROVE  upScope = ScopeOf(UpstreamRepo(kind, upPath))
    BY DEF TokenFits
  <2> DEFINE plain == config.plain  up == UpName(config, plain, name)
  <2>1. /\ path = PathOf(name, kind, Ref) /\ Accepted(config, plain, path)
        /\ upPath = UpstreamPath(config, plain, path) /\ kind \in Kinds /\ Configured
        /\ upScope \in {TokenScope(config, ScopeOf(name)), GetTokenScope(config, path)}
    BY DEF IInv, Asked, Scoped, Shape
  <2>2. config.repo \in Text /\ config.prefix \in Text /\ plain \in BOOLEAN /\ name \in Text
    BY <2>1, Flags
  <2>3. Fitting(config, plain, name) /\ Apart(config, name, kind)
    BY DEF PrefixOnce, Proper, Fitting, Apart
  <2>4. up \in Text /\ upPath = PathOf(up, kind, Ref)
    BY <2>1, <2>2, <2>3, UpstreamIs
  <2>5. UpstreamRepo(kind, upPath) = up
    BY <2>1, <2>4, UpstreamRepoIs
  <2>6. upScope = ScopeOf(up)
    BY <2>1, <2>2, <2>3, TokenScopeIs, GetTokenScopeIs
  <2> QED
    BY <2>5, <2>6
<1> QED
  BY <1>1, Invariance, PTL
=============================================================================
