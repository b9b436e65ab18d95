----------------------------- MODULE CardProofs -----------------------------
(***************************************************************************)
(* Proofs about the conversions of texts and about Cards: texts of any     *)
(* length with any lines, any number of clients of either dialect, any     *)
(* number of edits.                                                        *)
(***************************************************************************)
EXTENDS Cards, SequenceTheorems, WellFoundedInduction, TLAPS

-----------------------------------------------------------------------------
(* Induction over numbers and over sequences, as facts about sets. *)

LEMMA Least ==
    ASSUME NEW T, T \subseteq Nat, T # {}
    PROVE  \E x \in T : \A y \in T : ~ (y < x)
<1>1. IsWellFoundedOn(OpToRel(<, Nat), Nat)
  BY NatLessThanWellFounded
<1>2. PICK x \in T : \A y \in T : <<y, x>> \notin OpToRel(<, Nat)
  <2> DEFINE R == OpToRel(<, Nat)
  <2>1. IsWellFoundedOn(R, Nat)
    BY <1>1
  <2> HIDE DEF R
  <2>2. \E x \in T : \A y \in T : ~ (<<y, x>> \in R)
    BY <2>1, WFMin
  <2>3. QED
    BY <2>2 DEF R
<1>3. \A y \in T : y < x => <<y, x>> \in OpToRel(<, Nat)
  BY DEF OpToRel
<1>4. QED
  BY <1>2, <1>3

LEMMA NatInduct ==
    ASSUME NEW T, 0 \in T, \A n \in Nat : n \in T => n + 1 \in T
    PROVE  Nat \subseteq T
<1>1. SUFFICES ASSUME Nat \ T # {}
               PROVE  FALSE
  OBVIOUS
<1>2. PICK x \in Nat \ T : \A y \in Nat \ T : ~ (y < x)
  BY <1>1, Least
<1>3. x # 0 /\ x - 1 \in Nat /\ x - 1 < x /\ (x - 1) + 1 = x
  BY <1>2
<1>4. QED
  BY <1>2, <1>3

(* What holds of the empty sequence and is kept by Append holds of all. *)
LEMMA SeqInduct ==
    ASSUME NEW S, NEW T, <<>> \in T,
           \A s \in Seq(S), e \in S : s \in T => Append(s, e) \in T
    PROVE  Seq(S) \subseteq T
<1> DEFINE P == {n \in Nat : \A s \in Seq(S) : Len(s) = n => s \in T}
<1>1. 0 \in P
  BY EmptySeq
<1>2. \A n \in Nat : n \in P => n + 1 \in P
  <2>1. SUFFICES ASSUME NEW n \in P, NEW s \in Seq(S), Len(s) = n + 1
                 PROVE  s \in T
    OBVIOUS
  <2>2. PICK r \in Seq(S), e \in S : s = Append(r, e)
    BY <2>1, EmptySeq, SequenceEmptyOrAppend
  <2>3. Len(r) = n
    BY <2>1, <2>2, AppendProperties, LenProperties
  <2>4. QED
    BY <2>1, <2>2, <2>3
<1>3. Nat \subseteq P
  BY <1>1, <1>2, NatInduct
<1>4. QED
  BY <1>3, LenProperties

-----------------------------------------------------------------------------
(* Without *)

KeptUpTo(seq, dropped, f, n) ==
    f = [k \in 0..n |-> IF k = 0 THEN <<>>
                        ELSE IF seq[k] \in dropped THEN f[k - 1]
                        ELSE Append(f[k - 1], seq[k])]

LEMMA KeptExists ==
    ASSUME NEW seq, NEW dropped, NEW n \in Nat
    PROVE  \E f : KeptUpTo(seq, dropped, f, n)
<1> DEFINE T == {m \in Nat : \E f : KeptUpTo(seq, dropped, f, m)}
<1>1. 0 \in T
  <2>1. KeptUpTo(seq, dropped, [k \in 0..0 |-> <<>>], 0)
    BY DEF KeptUpTo
  <2>2. QED
    BY <2>1
<1>2. \A m \in Nat : m \in T => m + 1 \in T
  <2>1. SUFFICES ASSUME NEW m \in Nat, NEW f, KeptUpTo(seq, dropped, f, m)
                 PROVE  \E g : KeptUpTo(seq, dropped, g, m + 1)
    OBVIOUS
  <2> DEFINE last == IF seq[m + 1] \in dropped THEN f[m] ELSE Append(f[m], seq[m + 1])
             g == [k \in 0..m + 1 |-> IF k = m + 1 THEN last ELSE f[k]]
  <2>2. g[m + 1] = last /\ \A k \in 0..m : g[k] = f[k]
    OBVIOUS
  <2>3. \A k \in 0..m : f[k] = IF k = 0 THEN <<>>
                               ELSE IF seq[k] \in dropped THEN f[k - 1]
                               ELSE Append(f[k - 1], seq[k])
    BY <2>1 DEF KeptUpTo
  <2>4. \A k \in 0..m + 1 : g[k] = IF k = 0 THEN <<>>
                                   ELSE IF seq[k] \in dropped THEN g[k - 1]
                                   ELSE Append(g[k - 1], seq[k])
    <3>1. SUFFICES ASSUME NEW k \in 0..m + 1
                   PROVE  g[k] = IF k = 0 THEN <<>>
                                 ELSE IF seq[k] \in dropped THEN g[k - 1]
                                 ELSE Append(g[k - 1], seq[k])
      OBVIOUS
    <3>2. CASE k = m + 1
      <4>1. k # 0 /\ k - 1 = m /\ g[k - 1] = f[m]
        BY <2>2, <3>2
      <4>2. QED
        BY <2>2, <3>2, <4>1
    <3>3. CASE k \in 0..m
      <4>1. g[k] = f[k] /\ (k # 0 => g[k - 1] = f[k - 1])
        BY <2>2, <3>3
      <4>2. QED
        BY <2>3, <3>3, <4>1
    <3>4. QED
      BY <3>2, <3>3
  <2>5. KeptUpTo(seq, dropped, g, m + 1)
    <3> HIDE DEF last
    <3>1. g = [k \in 0..m + 1 |-> g[k]]
      OBVIOUS
    <3> HIDE DEF g
    <3>2. QED
      BY <2>4, <3>1 DEF KeptUpTo
  <2>6. QED
    BY <2>5
<1>3. Nat \subseteq T
  BY <1>1, <1>2, NatInduct
<1>4. QED
  BY <1>3

LEMMA KeptStep ==
    ASSUME NEW seq, NEW dropped, NEW n \in Nat, NEW f, KeptUpTo(seq, dropped, f, n)
    PROVE  \A j \in Nat : j + 1 <= n =>
              f[j + 1] = IF seq[j + 1] \in dropped THEN f[j] ELSE Append(f[j], seq[j + 1])
<1> SUFFICES ASSUME NEW j \in Nat, j + 1 <= n
             PROVE  f[j + 1] = IF seq[j + 1] \in dropped THEN f[j]
                               ELSE Append(f[j], seq[j + 1])
  OBVIOUS
<1>1. PICK p : p = j + 1
  OBVIOUS
<1>2. p \in 0..n /\ p # 0 /\ p - 1 = j
  BY <1>1
<1>3. \A k \in 0..n : f[k] = IF k = 0 THEN <<>>
                             ELSE IF seq[k] \in dropped THEN f[k - 1]
                             ELSE Append(f[k - 1], seq[k])
  BY DEF KeptUpTo
<1>4. f[p] = IF seq[p] \in dropped THEN f[p - 1] ELSE Append(f[p - 1], seq[p])
  BY <1>2, <1>3
<1>5. QED
  BY <1>1, <1>2, <1>4

LEMMA KeptAgree ==
    ASSUME NEW s, NEW t, NEW dropped, NEW m \in Nat, NEW n \in Nat, NEW f, NEW g,
           KeptUpTo(s, dropped, f, m), KeptUpTo(t, dropped, g, n)
    PROVE  \A k \in Nat : k <= m /\ k <= n /\ (\A i \in 1..k : s[i] = t[i]) => f[k] = g[k]
<1> SUFFICES ASSUME NEW k \in Nat, k <= m, k <= n, \A i \in 1..k : s[i] = t[i]
             PROVE  f[k] = g[k]
  OBVIOUS
<1> DEFINE T == {j \in Nat : j <= k => f[j] = g[j]}
<1>a. \A j \in Nat : j + 1 <= m =>
         f[j + 1] = IF s[j + 1] \in dropped THEN f[j] ELSE Append(f[j], s[j + 1])
  BY KeptStep
<1>b. \A j \in Nat : j + 1 <= n =>
         g[j + 1] = IF t[j + 1] \in dropped THEN g[j] ELSE Append(g[j], t[j + 1])
  BY KeptStep
<1>1. 0 \in T
  BY DEF KeptUpTo
<1>2. \A j \in Nat : j \in T => j + 1 \in T
  <2>1. SUFFICES ASSUME NEW j \in Nat, j + 1 <= k, f[j] = g[j]
                 PROVE  f[j + 1] = g[j + 1]
    OBVIOUS
  <2>2. j + 1 <= m /\ j + 1 <= n /\ s[j + 1] = t[j + 1]
    BY <2>1
  <2>3. f[j + 1] = IF s[j + 1] \in dropped THEN f[j] ELSE Append(f[j], s[j + 1])
    BY <2>2, <1>a
  <2>4. g[j + 1] = IF t[j + 1] \in dropped THEN g[j] ELSE Append(g[j], t[j + 1])
    BY <2>2, <1>b
  <2>5. QED
    BY <2>1, <2>2, <2>3, <2>4
<1>3. Nat \subseteq T
  BY <1>1, <1>2, NatInduct
<1>4. QED
  BY <1>3

LEMMA WithoutIsKept ==
    ASSUME NEW seq, Len(seq) \in Nat, NEW dropped
    PROVE  \E f : KeptUpTo(seq, dropped, f, Len(seq)) /\ Without(seq, dropped) = f[Len(seq)]
<1> DEFINE f == CHOOSE f : KeptUpTo(seq, dropped, f, Len(seq))
<1>1. KeptUpTo(seq, dropped, f, Len(seq))
  BY KeptExists
<1>2. Without(seq, dropped) = f[Len(seq)]
  BY DEF Without, KeptUpTo
<1>3. QED
  BY <1>1, <1>2

(* The two equations that define Without on sequences. *)
LEMMA WithoutEmpty ==
    ASSUME NEW dropped
    PROVE  Without(<<>>, dropped) = <<>>
<1>1. PICK f : KeptUpTo(<<>>, dropped, f, 0) /\ Without(<<>>, dropped) = f[0]
  BY WithoutIsKept, EmptySeq
<1>2. QED
  BY <1>1 DEF KeptUpTo

LEMMA WithoutLonger ==
    ASSUME NEW s, NEW t, NEW n \in Nat, NEW p \in Nat, NEW dropped,
           Len(s) = n, Len(t) = p, p = n + 1, \A i \in 1..n : s[i] = t[i]
    PROVE  Without(t, dropped) = IF t[p] \in dropped THEN Without(s, dropped)
                                 ELSE Append(Without(s, dropped), t[p])
<1>0. n \in Nat /\ p \in Nat
  OBVIOUS
<1>1. PICK f : KeptUpTo(s, dropped, f, n) /\ Without(s, dropped) = f[n]
  BY WithoutIsKept
<1>2. PICK g : KeptUpTo(t, dropped, g, p) /\ Without(t, dropped) = g[p]
  BY WithoutIsKept
<1>3. \A k \in Nat : k <= n /\ k <= p /\ (\A i \in 1..k : s[i] = t[i]) => f[k] = g[k]
  BY ONLY <1>0, <1>1, <1>2, KeptAgree
<1>4. f[n] = g[n]
  BY <1>3
<1>5. \A j \in Nat : j + 1 <= p =>
         g[j + 1] = IF t[j + 1] \in dropped THEN g[j] ELSE Append(g[j], t[j + 1])
  BY <1>2, KeptStep
<1>6. g[p] = IF t[p] \in dropped THEN g[n] ELSE Append(g[n], t[p])
  BY <1>5
<1>7. QED
  BY <1>1, <1>2, <1>4, <1>6

LEMMA WithoutAppend ==
    ASSUME NEW S, NEW seq \in Seq(S), NEW e \in S, NEW dropped
    PROVE  Without(Append(seq, e), dropped) =
              IF e \in dropped THEN Without(seq, dropped)
              ELSE Append(Without(seq, dropped), e)
<1>1. PICK t, n, p : t = Append(seq, e) /\ n = Len(seq) /\ p = n + 1
  OBVIOUS
<1>2. n \in Nat /\ p \in Nat /\ Len(t) = p /\ t[p] = e /\ \A i \in 1..n : seq[i] = t[i]
  BY <1>1, AppendProperties, LenProperties
<1>3. Without(t, dropped) = IF t[p] \in dropped THEN Without(seq, dropped)
                            ELSE Append(Without(seq, dropped), t[p])
  <2>1. Len(seq) = n /\ p = n + 1
    BY <1>1
  <2>2. QED
    BY ONLY <1>2, <2>1, WithoutLonger
<1>4. QED
  BY <1>1, <1>2, <1>3

LEMMA WithoutTyped ==
    ASSUME NEW S, NEW D
    PROVE  \A s \in Seq(S) : Without(s, D) \in Seq(S)
<1> DEFINE T == {s \in Seq(S) : Without(s, D) \in Seq(S)}
<1>1. <<>> \in T
  BY WithoutEmpty, EmptySeq
<1>2. \A s \in Seq(S), e \in S : s \in T => Append(s, e) \in T
  <2>1. SUFFICES ASSUME NEW s \in Seq(S), NEW e \in S, Without(s, D) \in Seq(S)
                 PROVE  Append(s, e) \in Seq(S) /\ Without(Append(s, e), D) \in Seq(S)
    OBVIOUS
  <2>2. Append(s, e) \in Seq(S) /\ Append(Without(s, D), e) \in Seq(S)
    BY <2>1, AppendProperties
  <2>3. Without(Append(s, e), D) = IF e \in D THEN Without(s, D)
                                   ELSE Append(Without(s, D), e)
    BY WithoutAppend
  <2>4. QED
    BY <2>1, <2>2, <2>3
<1>3. Seq(S) \subseteq T
  BY <1>1, <1>2, SeqInduct
<1>4. QED
  BY <1>3

LEMMA ToSetAppend ==
    ASSUME NEW S, NEW s \in Seq(S), NEW e \in S
    PROVE  ToSet(Append(s, e)) = ToSet(s) \cup {e}
<1>1. DOMAIN s = 1..Len(s) /\ DOMAIN Append(s, e) = 1..Len(s) + 1 /\ Len(s) \in Nat
  BY AppendProperties, LenProperties
<1>2. \A x : x \in ToSet(Append(s, e)) <=> \E i \in 1..Len(s) + 1 : x = Append(s, e)[i]
  BY <1>1 DEF ToSet
<1>3. \A x : x \in ToSet(s) <=> \E i \in 1..Len(s) : x = s[i]
  BY <1>1 DEF ToSet
<1>4. /\ \A i \in 1..Len(s) : i \in 1..Len(s) + 1 /\ Append(s, e)[i] = s[i]
      /\ Len(s) + 1 \in 1..Len(s) + 1 /\ Append(s, e)[Len(s) + 1] = e
      /\ \A i \in 1..Len(s) + 1 : i \in 1..Len(s) \/ i = Len(s) + 1
  BY <1>1, AppendProperties
<1>5. \A x : x \in ToSet(Append(s, e)) <=> x \in ToSet(s) \/ x = e
  BY <1>2, <1>3, <1>4
<1>6. QED
  BY <1>5

LEMMA ToSetEmpty == ToSet(<<>>) = {}
BY DEF ToSet

LEMMA ToSetWithout ==
    ASSUME NEW S, NEW D
    PROVE  \A s \in Seq(S) : ToSet(Without(s, D)) = ToSet(s) \ D
<1> DEFINE T == {s \in Seq(S) : ToSet(Without(s, D)) = ToSet(s) \ D}
<1>1. <<>> \in T
  BY WithoutEmpty, EmptySeq, ToSetEmpty
<1>2. \A s \in Seq(S), e \in S : s \in T => Append(s, e) \in T
  <2>1. SUFFICES ASSUME NEW s \in Seq(S), NEW e \in S, ToSet(Without(s, D)) = ToSet(s) \ D
                 PROVE  Append(s, e) \in Seq(S)
                        /\ ToSet(Without(Append(s, e), D)) = ToSet(Append(s, e)) \ D
    OBVIOUS
  <2>2. /\ ToSet(Append(s, e)) = ToSet(s) \cup {e}
        /\ ToSet(Append(Without(s, D), e)) = ToSet(Without(s, D)) \cup {e}
    BY ToSetAppend, WithoutTyped
  <2>3. Append(s, e) \in Seq(S)
    BY AppendProperties
  <2>4. Without(Append(s, e), D) = IF e \in D THEN Without(s, D)
                                   ELSE Append(Without(s, D), e)
    BY WithoutAppend
  <2>5. QED
    BY <2>1, <2>2, <2>3, <2>4
<1>3. Seq(S) \subseteq T
  BY <1>1, <1>2, SeqInduct
<1>4. QED
  BY <1>3

LEMMA ToSetTyped ==
    ASSUME NEW S, NEW s \in Seq(S)
    PROVE  ToSet(s) \subseteq S
BY LenProperties, ElementOfSeq DEF ToSet

(* What counts is which of the elements there are is dropped. *)
LEMMA WithoutAgree ==
    ASSUME NEW S, NEW D, NEW E
    PROVE  \A s \in Seq(S) : (\A x \in ToSet(s) : x \in D <=> x \in E)
                                => Without(s, D) = Without(s, E)
<1> DEFINE T == {s \in Seq(S) : (\A x \in ToSet(s) : x \in D <=> x \in E)
                                   => Without(s, D) = Without(s, E)}
<1>1. <<>> \in T
  BY WithoutEmpty, EmptySeq
<1>2. \A s \in Seq(S), e \in S : s \in T => Append(s, e) \in T
  BY ToSetAppend, WithoutAppend, AppendProperties
<1>3. Seq(S) \subseteq T
  BY <1>1, <1>2, SeqInduct
<1>4. QED
  BY <1>3

LEMMA WithoutNothing ==
    ASSUME NEW S, NEW D
    PROVE  \A s \in Seq(S) : ToSet(s) \cap D = {} => Without(s, D) = s
<1> DEFINE T == {s \in Seq(S) : ToSet(s) \cap D = {} => Without(s, D) = s}
<1>1. <<>> \in T
  BY WithoutEmpty, EmptySeq
<1>2. \A s \in Seq(S), e \in S : s \in T => Append(s, e) \in T
  BY ToSetAppend, WithoutAppend, AppendProperties
<1>3. Seq(S) \subseteq T
  BY <1>1, <1>2, SeqInduct
<1>4. QED
  BY <1>3

LEMMA ConcatAppend ==
    ASSUME NEW S, NEW s \in Seq(S), NEW t \in Seq(S), NEW e \in S
    PROVE  s \o Append(t, e) = Append(s \o t, e)
<1>1. PICK one : one = <<e>>
  OBVIOUS
<1>2. one \in Seq(S) /\ s \o t \in Seq(S)
  BY <1>1, ConcatProperties
<1>3. Append(t, e) = t \o one /\ Append(s \o t, e) = (s \o t) \o one
  BY <1>1, <1>2, AppendIsConcat
<1>4. (s \o t) \o one = s \o (t \o one)
  BY <1>2, ConcatAssociative
<1>5. QED
  BY <1>3, <1>4

LEMMA WithoutConcat ==
    ASSUME NEW S, NEW D, NEW s \in Seq(S)
    PROVE  \A t \in Seq(S) : Without(s \o t, D) = Without(s, D) \o Without(t, D)
<1> DEFINE T == {t \in Seq(S) : Without(s \o t, D) = Without(s, D) \o Without(t, D)}
<1>1. <<>> \in T
  BY WithoutEmpty, WithoutTyped, EmptySeq, ConcatEmptySeq
<1>2. \A t \in Seq(S), e \in S : t \in T => Append(t, e) \in T
  <2>1. SUFFICES ASSUME NEW t \in Seq(S), NEW e \in S,
                        Without(s \o t, D) = Without(s, D) \o Without(t, D)
                 PROVE  Without(s \o Append(t, e), D) = Without(s, D) \o Without(Append(t, e), D)
    BY AppendProperties
  <2>2. s \o Append(t, e) = Append(s \o t, e) /\ s \o t \in Seq(S)
    BY ConcatAppend, ConcatProperties
  <2>3. Without(Append(s \o t, e), D) = IF e \in D THEN Without(s \o t, D)
                                        ELSE Append(Without(s \o t, D), e)
    BY <2>2, WithoutAppend
  <2>4. Without(Append(t, e), D) = IF e \in D THEN Without(t, D)
                                   ELSE Append(Without(t, D), e)
    BY WithoutAppend
  <2>5. Without(s, D) \o Append(Without(t, D), e) = Append(Without(s, D) \o Without(t, D), e)
    BY ConcatAppend, WithoutTyped
  <2>6. QED
    BY <2>1, <2>2, <2>3, <2>4, <2>5
<1>3. Seq(S) \subseteq T
  BY <1>1, <1>2, SeqInduct
<1>4. QED
  BY <1>3

-----------------------------------------------------------------------------
(* A function applied to every element, and what Without makes of that *)

Mapped(s, h) == [i \in DOMAIN s |-> h[s[i]]]

Images(h, S) == {h[x] : x \in S}

LEMMA MappedTyped ==
    ASSUME NEW S, NEW s \in Seq(S), NEW h
    PROVE  /\ Mapped(s, h) \in Seq(Images(h, S))
           /\ Len(Mapped(s, h)) = Len(s)
           /\ \A i \in 1..Len(s) : Mapped(s, h)[i] = h[s[i]]
<1>1. Len(s) \in Nat /\ DOMAIN s = 1..Len(s) /\ \A i \in 1..Len(s) : s[i] \in S
  BY LenProperties, ElementOfSeq
<1>2. PICK n \in Nat : n = Len(s)
  BY <1>1
<1>3. Mapped(s, h) = [i \in 1..n |-> h[s[i]]] /\ \A i \in 1..n : h[s[i]] \in Images(h, S)
  BY <1>1, <1>2 DEF Mapped, Images
<1>4. [i \in 1..n |-> h[s[i]]] \in Seq(Images(h, S)) /\ Len([i \in 1..n |-> h[s[i]]]) = n
  BY <1>3
<1>5. QED
  BY <1>2, <1>3, <1>4

LEMMA MappedInto ==
    ASSUME NEW S, NEW s \in Seq(S), NEW h, NEW X, \A x \in S : h[x] \in X
    PROVE  Mapped(s, h) \in Seq(X)
<1>1. Mapped(s, h) \in Seq(Images(h, S))
  BY MappedTyped
<1>2. Images(h, S) \subseteq X
  BY DEF Images
<1>3. QED
  BY <1>1, <1>2, SeqMonotonic

LEMMA MappedEmpty ==
    ASSUME NEW h
    PROVE  Mapped(<<>>, h) = <<>>
BY DEF Mapped

LEMMA MappedAppend ==
    ASSUME NEW S, NEW h, NEW s \in Seq(S), NEW e \in S
    PROVE  Mapped(Append(s, e), h) = Append(Mapped(s, h), h[e])
<1>1. PICK a, n, X : a = Append(s, e) /\ n = Len(s) /\ X = Images(h, S)
  OBVIOUS
<1>2. a \in Seq(S)
  BY <1>1, AppendProperties
<1>3. /\ n \in Nat /\ Len(a) = n + 1 /\ a[n + 1] = e
      /\ \A i \in 1..n : a[i] = s[i]
  BY <1>1, AppendProperties, LenProperties
<1>4. PICK t, v : t = Mapped(a, h) /\ v = Mapped(s, h)
  OBVIOUS
<1>5. t \in Seq(X) /\ Len(t) = Len(a) /\ \A i \in 1..Len(a) : t[i] = h[a[i]]
  <2>1. /\ Mapped(a, h) \in Seq(Images(h, S)) /\ Len(Mapped(a, h)) = Len(a)
        /\ \A i \in 1..Len(a) : Mapped(a, h)[i] = h[a[i]]
    BY <1>2, MappedTyped
  <2>2. QED
    BY <1>1, <1>4, <2>1
<1>6. v \in Seq(X) /\ Len(v) = n /\ \A i \in 1..n : v[i] = h[s[i]]
  BY <1>1, <1>4, MappedTyped
<1>7. PICK u : u = Append(v, h[e])
  OBVIOUS
<1>8. h[e] \in X
  BY <1>1 DEF Images
<1>9. /\ u \in Seq(X) /\ Len(u) = n + 1 /\ u[n + 1] = h[e]
      /\ \A i \in 1..n : u[i] = v[i]
  BY <1>6, <1>7, <1>8, AppendProperties
<1>10. ASSUME NEW i \in 1..n + 1
      PROVE  t[i] = u[i]
  <2>1. CASE i = n + 1
    BY <1>3, <1>5, <1>9, <2>1
  <2>2. CASE i \in 1..n
    BY <1>3, <1>5, <1>6, <1>9, <2>2
  <2>3. QED
    BY <1>3, <2>1, <2>2
<1>11. t = u
  BY <1>3, <1>5, <1>9, <1>10, SeqEqual
<1>12. QED
  BY <1>1, <1>4, <1>7, <1>11

LEMMA MappedConcat ==
    ASSUME NEW S, NEW h, NEW s \in Seq(S)
    PROVE  \A t \in Seq(S) : Mapped(s \o t, h) = Mapped(s, h) \o Mapped(t, h)
<1> DEFINE T == {t \in Seq(S) : Mapped(s \o t, h) = Mapped(s, h) \o Mapped(t, h)}
<1>1. <<>> \in T
  <2>1. s \o <<>> = s /\ Mapped(s, h) \o <<>> = Mapped(s, h)
    BY MappedTyped, ConcatEmptySeq
  <2>2. QED
    BY <2>1, MappedEmpty, EmptySeq
<1>2. \A t \in Seq(S), e \in S : t \in T => Append(t, e) \in T
  <2>1. SUFFICES ASSUME NEW t \in Seq(S), NEW e \in S,
                        Mapped(s \o t, h) = Mapped(s, h) \o Mapped(t, h)
                 PROVE  Mapped(s \o Append(t, e), h) = Mapped(s, h) \o Mapped(Append(t, e), h)
    BY AppendProperties
  <2>2. s \o Append(t, e) = Append(s \o t, e) /\ s \o t \in Seq(S)
    BY ConcatAppend, ConcatProperties
  <2>3. Mapped(Append(s \o t, e), h) = Append(Mapped(s \o t, h), h[e])
    BY <2>2, MappedAppend
  <2>4. Mapped(Append(t, e), h) = Append(Mapped(t, h), h[e])
    BY MappedAppend
  <2>5. /\ Mapped(s, h) \in Seq(Images(h, S)) /\ Mapped(t, h) \in Seq(Images(h, S))
        /\ h[e] \in Images(h, S)
    BY MappedTyped DEF Images
  <2>6. Mapped(s, h) \o Append(Mapped(t, h), h[e]) = Append(Mapped(s, h) \o Mapped(t, h), h[e])
    BY <2>5, ConcatAppend
  <2>7. QED
    BY <2>1, <2>2, <2>3, <2>4, <2>6
<1>3. Seq(S) \subseteq T
  BY <1>1, <1>2, SeqInduct
<1>4. QED
  BY <1>3

LEMMA ToSetMapped ==
    ASSUME NEW S, NEW h, NEW s \in Seq(S)
    PROVE  ToSet(Mapped(s, h)) = {h[x] : x \in ToSet(s)}
<1>1. DOMAIN s = DOMAIN Mapped(s, h)
  BY DEF Mapped
<1>2. QED
  BY <1>1 DEF Mapped, ToSet

(* To drop elements after a function is to drop before it those it sends   *)
(* there.                                                                  *)
LEMMA WithoutMapped ==
    ASSUME NEW S, NEW h, NEW D, NEW F, \A x \in S : h[x] \in D <=> x \in F
    PROVE  \A s \in Seq(S) : Without(Mapped(s, h), D) = Mapped(Without(s, F), h)
<1> DEFINE T == {s \in Seq(S) : Without(Mapped(s, h), D) = Mapped(Without(s, F), h)}
<1>1. <<>> \in T
  BY WithoutEmpty, MappedEmpty, EmptySeq
<1>2. \A s \in Seq(S), e \in S : s \in T => Append(s, e) \in T
  <2>1. SUFFICES ASSUME NEW s \in Seq(S), NEW e \in S,
                        Without(Mapped(s, h), D) = Mapped(Without(s, F), h)
                 PROVE  Without(Mapped(Append(s, e), h), D)
                           = Mapped(Without(Append(s, e), F), h)
    BY AppendProperties
  <2>2. PICK m, k : m = Mapped(s, h) /\ k = Without(s, F)
    OBVIOUS
  <2>3. m \in Seq(Images(h, S)) /\ k \in Seq(S) /\ h[e] \in Images(h, S)
    BY <2>2, MappedTyped, WithoutTyped DEF Images
  <2>4. Mapped(Append(s, e), h) = Append(m, h[e])
    BY <2>2, MappedAppend
  <2>5. Without(Append(m, h[e]), D) = IF h[e] \in D THEN Without(m, D)
                                      ELSE Append(Without(m, D), h[e])
    <3>1. PICK y, Y : y = h[e] /\ Y = Images(h, S)
      OBVIOUS
    <3>2. m \in Seq(Y) /\ y \in Y
      BY <2>3, <3>1
    <3>3. Without(Append(m, y), D) = IF y \in D THEN Without(m, D)
                                     ELSE Append(Without(m, D), y)
      BY <3>2, WithoutAppend
    <3>4. QED
      BY <3>1, <3>3
  <2>6. Without(Append(s, e), F) = IF e \in F THEN k ELSE Append(k, e)
    BY <2>2, WithoutAppend
  <2>7. Mapped(Append(k, e), h) = Append(Mapped(k, h), h[e])
    BY <2>3, MappedAppend
  <2>8. Without(m, D) = Mapped(k, h)
    BY <2>1, <2>2
  <2>9. CASE e \in F
    BY <2>4, <2>5, <2>6, <2>8, <2>9
  <2>10. CASE e \notin F
    BY <2>4, <2>5, <2>6, <2>7, <2>8, <2>10
  <2>11. QED
    BY <2>9, <2>10
<1>3. Seq(S) \subseteq T
  BY <1>1, <1>2, SeqInduct
<1>4. QED
  BY <1>3

LEMMA WithoutTwice ==
    ASSUME NEW S, NEW D, NEW E, D \subseteq E
    PROVE  \A s \in Seq(S) : Without(Without(s, D), E) = Without(s, E)
<1> DEFINE T == {s \in Seq(S) : Without(Without(s, D), E) = Without(s, E)}
<1>1. <<>> \in T
  BY WithoutEmpty, EmptySeq
<1>2. \A s \in Seq(S), e \in S : s \in T => Append(s, e) \in T
  <2>1. SUFFICES ASSUME NEW s \in Seq(S), NEW e \in S,
                        Without(Without(s, D), E) = Without(s, E)
                 PROVE  Without(Without(Append(s, e), D), E) = Without(Append(s, e), E)
    BY AppendProperties
  <2>2. PICK w : w = Without(s, D)
    OBVIOUS
  <2>3. w \in Seq(S)
    BY <2>2, WithoutTyped
  <2>4. Without(Append(s, e), D) = IF e \in D THEN w ELSE Append(w, e)
    BY <2>2, WithoutAppend
  <2>5. Without(Append(w, e), E) = IF e \in E THEN Without(w, E) ELSE Append(Without(w, E), e)
    BY <2>3, WithoutAppend
  <2>6. Without(Append(s, e), E) = IF e \in E THEN Without(s, E) ELSE Append(Without(s, E), e)
    BY WithoutAppend
  <2>7. QED
    BY <2>1, <2>2, <2>4, <2>5, <2>6
<1>3. Seq(S) \subseteq T
  BY <1>1, <1>2, SeqInduct
<1>4. QED
  BY <1>3

-----------------------------------------------------------------------------
(* Taking a sequence apart at one of its elements *)

LEMMA Single ==
    ASSUME NEW S, NEW e \in S
    PROVE  <<e>> \in Seq(S) /\ Len(<<e>>) = 1 /\ <<e>>[1] = e /\ ToSet(<<e>>) = {e}
<1>1. <<e>> \in Seq(S) /\ Len(<<e>>) = 1 /\ <<e>>[1] = e
  OBVIOUS
<1>2. DOMAIN <<e>> = 1..1
  OBVIOUS
<1>3. ToSet(<<e>>) = {e}
  BY <1>1, <1>2 DEF ToSet
<1>4. QED
  BY <1>1, <1>3

LEMMA WithoutSingle ==
    ASSUME NEW S, NEW e \in S, NEW D
    PROVE  Without(<<e>>, D) = IF e \in D THEN <<>> ELSE <<e>>
<1>1. Append(<<>>, e) = <<e>> /\ <<>> \in Seq(S)
  OBVIOUS
<1>2. Without(Append(<<>>, e), D) = IF e \in D THEN Without(<<>>, D) ELSE Append(Without(<<>>, D), e)
  BY <1>1, WithoutAppend
<1>3. QED
  BY <1>1, <1>2, WithoutEmpty

LEMMA ToSetConcat ==
    ASSUME NEW S, NEW s \in Seq(S), NEW t \in Seq(S)
    PROVE  ToSet(s \o t) = ToSet(s) \cup ToSet(t)
<1>1. PICK u, m, n : u = s \o t /\ m = Len(s) /\ n = Len(t)
  OBVIOUS
<1>2. /\ DOMAIN u = 1..m + n /\ DOMAIN s = 1..m /\ DOMAIN t = 1..n
      /\ m \in Nat /\ n \in Nat
  BY <1>1, ConcatProperties, LenProperties
<1>3. \A i \in 1..m + n : u[i] = IF i <= m THEN s[i] ELSE t[i - m]
  BY <1>1, ConcatProperties
<1>4. ToSet(u) \subseteq ToSet(s) \cup ToSet(t)
  <2>1. ASSUME NEW i \in 1..m + n
        PROVE  u[i] \in ToSet(s) \cup ToSet(t)
    <3>1. CASE i \in 1..m
      BY <1>2, <1>3, <3>1 DEF ToSet
    <3>2. CASE i - m \in 1..n
      <4>1. u[i] = t[i - m]
        BY <1>2, <1>3, <3>2
      <4>2. QED
        BY <1>2, <3>2, <4>1 DEF ToSet
    <3>3. QED
      BY <1>2, <3>1, <3>2
  <2>2. QED
    BY <1>2, <2>1 DEF ToSet
<1>5. ToSet(s) \subseteq ToSet(u)
  <2>1. ASSUME NEW i \in 1..m
        PROVE  i \in 1..m + n /\ u[i] = s[i]
    BY <1>2, <1>3
  <2>2. QED
    BY <1>2, <2>1 DEF ToSet
<1>6. ToSet(t) \subseteq ToSet(u)
  <2>1. ASSUME NEW i \in 1..n
        PROVE  m + i \in 1..m + n /\ u[m + i] = t[i]
    BY <1>2, <1>3
  <2>2. QED
    BY <1>2, <2>1 DEF ToSet
<1>7. QED
  BY <1>1, <1>4, <1>5, <1>6

(* What is in front of the i-th element, and what is behind it *)
Before(s, i) == SubSeq(s, 1, i - 1)
Behind(s, i) == SubSeq(s, i + 1, Len(s))

LEMMA Apart ==
    ASSUME NEW S, NEW s \in Seq(S), NEW i \in 1..Len(s)
    PROVE  /\ Before(s, i) \in Seq(S) /\ Behind(s, i) \in Seq(S) /\ s[i] \in S
           /\ s = Before(s, i) \o (<<s[i]>> \o Behind(s, i))
           /\ Len(Before(s, i)) = i - 1
           /\ \A j \in 1..i - 1 : Before(s, i)[j] = s[j]
<1>1. Len(s) \in Nat /\ \A j \in 1..Len(s) : s[j] \in S
  BY LenProperties, ElementOfSeq
<1>2. /\ Before(s, i) \in Seq(S) /\ Len(Before(s, i)) = i - 1
      /\ \A j \in 1..i - 1 : Before(s, i)[j] = s[j]
  <2>1. \A j \in 1..i - 1 : s[j] \in S
    BY <1>1
  <2>2. /\ SubSeq(s, 1, i - 1) \in Seq(S)
        /\ Len(SubSeq(s, 1, i - 1)) = IF 1 <= i - 1 THEN i - 1 - 1 + 1 ELSE 0
        /\ \A j \in 1..i - 1 - 1 + 1 : SubSeq(s, 1, i - 1)[j] = s[1 + j - 1]
    BY <1>1, <2>1, SubSeqProperties
  <2>3. QED
    BY <1>1, <2>2 DEF Before
<1>3. Behind(s, i) \in Seq(S)
  <2>1. \A j \in i + 1..Len(s) : s[j] \in S
    BY <1>1
  <2>2. QED
    BY <1>1, <2>1, SubSeqProperties DEF Behind
<1>4. Before(s, i) \o SubSeq(s, i, Len(s)) = s
  <2>1. PICK k : k = i - 1
    OBVIOUS
  <2>2. 1 \in 1..Len(s) + 1 /\ k \in 1 - 1..Len(s) /\ Len(s) \in k..Len(s) /\ k + 1 = i
    BY <1>1, <2>1
  <2>3. SubSeq(s, 1, k) \o SubSeq(s, k + 1, Len(s)) = SubSeq(s, 1, Len(s))
    BY <2>2, ConcatAdjacentSubSeq
  <2>4. SubSeq(s, 1, Len(s)) = s
    BY SubSeqFull
  <2>5. QED
    BY <2>1, <2>2, <2>3, <2>4 DEF Before
<1>5. SubSeq(s, i, Len(s)) = <<s[i]>> \o Behind(s, i)
  <2>1. Len(s) \in i..Len(s)
    BY <1>1
  <2>2. QED
    BY <2>1, SubSeqRecursiveFirst DEF Behind
<1>6. s = Before(s, i) \o (<<s[i]>> \o Behind(s, i))
  BY <1>4, <1>5
<1>7. QED
  BY <1>1, <1>2, <1>3, <1>6

LEMMA InsertIs ==
    ASSUME NEW S, NEW s \in Seq(S), NEW i \in 1..Len(s), NEW e \in S
    PROVE  InsertAt(s, i, e) = Before(s, i) \o (<<e>> \o (<<s[i]>> \o Behind(s, i)))
<1>1. /\ Before(s, i) \in Seq(S) /\ Behind(s, i) \in Seq(S) /\ s[i] \in S
      /\ <<e>> \in Seq(S) /\ <<s[i]>> \in Seq(S)
  BY Apart, Single
<1>2. <<s[i]>> \o Behind(s, i) \in Seq(S)
  BY <1>1, ConcatProperties
<1>3. SubSeq(s, i, Len(s)) = <<s[i]>> \o Behind(s, i)
  <2>1. Len(s) \in i..Len(s)
    BY LenProperties
  <2>2. QED
    BY <2>1, SubSeqRecursiveFirst DEF Behind
<1>4. InsertAt(s, i, e) = (Before(s, i) \o <<e>>) \o (<<s[i]>> \o Behind(s, i))
  BY <1>3 DEF InsertAt, Before
<1>5. QED
  BY <1>1, <1>2, <1>4, ConcatAssociative

LEMMA ReplaceIs ==
    ASSUME NEW S, NEW s \in Seq(S), NEW i \in 1..Len(s), NEW e \in S
    PROVE  ReplaceAt(s, i, e) = Before(s, i) \o (<<e>> \o Behind(s, i))
<1>1. PICK r, n : r = ReplaceAt(s, i, e) /\ n = Len(s)
  OBVIOUS
<1>2. /\ r \in Seq(S) /\ Len(r) = Len(s)
      /\ \A j \in 1..Len(s) : r[j] = IF j = i THEN e ELSE s[j]
  BY <1>1, ExceptSeq DEF ReplaceAt
<1>3. n \in Nat /\ i \in 1..n /\ (\A j \in 1..n : s[j] \in S /\ r[j] \in S)
      /\ (\A j \in 1..n : j # i => r[j] = s[j]) /\ r[i] = e
  <2>1. n \in Nat /\ i \in 1..n
    BY <1>1, LenProperties
  <2>2. \A j \in 1..n : s[j] \in S
    BY <1>1, ElementOfSeq
  <2>3. \A j \in 1..n : r[j] = IF j = i THEN e ELSE s[j]
    BY <1>1, <1>2
  <2>4. QED
    BY <2>1, <2>2, <2>3
<1>4. ASSUME NEW a \in Nat, NEW b \in Nat, a > 0, b <= n, \A j \in a..b : j # i
      PROVE  SubSeq(r, a, b) = SubSeq(s, a, b)
  <2>1. \A j \in a..b : j \in 1..n
    BY <1>3, <1>4
  <2>2. \A j \in a..b : r[j] = s[j] /\ r[j] \in S /\ s[j] \in S
    BY <1>3, <1>4, <2>1
  <2>3. PICK x, y : x = SubSeq(r, a, b) /\ y = SubSeq(s, a, b)
    OBVIOUS
  <2>4. /\ x \in Seq(S) /\ Len(x) = IF a <= b THEN b - a + 1 ELSE 0
        /\ \A j \in 1..b - a + 1 : x[j] = r[a + j - 1]
    BY <2>2, <2>3, SubSeqProperties
  <2>5. /\ y \in Seq(S) /\ Len(y) = IF a <= b THEN b - a + 1 ELSE 0
        /\ \A j \in 1..b - a + 1 : y[j] = s[a + j - 1]
    BY <2>2, <2>3, SubSeqProperties
  <2>6. \A j \in 1..b - a + 1 : a + j - 1 \in a..b
    OBVIOUS
  <2>7. Len(x) = Len(y) /\ \A j \in 1..Len(x) : x[j] = y[j]
    BY <2>2, <2>4, <2>5, <2>6
  <2>8. QED
    BY <2>3, <2>4, <2>5, <2>7, SeqEqual
<1>5. Before(r, i) = Before(s, i)
  <2>1. i - 1 \in Nat /\ i - 1 <= n /\ \A j \in 1..i - 1 : j # i
    BY <1>3
  <2>2. QED
    BY <1>4, <2>1 DEF Before
<1>6. Behind(r, i) = Behind(s, i)
  <2>1. i + 1 \in Nat /\ i + 1 > 0 /\ n <= n /\ \A j \in i + 1..n : j # i
    BY <1>3
  <2>2. SubSeq(r, i + 1, n) = SubSeq(s, i + 1, n)
    BY <1>3, <1>4, <2>1
  <2>3. QED
    BY <1>1, <1>2, <2>2 DEF Behind
<1>7. r = Before(r, i) \o (<<r[i]>> \o Behind(r, i))
  <2>1. i \in 1..Len(r)
    BY <1>2
  <2>2. QED
    BY <1>2, <2>1, Apart
<1>8. QED
  BY <1>1, <1>3, <1>5, <1>6, <1>7

-----------------------------------------------------------------------------
(* The first line of a name *)

LEMMA FindIs ==
    ASSUME NEW s \in Seq(Line), NEW name
    PROVE  /\ Find(s, name) \in 0..Len(s)
           /\ Find(s, name) = 0 => \A j \in 1..Len(s) : s[j].name # name
           /\ Find(s, name) # 0 => /\ s[Find(s, name)].name = name
                                   /\ \A j \in 1..Find(s, name) - 1 : s[j].name # name
<1> DEFINE I == {i \in 1..Len(s) : s[i].name = name}
<1>1. Find(s, name) = IF I # {} THEN Min(I) ELSE 0
  BY DEF Find, SelectInSeq
<1>2. Len(s) \in Nat
  BY LenProperties
<1>3. CASE I = {}
  BY <1>1, <1>2, <1>3
<1>4. CASE I # {}
  <2>1. I \subseteq Nat
    BY <1>2
  <2>2. PICK x \in I : \A y \in I : ~ (y < x)
    BY <1>4, <2>1, Least
  <2>3. \A y \in I : x <= y
    BY <2>1, <2>2
  <2>4. Min(I) \in I /\ \A y \in I : Min(I) <= y
    BY <2>3 DEF Min
  <2>5. PICK m : m = Min(I)
    OBVIOUS
  <2>6. m \in 1..Len(s) /\ s[m].name = name /\ \A y \in I : m <= y
    BY <2>4, <2>5
  <2>7. \A j \in 1..m - 1 : s[j].name # name
    BY <1>2, <2>6
  <2>8. Find(s, name) = m /\ m # 0 /\ m \in 0..Len(s)
    BY <1>1, <1>2, <1>4, <2>5, <2>6
  <2>9. QED
    BY <2>6, <2>7, <2>8
<1>5. QED
  BY <1>3, <1>4

Unnamed(names) == {line \in Line : line.name \notin names}

LEMMA NamedIs ==
    ASSUME NEW s \in Seq(Line), NEW names
    PROVE  Named(s, names) = Without(s, Unnamed(names)) /\ Named(s, names) \in Seq(Line)
<1> DEFINE D == {line \in ToSet(s) : line.name \notin names}
<1>1. \A x \in ToSet(s) : x \in D <=> x \in Unnamed(names)
  BY ToSetTyped DEF Unnamed
<1>2. Without(s, D) = Without(s, Unnamed(names))
  <2> HIDE DEF D
  <2>1. QED
    BY <1>1, WithoutAgree
<1>3. Without(s, Unnamed(names)) \in Seq(Line)
  BY WithoutTyped
<1>4. QED
  BY <1>2, <1>3 DEF Named

LEMMA WithoutAll ==
    ASSUME NEW S, NEW D, NEW s \in Seq(S), ToSet(s) \subseteq D
    PROVE  Without(s, D) = <<>>
<1>1. Without(s, D) \in Seq(S) /\ ToSet(Without(s, D)) = {}
  BY WithoutTyped, ToSetWithout
<1>2. PICK w : w = Without(s, D)
  OBVIOUS
<1>3. w \in Seq(S) /\ ToSet(w) = {}
  BY <1>1, <1>2
<1>4. DOMAIN w = 1..Len(w) /\ Len(w) \in Nat
  BY <1>3, LenProperties
<1>5. ASSUME Len(w) # 0
      PROVE  FALSE
  <2>1. 1 \in DOMAIN w
    BY <1>4, <1>5
  <2>2. w[1] \in ToSet(w)
    BY <2>1 DEF ToSet
  <2>3. QED
    BY <1>3, <2>2
<1>6. QED
  BY <1>2, <1>3, <1>5, EmptySeq

LEMMA FindNamed ==
    ASSUME NEW s \in Seq(Line), NEW name
    PROVE  /\ Find(s, name) = 0 <=> Named(s, {name}) = <<>>
           /\ Find(s, name) # 0 => s[Find(s, name)] = Named(s, {name})[1]
<1>1. PICK i : i = Find(s, name)
  OBVIOUS
<1>2. /\ i \in 0..Len(s) /\ Len(s) \in Nat
      /\ i = 0 => \A j \in 1..Len(s) : s[j].name # name
      /\ i # 0 => s[i].name = name /\ \A j \in 1..i - 1 : s[j].name # name
  BY <1>1, FindIs, LenProperties
<1> DEFINE D == Unnamed({name})
<1>3. Named(s, {name}) = Without(s, D)
  BY NamedIs
<1>4. CASE i = 0
  <2>1. ToSet(s) \subseteq D
    <3>1. DOMAIN s = 1..Len(s) /\ \A j \in 1..Len(s) : s[j] \in Line
      BY LenProperties, ElementOfSeq
    <3>2. QED
      BY <1>2, <1>4, <3>1 DEF ToSet, Unnamed
  <2>2. Without(s, D) = <<>>
    BY <2>1, WithoutAll
  <2>3. QED
    BY <1>1, <1>3, <1>4, <2>2
<1>5. CASE i # 0
  <2>1. i \in 1..Len(s)
    BY <1>2, <1>5
  <2>2. PICK p, e, q : p = Before(s, i) /\ e = s[i] /\ q = Behind(s, i)
    OBVIOUS
  <2>3. /\ p \in Seq(Line) /\ q \in Seq(Line) /\ e \in Line /\ s = p \o (<<e>> \o q)
        /\ Len(p) = i - 1 /\ \A j \in 1..i - 1 : p[j] = s[j]
    <3>1. /\ Before(s, i) \in Seq(Line) /\ Behind(s, i) \in Seq(Line) /\ s[i] \in Line
          /\ s = Before(s, i) \o (<<s[i]>> \o Behind(s, i))
          /\ Len(Before(s, i)) = i - 1
          /\ \A j \in 1..i - 1 : Before(s, i)[j] = s[j]
      BY <2>1, Apart
    <3>2. QED
      BY <2>2, <3>1
  <2>4. ToSet(p) \subseteq D
    <3>1. DOMAIN p = 1..i - 1 /\ \A j \in 1..i - 1 : p[j] \in Line
      BY <2>3, LenProperties, ElementOfSeq
    <3>2. \A j \in 1..i - 1 : p[j].name # name
      BY <1>2, <1>5, <2>3
    <3>3. QED
      BY <3>1, <3>2 DEF ToSet, Unnamed
  <2>5. e \notin D
    BY <1>2, <1>5, <2>2 DEF Unnamed
  <2> HIDE DEF D
  <2>6. Without(p, D) = <<>> /\ Without(<<e>>, D) = <<e>> /\ Without(q, D) \in Seq(Line)
    BY <2>3, <2>4, <2>5, WithoutAll, WithoutSingle, WithoutTyped
  <2>7. <<e>> \in Seq(Line) /\ <<e>> \o q \in Seq(Line)
    BY <2>3, Single, ConcatProperties
  <2>8. Without(s, D) = <<>> \o (<<e>> \o Without(q, D))
    <3>1. PICK r : r = <<e>> \o q
      OBVIOUS
    <3>2. Without(p \o r, D) = Without(p, D) \o Without(r, D)
      BY <2>3, <2>7, <3>1, WithoutConcat
    <3>3. Without(<<e>> \o q, D) = Without(<<e>>, D) \o Without(q, D)
      BY <2>3, <2>7, WithoutConcat
    <3>4. QED
      BY <2>3, <2>6, <3>1, <3>2, <3>3
  <2>9. <<e>> \o Without(q, D) \in Seq(Line) /\ (<<e>> \o Without(q, D))[1] = e
        /\ Len(<<e>> \o Without(q, D)) # 0
    BY <2>6, <2>7, Single, ConcatProperties, LenProperties
  <2>10. Without(s, D) = <<e>> \o Without(q, D)
    BY <2>8, <2>9, ConcatEmptySeq
  <2>11. Without(s, D)[1] = e /\ Without(s, D) # <<>>
    BY <2>9, <2>10, EmptySeq
  <2>12. QED
    BY <1>1, <1>3, <1>5, <2>2, <2>11
<1>6. QED
  BY <1>4, <1>5

LEMMA ExtractIs ==
    ASSUME NEW s \in Seq(Line), NEW name
    PROVE  ExtractProp(s, name) = IF Named(s, {name}) = <<>> THEN Absent
                                  ELSE Named(s, {name})[1].value
BY FindNamed DEF ExtractProp

-----------------------------------------------------------------------------
(* The types of an address *)

Lower == [w \in Words |-> Word(w.word, FALSE)]
Upper == [w \in Words |-> Word(w.word, TRUE)]
Internets == {w \in Words : IsInternet(w)}

LEMMA LettersTyped ==
    \A w \in Words : /\ Lower[w] = Word(w.word, FALSE) /\ Lower[w] \in Words
                     /\ Upper[w] = Word(w.word, TRUE) /\ Upper[w] \in Words
                     /\ w.upper = FALSE => Lower[w] = w
                     /\ w.upper = TRUE => Upper[w] = w
                     /\ Lower[Upper[w]] = Lower[w] /\ Upper[Lower[w]] = Upper[w]
<1>1. ASSUME NEW w \in Words, NEW b \in BOOLEAN
      PROVE  /\ Word(w.word, b) \in Words /\ Word(w.word, b).word = w.word
             /\ w.upper = b => Word(w.word, b) = w
  BY DEF Words, Word
<1>2. \A w \in Words : Lower[w] = Word(w.word, FALSE) /\ Upper[w] = Word(w.word, TRUE)
  BY DEF Lower, Upper
<1>3. SUFFICES ASSUME NEW w \in Words
               PROVE  /\ Lower[w] = Word(w.word, FALSE) /\ Lower[w] \in Words
                      /\ Upper[w] = Word(w.word, TRUE) /\ Upper[w] \in Words
                      /\ w.upper = FALSE => Lower[w] = w
                      /\ w.upper = TRUE => Upper[w] = w
                      /\ Lower[Upper[w]] = Lower[w] /\ Upper[Lower[w]] = Upper[w]
  OBVIOUS
<1>4. PICK l, u : l = Word(w.word, FALSE) /\ u = Word(w.word, TRUE)
  OBVIOUS
<1>5. /\ l \in Words /\ l.word = w.word /\ (w.upper = FALSE => l = w)
      /\ u \in Words /\ u.word = w.word /\ (w.upper = TRUE => u = w)
  BY <1>1, <1>4
<1>6. Lower[w] = l /\ Upper[w] = u
  BY <1>2, <1>4
<1>7. Lower[u] = l /\ Upper[l] = u
  BY <1>2, <1>4, <1>5
<1>8. QED
  BY <1>4, <1>5, <1>6, <1>7

LEMMA MappedSame ==
    ASSUME NEW S, NEW s \in Seq(S), NEW h, \A x \in ToSet(s) : h[x] = x
    PROVE  Mapped(s, h) = s
<1>1. DOMAIN s = 1..Len(s) /\ Len(s) \in Nat
  BY LenProperties
<1>2. PICK n \in Nat : n = Len(s)
  BY <1>1
<1>3. s = [i \in 1..n |-> s[i]]
  BY <1>1, <1>2, LenProperties
<1>4. \A i \in 1..n : h[s[i]] = s[i]
  BY <1>1, <1>2 DEF ToSet
<1>5. Mapped(s, h) = [i \in 1..n |-> h[s[i]]]
  BY <1>1, <1>2 DEF Mapped
<1>6. QED
  BY <1>3, <1>4, <1>5

LEMMA TypesV4Is ==
    ASSUME NEW p \in Param, IsTypes(p)
    PROVE  TypesToV4(p) = Types(Mapped(Without(p.types, Internets), Lower))
<1>1. p.types \in Seq(Words)
  BY DEF Param
<1>2. PICK ts : ts = p.types
  OBVIOUS
<1> DEFINE D == {w \in ToSet(ts) : IsInternet(w)}
           k == Without(ts, D)
<1>3. k = Without(ts, Internets) /\ k \in Seq(Words)
  <2>1. \A w \in ToSet(ts) : w \in D <=> w \in Internets
    BY <1>1, <1>2, ToSetTyped DEF Internets
  <2> HIDE DEF D
  <2>2. QED
    BY <1>1, <1>2, <2>1, WithoutAgree, WithoutTyped
<1>4. TypesToV4(p) = Types([i \in DOMAIN k |-> Word(k[i].word, FALSE)])
  BY <1>2 DEF TypesToV4, Each
<1> HIDE DEF k
<1>5. \A i \in DOMAIN k : Word(k[i].word, FALSE) = Lower[k[i]]
  BY <1>3, LettersTyped, LenProperties, ElementOfSeq
<1>6. [i \in DOMAIN k |-> Word(k[i].word, FALSE)] = Mapped(k, Lower)
  BY <1>5 DEF Mapped
<1>7. QED
  BY <1>2, <1>3, <1>4, <1>6

LEMMA TypesV4 ==
    ASSUME NEW p \in Param
    PROVE  /\ TypesToV4(p) \in Param
           /\ TypesToV4(p).name = p.name
           /\ ~ IsTypes(p) => TypesToV4(p) = p
           /\ IsTypes(p) => ToSet(TypesToV4(p).types) =
                               {Lower[w] : w \in ToSet(p.types) \ Internets}
<1>1. CASE ~ IsTypes(p)
  BY <1>1 DEF TypesToV4
<1>2. CASE IsTypes(p)
  <2>1. p.types \in Seq(Words) /\ p.name = "TYPE" /\ "TYPE" \in STRING
    BY <1>2, LiteralsAssumption DEF Param, IsTypes
  <2>2. PICK k, y : k = Without(p.types, Internets) /\ y = Mapped(k, Lower)
    OBVIOUS
  <2>3. k \in Seq(Words) /\ ToSet(k) = ToSet(p.types) \ Internets
    BY <2>1, <2>2, WithoutTyped, ToSetWithout
  <2>4. y \in Seq(Words)
    <3>1. \A w \in Words : Lower[w] \in Words
      BY LettersTyped
    <3>2. QED
      BY <2>2, <2>3, <3>1, MappedInto
  <2>5. ToSet(y) = {Lower[w] : w \in ToSet(k)}
    BY <2>2, <2>3, ToSetMapped
  <2>6. TypesToV4(p) = [name |-> "TYPE", types |-> y]
    BY <1>2, <2>2, TypesV4Is DEF Types
  <2>7. QED
    BY <1>2, <2>1, <2>3, <2>4, <2>5, <2>6 DEF Param
<1>3. QED
  BY <1>1, <1>2

LEMMA MappedBack ==
    ASSUME NEW S, NEW s \in Seq(S), NEW h, NEW k, \A x \in ToSet(s) : k[h[x]] = x
    PROVE  Mapped(Mapped(s, h), k) = s
<1>1. DOMAIN s = 1..Len(s) /\ Len(s) \in Nat
  BY LenProperties
<1>2. PICK n \in Nat : n = Len(s)
  BY <1>1
<1>3. s = [i \in 1..n |-> s[i]]
  BY <1>1, <1>2, LenProperties
<1>4. \A i \in 1..n : k[h[s[i]]] = s[i]
  BY <1>1, <1>2 DEF ToSet
<1>5. Mapped(s, h) = [i \in 1..n |-> h[s[i]]]
  BY <1>1, <1>2 DEF Mapped
<1>6. Mapped(Mapped(s, h), k) = [i \in 1..n |-> k[h[s[i]]]]
  BY <1>5 DEF Mapped
<1>7. QED
  BY <1>3, <1>4, <1>6

LEMMA InternetIsWord == Internet \in Words /\ IsInternet(Internet) /\ Internet.upper = TRUE
BY LiteralsAssumption DEF Internet, Word, Words, IsInternet

LEMMA TypesV3Is ==
    ASSUME NEW p \in Param, IsTypes(p)
    PROVE  TypesToV3(p) = Types(IF ToSet(p.types) \cap Internets # {} THEN Mapped(p.types, Upper)
                                ELSE <<Internet>> \o Mapped(p.types, Upper))
<1>1. PICK ts : ts = p.types
  OBVIOUS
<1>2. ts \in Seq(Words)
  BY <1>1 DEF Param
<1> DEFINE upper == [i \in DOMAIN ts |-> Word(ts[i].word, TRUE)]
<1>3. TypesToV3(p) = Types(IF \E i \in DOMAIN upper : IsInternet(upper[i]) THEN upper
                           ELSE <<Internet>> \o upper)
  BY <1>1 DEF TypesToV3, Each
<1>4. \A i \in DOMAIN ts : ts[i] \in Words /\ Word(ts[i].word, TRUE) = Upper[ts[i]]
  BY <1>2, LettersTyped, LenProperties, ElementOfSeq
<1>5. upper = Mapped(ts, Upper)
  BY <1>4 DEF Mapped
<1>6. (\E i \in DOMAIN upper : IsInternet(upper[i])) <=> ToSet(ts) \cap Internets # {}
  <2>1. \A i \in DOMAIN ts : IsInternet(upper[i]) <=> ts[i] \in Internets
    BY <1>4 DEF IsInternet, Internets, Word
  <2>2. QED
    BY <2>1 DEF ToSet
<1> HIDE DEF upper
<1>7. QED
  BY <1>1, <1>3, <1>5, <1>6

LEMMA TypesV3 ==
    ASSUME NEW p \in Param
    PROVE  /\ TypesToV3(p) \in Param
           /\ TypesToV3(p).name = p.name
           /\ ~ IsTypes(p) => TypesToV3(p) = p
           /\ IsTypes(p) => ToSet(TypesToV3(p).types) =
                               {Upper[w] : w \in ToSet(p.types)} \cup {Internet}
<1>1. CASE ~ IsTypes(p)
  BY <1>1 DEF TypesToV3
<1>2. CASE IsTypes(p)
  <2>1. p.types \in Seq(Words) /\ p.name = "TYPE" /\ "TYPE" \in STRING
    BY <1>2, LiteralsAssumption DEF Param, IsTypes
  <2>2. PICK ts, m : ts = p.types /\ m = Mapped(ts, Upper)
    OBVIOUS
  <2>3. m \in Seq(Words)
    <3>1. \A w \in Words : Upper[w] \in Words
      BY LettersTyped
    <3>2. QED
      BY <2>1, <2>2, <3>1, MappedInto
  <2>4. ToSet(m) = {Upper[w] : w \in ToSet(ts)}
    BY <2>1, <2>2, ToSetMapped
  <2>5. <<Internet>> \in Seq(Words) /\ ToSet(<<Internet>>) = {Internet}
    BY InternetIsWord, Single
  <2>6. <<Internet>> \o m \in Seq(Words) /\ ToSet(<<Internet>> \o m) = {Internet} \cup ToSet(m)
    <3>1. PICK one : one = <<Internet>>
      OBVIOUS
    <3>2. one \in Seq(Words) /\ ToSet(one) = {Internet}
      BY <2>5, <3>1
    <3>3. one \o m \in Seq(Words) /\ ToSet(one \o m) = ToSet(one) \cup ToSet(m)
      BY <2>3, <3>2, ConcatProperties, ToSetConcat
    <3>4. QED
      BY <3>1, <3>2, <3>3
  <2>7. PICK y : y = IF ToSet(ts) \cap Internets # {} THEN m ELSE <<Internet>> \o m
    OBVIOUS
  <2>8. TypesToV3(p) = [name |-> "TYPE", types |-> y]
    BY <1>2, <2>2, <2>7, TypesV3Is DEF Types
  <2>9. ToSet(y) = {Upper[w] : w \in ToSet(ts)} \cup {Internet}
    <3>1. CASE ToSet(ts) \cap Internets # {}
      <4>1. PICK w \in ToSet(ts) : w \in Words /\ w.word = "INTERNET"
        BY <3>1 DEF Internets, IsInternet
      <4>2. Upper[w] = Internet
        BY <4>1, LettersTyped DEF Internet
      <4>3. QED
        BY <2>4, <2>7, <3>1, <4>1, <4>2
    <3>2. CASE ~ (ToSet(ts) \cap Internets # {})
      BY <2>4, <2>6, <2>7, <3>2
    <3>3. QED
      BY <3>1, <3>2
  <2>10. y \in Seq(Words)
    BY <2>3, <2>6, <2>7
  <2>11. QED
    BY <1>2, <2>1, <2>2, <2>8, <2>9, <2>10 DEF Param
<1>3. QED
  BY <1>1, <1>2

(* A list that is as 4.0 wants it stays, and comes back from 3.0. *)
LEMMA TypesV4Stay ==
    ASSUME NEW p \in Param, IsTypes(p),
           \A w \in ToSet(p.types) : ~ IsInternet(w) /\ ~ w.upper
    PROVE  TypesToV4(p) = p /\ TypesToV4(TypesToV3(p)) = p
<1>1. PICK ts, m : ts = p.types /\ m = Mapped(ts, Upper)
  OBVIOUS
<1>2. ts \in Seq(Words) /\ p = Types(ts)
  BY <1>1 DEF Param, IsTypes, Types
<1>3. \A w \in ToSet(ts) : w \in Words /\ w \notin Internets /\ w.upper = FALSE
  <2>1. \A w \in ToSet(ts) : w \in Words
    BY <1>2, ToSetTyped
  <2>2. \A w \in ToSet(ts) : ~ IsInternet(w) /\ ~ w.upper
    BY <1>1
  <2>3. QED
    BY <2>1, <2>2 DEF Internets, Words
<1>4. Without(ts, Internets) = ts
  BY <1>2, <1>3, WithoutNothing
<1>5. Mapped(ts, Lower) = ts
  BY <1>2, <1>3, LettersTyped, MappedSame
<1>6. TypesToV4(p) = p
  BY <1>1, <1>2, <1>4, <1>5, TypesV4Is
<1>7. m \in Seq(Words) /\ ToSet(m) = {Upper[w] : w \in ToSet(ts)}
  <2>1. \A w \in Words : Upper[w] \in Words
    BY LettersTyped
  <2>2. QED
    BY <1>1, <1>2, <2>1, MappedInto, ToSetMapped
<1>8. PICK one, y : one = <<Internet>> /\ y = one \o m
  OBVIOUS
<1>9. one \in Seq(Words) /\ Without(one, Internets) = <<>> /\ y \in Seq(Words)
  <2>1. Internet \in Internets
    BY InternetIsWord DEF Internets
  <2>2. <<Internet>> \in Seq(Words) /\ Without(<<Internet>>, Internets) = <<>>
    BY <2>1, InternetIsWord, Single, WithoutSingle
  <2>3. QED
    BY <1>7, <1>8, <2>2, ConcatProperties
<1>10. TypesToV3(p) = Types(y)
  <2>1. ToSet(ts) \cap Internets = {}
    BY <1>3
  <2>2. QED
    BY <1>1, <1>8, <2>1, TypesV3Is
<1>11. Without(m, Internets) = m
  <2>1. \A w \in ToSet(ts) : Upper[w] \notin Internets
    <3>1. \A w \in ToSet(ts) : Upper[w] = Word(w.word, TRUE) /\ w \in Words /\ w \notin Internets
      BY <1>3, LettersTyped
    <3>2. \A w \in ToSet(ts) : w.word # "INTERNET"
      BY <3>1 DEF Internets, IsInternet
    <3>3. \A w \in ToSet(ts) : Upper[w].word # "INTERNET"
      <4>1. \A w \in Words : Upper[w].word = w.word
        BY DEF Upper, Word, Words
      <4>2. QED
        BY <3>1, <3>2, <4>1
    <3>4. QED
      BY <3>3 DEF Internets, IsInternet
  <2>2. ToSet(m) \cap Internets = {}
    BY <1>7, <2>1
  <2>3. QED
    BY <1>7, <2>2, WithoutNothing
<1>12. Without(y, Internets) = m
  <2>1. Without(one \o m, Internets) = Without(one, Internets) \o Without(m, Internets)
    BY <1>7, <1>9, WithoutConcat
  <2>2. <<>> \o m = m
    BY <1>7, ConcatEmptySeq
  <2>3. QED
    BY <1>8, <1>9, <1>11, <2>1, <2>2
<1>13. Mapped(m, Lower) = ts
  <2>1. \A w \in ToSet(ts) : Lower[Upper[w]] = w
    BY <1>3, LettersTyped
  <2>2. QED
    BY <1>1, <1>2, <2>1, MappedBack
<1>14. PICK q : q = Types(y)
  OBVIOUS
<1>15. q \in Param /\ IsTypes(q) /\ q.types = y
  BY <1>9, <1>14, LiteralsAssumption DEF Types, Param, IsTypes
<1>16. TypesToV4(q) = Types(Mapped(Without(y, Internets), Lower))
  BY <1>15, TypesV4Is
<1>17. QED
  BY <1>2, <1>6, <1>10, <1>12, <1>13, <1>14, <1>16

LEMMA TypesV3Stay ==
    ASSUME NEW p \in Param, IsTypes(p), Internet \in ToSet(p.types),
           \A w \in ToSet(p.types) : w.upper
    PROVE  TypesToV3(p) = p
<1>1. PICK ts : ts = p.types
  OBVIOUS
<1>2. ts \in Seq(Words) /\ p = Types(ts)
  BY <1>1 DEF Param, IsTypes, Types
<1>3. ToSet(ts) \cap Internets # {}
  BY <1>1, InternetIsWord DEF Internets
<1>4. \A w \in ToSet(ts) : w \in Words /\ w.upper = TRUE
  <2>1. \A w \in ToSet(ts) : w \in Words
    BY <1>2, ToSetTyped
  <2>2. QED
    BY <1>1, <2>1 DEF Words
<1>5. Mapped(ts, Upper) = ts
  BY <1>2, <1>4, LettersTyped, MappedSame
<1>6. QED
  BY <1>1, <1>2, <1>3, <1>5, TypesV3Is

-----------------------------------------------------------------------------
(* The parameters of an address *)

ParamV4 == [p \in Param |-> TypesToV4(p)]
ParamV3 == [p \in Param |-> TypesToV3(p)]

NoTypes == Types(<<>>)
OnlyInternet == Types(<<Internet>>)

HasTypes(params) == \E p \in ToSet(params) : IsTypes(p)

LEMMA NoTypesTyped ==
    /\ NoTypes \in Param /\ IsTypes(NoTypes) /\ NoTypes.types = <<>>
    /\ OnlyInternet \in Param /\ IsTypes(OnlyInternet) /\ OnlyInternet.types = <<Internet>>
<1>1. <<>> \in Seq(Words) /\ <<Internet>> \in Seq(Words)
  BY InternetIsWord, Single
<1>2. QED
  BY <1>1, LiteralsAssumption DEF NoTypes, OnlyInternet, Types, Param, IsTypes

LEMMA ParamFunctions ==
    \A p \in Param : /\ ParamV4[p] = TypesToV4(p) /\ ParamV4[p] \in Param
                     /\ ParamV3[p] = TypesToV3(p) /\ ParamV3[p] \in Param
BY TypesV4, TypesV3 DEF ParamV4, ParamV3

LEMMA ParamsV4Is ==
    ASSUME NEW ps \in Seq(Param)
    PROVE  EmailParamsToV4(ps) = Without(Mapped(ps, ParamV4), {NoTypes})
<1>1. \A i \in DOMAIN ps : ps[i] \in Param
  OBVIOUS
<1>2. \A i \in DOMAIN ps : TypesToV4(ps[i]) = ParamV4[ps[i]]
  BY <1>1, ParamFunctions
<1>3. Each(ps, TypesToV4) = Mapped(ps, ParamV4)
  BY <1>2 DEF Each, Mapped
<1>4. QED
  BY <1>3 DEF EmailParamsToV4, NoTypes

LEMMA ParamsV4 ==
    ASSUME NEW ps \in Seq(Param)
    PROVE  /\ EmailParamsToV4(ps) \in Seq(Param)
           /\ ToSet(EmailParamsToV4(ps)) = {TypesToV4(p) : p \in ToSet(ps)} \ {NoTypes}
<1>1. PICK ms : ms = Mapped(ps, ParamV4)
  OBVIOUS
<1>2. ms \in Seq(Param) /\ ToSet(ms) = {ParamV4[p] : p \in ToSet(ps)}
  BY <1>1, ParamFunctions, MappedInto, ToSetMapped
<1>3. {ParamV4[p] : p \in ToSet(ps)} = {TypesToV4(p) : p \in ToSet(ps)}
  BY ToSetTyped, ParamFunctions
<1>4. Without(ms, {NoTypes}) \in Seq(Param)
      /\ ToSet(Without(ms, {NoTypes})) = ToSet(ms) \ {NoTypes}
  BY <1>2, WithoutTyped, ToSetWithout
<1>5. QED
  BY <1>1, <1>2, <1>3, <1>4, ParamsV4Is

LEMMA ParamsV3Is ==
    ASSUME NEW ps \in Seq(Param)
    PROVE  EmailParamsToV3(ps) = IF HasTypes(ps) THEN Mapped(ps, ParamV3)
                                 ELSE Append(ps, OnlyInternet)
<1>1. \A i \in DOMAIN ps : ps[i] \in Param
  OBVIOUS
<1>2. \A i \in DOMAIN ps : TypesToV3(ps[i]) = ParamV3[ps[i]]
  BY <1>1, ParamFunctions
<1>3. Each(ps, TypesToV3) = Mapped(ps, ParamV3)
  BY <1>2 DEF Each, Mapped
<1>4. HasTypes(ps) <=> \E i \in DOMAIN ps : IsTypes(ps[i])
  BY DEF HasTypes, ToSet
<1>5. QED
  BY <1>3, <1>4 DEF EmailParamsToV3, OnlyInternet

LEMMA ParamsV3 ==
    ASSUME NEW ps \in Seq(Param)
    PROVE  /\ EmailParamsToV3(ps) \in Seq(Param)
           /\ HasTypes(ps) => ToSet(EmailParamsToV3(ps)) = {TypesToV3(p) : p \in ToSet(ps)}
           /\ ~ HasTypes(ps) => ToSet(EmailParamsToV3(ps)) = ToSet(ps) \cup {OnlyInternet}
<1>1. PICK ms, as : ms = Mapped(ps, ParamV3) /\ as = Append(ps, OnlyInternet)
  OBVIOUS
<1>2. ms \in Seq(Param) /\ ToSet(ms) = {ParamV3[p] : p \in ToSet(ps)}
  BY <1>1, ParamFunctions, MappedInto, ToSetMapped
<1>3. {ParamV3[p] : p \in ToSet(ps)} = {TypesToV3(p) : p \in ToSet(ps)}
  BY ToSetTyped, ParamFunctions
<1>4. as \in Seq(Param) /\ ToSet(as) = ToSet(ps) \cup {OnlyInternet}
  <2>1. as \in Seq(Param)
    BY <1>1, NoTypesTyped, AppendProperties
  <2>2. ToSet(as) = ToSet(ps) \cup {OnlyInternet}
    BY <1>1, NoTypesTyped, ToSetAppend
  <2>3. QED
    BY <2>1, <2>2
<1>5. QED
  BY <1>1, <1>2, <1>3, <1>4, ParamsV3Is

(* Parameters as 4.0 and as 3.0 want them *)
V4Params(ps) == \A p \in ToSet(ps) :
    IsTypes(p) => p.types # <<>> /\ \A w \in ToSet(p.types) : ~ IsInternet(w) /\ ~ w.upper

V3Params(ps) ==
    /\ HasTypes(ps)
    /\ \A p \in ToSet(ps) :
          IsTypes(p) => Internet \in ToSet(p.types) /\ \A w \in ToSet(p.types) : w.upper

LEMMA LowerPure == \A w \in Words \ Internets : ~ IsInternet(Lower[w]) /\ ~ Lower[w].upper
<1>1. \A w \in Words : Lower[w].word = w.word /\ Lower[w].upper = FALSE
  BY DEF Lower, Word, Words
<1>2. QED
  BY <1>1 DEF Internets, IsInternet

LEMMA UpperPure == \A w \in Words : Upper[w].upper
BY DEF Upper, Word, Words

LEMMA ParamsV4Pure ==
    ASSUME NEW ps \in Seq(Param)
    PROVE  V4Params(EmailParamsToV4(ps))
<1> SUFFICES ASSUME NEW q \in ToSet(EmailParamsToV4(ps)), IsTypes(q)
             PROVE  q.types # <<>> /\ \A w \in ToSet(q.types) : ~ IsInternet(w) /\ ~ w.upper
  BY DEF V4Params
<1>1. PICK p \in ToSet(ps) : q = TypesToV4(p)
  BY ParamsV4
<1>2. p \in Param /\ q # NoTypes
  BY ParamsV4, ToSetTyped
<1>3. q \in Param /\ IsTypes(p)
  BY <1>1, <1>2, TypesV4 DEF IsTypes
<1>4. q.types # <<>>
  BY <1>2, <1>3 DEF NoTypes, Types, Param, IsTypes
<1>5. ToSet(q.types) = {Lower[w] : w \in ToSet(p.types) \ Internets}
  BY <1>1, <1>2, <1>3, TypesV4
<1>6. ToSet(p.types) \subseteq Words
  BY <1>2, ToSetTyped DEF Param
<1>7. QED
  BY <1>4, <1>5, <1>6, LowerPure

LEMMA OnlyInternetToV4 == TypesToV4(OnlyInternet) = NoTypes
<1>1. Internet \in Internets /\ Internet \in Words
  BY InternetIsWord DEF Internets
<1>2. Without(<<Internet>>, Internets) = <<>>
  BY <1>1, WithoutSingle
<1>3. TypesToV4(OnlyInternet) = Types(Mapped(Without(OnlyInternet.types, Internets), Lower))
  BY NoTypesTyped, TypesV4Is
<1>4. Mapped(<<>>, Lower) = <<>>
  BY MappedEmpty
<1>5. QED
  BY <1>2, <1>3, <1>4, NoTypesTyped DEF NoTypes

LEMMA ParamsV4Stay ==
    ASSUME NEW ps \in Seq(Param), V4Params(ps)
    PROVE  /\ EmailParamsToV4(ps) = ps
           /\ EmailParamsToV4(EmailParamsToV3(ps)) = ps
<1>1. \A p \in ToSet(ps) : p \in Param
  BY ToSetTyped
<1>2. \A p \in ToSet(ps) : ParamV4[p] = p /\ ParamV4[ParamV3[p]] = p
  <2> SUFFICES ASSUME NEW p \in ToSet(ps)
               PROVE  ParamV4[p] = p /\ ParamV4[ParamV3[p]] = p
    OBVIOUS
  <2>1. p \in Param /\ ParamV4[p] = TypesToV4(p) /\ ParamV3[p] = TypesToV3(p)
        /\ ParamV3[p] \in Param
    BY <1>1, ParamFunctions
  <2>2. ParamV4[ParamV3[p]] = TypesToV4(TypesToV3(p))
    BY <2>1, ParamFunctions
  <2>3. CASE ~ IsTypes(p)
    BY <2>1, <2>2, <2>3, TypesV4, TypesV3
  <2>4. CASE IsTypes(p)
    <3>1. \A w \in ToSet(p.types) : ~ IsInternet(w) /\ ~ w.upper
      BY <2>4 DEF V4Params
    <3>2. TypesToV4(p) = p /\ TypesToV4(TypesToV3(p)) = p
      BY <2>1, <2>4, <3>1, TypesV4Stay
    <3>3. QED
      BY <2>1, <2>2, <3>2
  <2>5. QED
    BY <2>3, <2>4
<1>3. NoTypes \notin ToSet(ps)
  BY NoTypesTyped DEF V4Params
<1>4. Without(ps, {NoTypes}) = ps
  BY <1>3, WithoutNothing
<1>5. Mapped(ps, ParamV4) = ps
  BY <1>2, MappedSame
<1>6. EmailParamsToV4(ps) = ps
  BY <1>4, <1>5, ParamsV4Is
<1>7. CASE HasTypes(ps)
  <2>1. PICK ms : ms = Mapped(ps, ParamV3)
    OBVIOUS
  <2>2. ms \in Seq(Param)
    BY <2>1, ParamFunctions, MappedInto
  <2>3. Mapped(ms, ParamV4) = ps
    BY <1>2, <2>1, MappedBack
  <2>4. EmailParamsToV4(ms) = ps
    BY <1>4, <2>2, <2>3, ParamsV4Is
  <2>5. QED
    BY <1>6, <1>7, <2>1, <2>4, ParamsV3Is
<1>8. CASE ~ HasTypes(ps)
  <2>1. PICK as, it : as = Append(ps, it) /\ it = OnlyInternet
    OBVIOUS
  <2>2. it \in Param /\ ParamV4[it] = NoTypes
    BY <2>1, NoTypesTyped, OnlyInternetToV4, ParamFunctions
  <2>3. as \in Seq(Param)
    BY <2>1, <2>2, AppendProperties
  <2>4. Mapped(as, ParamV4) = Append(ps, NoTypes)
    BY <1>5, <2>1, <2>2, MappedAppend
  <2>5. Without(Append(ps, NoTypes), {NoTypes}) = ps
    BY <1>4, NoTypesTyped, WithoutAppend
  <2>6. EmailParamsToV4(as) = ps
    BY <2>3, <2>4, <2>5, ParamsV4Is
  <2>7. QED
    BY <1>6, <1>8, <2>1, <2>6, ParamsV3Is
<1>9. QED
  BY <1>7, <1>8

LEMMA ParamsV3Pure ==
    ASSUME NEW ps \in Seq(Param)
    PROVE  V3Params(EmailParamsToV3(ps))
<1>1. CASE HasTypes(ps)
  <2>1. \A p \in ToSet(ps) : p \in Param
    BY ToSetTyped
  <2>2. ToSet(EmailParamsToV3(ps)) = {TypesToV3(p) : p \in ToSet(ps)}
    BY <1>1, ParamsV3
  <2>3. \A p \in ToSet(ps) : IsTypes(TypesToV3(p)) <=> IsTypes(p)
    BY <2>1, TypesV3 DEF IsTypes
  <2>4. HasTypes(EmailParamsToV3(ps))
    BY <1>1, <2>2, <2>3 DEF HasTypes
  <2>5. ASSUME NEW p \in ToSet(ps), IsTypes(p)
        PROVE  Internet \in ToSet(TypesToV3(p).types)
               /\ \A w \in ToSet(TypesToV3(p).types) : w.upper
    <3>1. ToSet(TypesToV3(p).types) = {Upper[w] : w \in ToSet(p.types)} \cup {Internet}
      BY <2>1, <2>5, TypesV3
    <3>2. ToSet(p.types) \subseteq Words
      BY <2>1, ToSetTyped DEF Param
    <3>3. QED
      BY <3>1, <3>2, UpperPure, InternetIsWord
  <2>6. QED
    BY <2>2, <2>3, <2>4, <2>5 DEF V3Params
<1>2. CASE ~ HasTypes(ps)
  <2>1. ToSet(EmailParamsToV3(ps)) = ToSet(ps) \cup {OnlyInternet}
    BY <1>2, ParamsV3
  <2>2. ToSet(OnlyInternet.types) = {Internet}
    BY NoTypesTyped, InternetIsWord, Single
  <2>3. \A p \in ToSet(ps) : ~ IsTypes(p)
    BY <1>2 DEF HasTypes
  <2>4. QED
    BY <2>1, <2>2, <2>3, NoTypesTyped, InternetIsWord DEF V3Params, HasTypes
<1>3. QED
  BY <1>1, <1>2

LEMMA ParamsV3Stay ==
    ASSUME NEW ps \in Seq(Param), V3Params(ps)
    PROVE  EmailParamsToV3(ps) = ps
<1>1. \A p \in ToSet(ps) : p \in Param
  BY ToSetTyped
<1>2. \A p \in ToSet(ps) : TypesToV3(p) = p
  BY <1>1, TypesV3, TypesV3Stay DEF V3Params
<1>3. \A p \in ToSet(ps) : ParamV3[p] = p
  BY <1>1, <1>2, ParamFunctions
<1>4. Mapped(ps, ParamV3) = ps
  BY <1>3, MappedSame
<1>5. QED
  BY <1>4, ParamsV3Is DEF V3Params

(* What the types of an address say is not changed. *)
SaidSets(ps) == {{w.word : w \in ToSet(p.types)} : p \in {q \in ToSet(ps) : IsTypes(q)}}

SaidTypes(ps) == (UNION SaidSets(ps)) \ {"INTERNET"}

SaidOthers(ps) == {p \in ToSet(ps) : ~ IsTypes(p)}

LEMMA SaidIs ==
    ASSUME NEW ps
    PROVE  \A x : x \in SaidTypes(ps) <=>
              /\ x # "INTERNET"
              /\ \E p \in ToSet(ps) : IsTypes(p) /\ \E w \in ToSet(p.types) : x = w.word
<1>1. PICK set : set = SaidSets(ps)
  OBVIOUS
<1>2. \A y : y \in set <=> \E p \in ToSet(ps) : IsTypes(p) /\ y = {w.word : w \in ToSet(p.types)}
  BY <1>1 DEF SaidSets
<1>3. SaidTypes(ps) = (UNION set) \ {"INTERNET"}
  BY <1>1, Zenon DEF SaidTypes
<1>4. \A x : x \in UNION set <=> \E y \in set : x \in y
  OBVIOUS
<1>5. \A x : x \in UNION set
             <=> \E p \in ToSet(ps) : IsTypes(p) /\ \E w \in ToSet(p.types) : x = w.word
  <2> SUFFICES ASSUME NEW x
               PROVE  x \in UNION set
                      <=> \E p \in ToSet(ps) : IsTypes(p) /\ \E w \in ToSet(p.types) : x = w.word
    OBVIOUS
  <2>1. x \in UNION set
        <=> \E p \in ToSet(ps) : IsTypes(p) /\ x \in {w.word : w \in ToSet(p.types)}
    BY <1>2, <1>4, Zenon
  <2>2. QED
    BY <2>1
<1>6. QED
  BY <1>3, <1>5

LEMMA SaidV4 ==
    ASSUME NEW ps \in Seq(Param)
    PROVE  /\ SaidTypes(EmailParamsToV4(ps)) = SaidTypes(ps)
           /\ SaidOthers(EmailParamsToV4(ps)) = SaidOthers(ps)
<1>1. PICK qs : qs = EmailParamsToV4(ps)
  OBVIOUS
<1>2. ToSet(qs) = {TypesToV4(p) : p \in ToSet(ps)} \ {NoTypes}
  BY <1>1, ParamsV4
<1>3. \A p \in ToSet(ps) : p \in Param
  BY ToSetTyped
<1>4. \A p \in ToSet(ps) : (IsTypes(TypesToV4(p)) <=> IsTypes(p))
                           /\ (~ IsTypes(p) => TypesToV4(p) = p)
  BY <1>3, TypesV4 DEF IsTypes
<1>5. \A w \in Words : Lower[w].word = w.word
  BY DEF Lower, Word, Words
<1>6. \A p \in ToSet(ps) : IsTypes(p) =>
         ToSet(TypesToV4(p).types) = {Lower[w] : w \in ToSet(p.types) \ Internets}
  BY <1>3, TypesV4
<1>7. \A p \in ToSet(ps) : IsTypes(p) => ToSet(p.types) \subseteq Words
  BY <1>3, ToSetTyped DEF Param
<1>8. \A x : x \in SaidTypes(qs) => x \in SaidTypes(ps)
  <2> SUFFICES ASSUME NEW x \in SaidTypes(qs)
               PROVE  x \in SaidTypes(ps)
    OBVIOUS
  <2>1. x # "INTERNET"
    BY SaidIs
  <2>2. PICK q \in ToSet(qs) : IsTypes(q) /\ \E w \in ToSet(q.types) : x = w.word
    BY SaidIs
  <2>word. PICK w \in ToSet(q.types) : x = w.word
    BY <2>2
  <2>3. PICK p \in ToSet(ps) : q = TypesToV4(p)
    BY <1>2
  <2>4. PICK u \in ToSet(p.types) : w = Lower[u]
    BY <1>4, <1>6, <2>2, <2>word, <2>3
  <2>5. x = u.word /\ IsTypes(p)
    BY <1>4, <1>5, <1>7, <2>2, <2>word, <2>3, <2>4
  <2>6. QED
    BY <2>1, <2>5, SaidIs
<1>9. \A x : x \in SaidTypes(ps) => x \in SaidTypes(qs)
  <2> SUFFICES ASSUME NEW x \in SaidTypes(ps)
               PROVE  x \in SaidTypes(qs)
    OBVIOUS
  <2>1. x # "INTERNET"
    BY SaidIs
  <2>2. PICK p \in ToSet(ps) : IsTypes(p) /\ \E u \in ToSet(p.types) : x = u.word
    BY SaidIs
  <2>word. PICK u \in ToSet(p.types) : x = u.word
    BY <2>2
  <2>3. PICK q : q = TypesToV4(p)
    OBVIOUS
  <2>4. u \in Words /\ u \notin Internets
    BY <1>7, <2>1, <2>2, <2>word DEF Internets, IsInternet
  <2>5. Lower[u] \in ToSet(q.types) /\ Lower[u].word = x
    BY <1>5, <1>6, <2>2, <2>word, <2>3, <2>4
  <2>6. q # NoTypes
    <3>1. ToSet(<<>>) = {}
      BY ToSetEmpty
    <3>2. QED
      BY <2>5, <3>1, NoTypesTyped
  <2>7. q \in ToSet(qs) /\ IsTypes(q)
    BY <1>2, <1>4, <2>2, <2>word, <2>3, <2>6
  <2>8. QED
    BY <2>1, <2>5, <2>7, SaidIs
<1>10. SaidOthers(qs) = SaidOthers(ps)
  BY <1>2, <1>4, NoTypesTyped DEF SaidOthers
<1>11. QED
  BY <1>1, <1>8, <1>9, <1>10

LEMMA SaidV3 ==
    ASSUME NEW ps \in Seq(Param)
    PROVE  /\ SaidTypes(EmailParamsToV3(ps)) = SaidTypes(ps)
           /\ SaidOthers(EmailParamsToV3(ps)) = SaidOthers(ps)
<1>1. PICK qs : qs = EmailParamsToV3(ps)
  OBVIOUS
<1>2. \A p \in ToSet(ps) : p \in Param
  BY ToSetTyped
<1>3. Internet.word = "INTERNET"
  BY DEF Internet, Word
<1>4. CASE ~ HasTypes(ps)
  <2>1. ToSet(qs) = ToSet(ps) \cup {OnlyInternet}
    BY <1>1, <1>4, ParamsV3
  <2>2. \A p \in ToSet(ps) : ~ IsTypes(p)
    BY <1>4 DEF HasTypes
  <2>3. ToSet(OnlyInternet.types) = {Internet}
    BY NoTypesTyped, InternetIsWord, Single
  <2>4. \A x : x \notin SaidTypes(ps) /\ x \notin SaidTypes(qs)
    BY <1>3, <2>1, <2>2, <2>3, SaidIs
  <2>5. SaidOthers(qs) = SaidOthers(ps)
    BY <2>1, <2>2, NoTypesTyped DEF SaidOthers
  <2>6. QED
    BY <1>1, <2>4, <2>5
<1>5. CASE HasTypes(ps)
  <2>1. ToSet(qs) = {TypesToV3(p) : p \in ToSet(ps)}
    BY <1>1, <1>5, ParamsV3
  <2>2. \A p \in ToSet(ps) : (IsTypes(TypesToV3(p)) <=> IsTypes(p))
                             /\ (~ IsTypes(p) => TypesToV3(p) = p)
    BY <1>2, TypesV3 DEF IsTypes
  <2>3. \A w \in Words : Upper[w].word = w.word
    BY DEF Upper, Word, Words
  <2>4. \A p \in ToSet(ps) : IsTypes(p) =>
           ToSet(TypesToV3(p).types) = {Upper[w] : w \in ToSet(p.types)} \cup {Internet}
    BY <1>2, TypesV3
  <2>5. \A p \in ToSet(ps) : IsTypes(p) => ToSet(p.types) \subseteq Words
    BY <1>2, ToSetTyped DEF Param
  <2>6. \A x : x \in SaidTypes(qs) => x \in SaidTypes(ps)
    <3> SUFFICES ASSUME NEW x \in SaidTypes(qs)
                 PROVE  x \in SaidTypes(ps)
      OBVIOUS
    <3>1. x # "INTERNET"
      BY SaidIs
    <3>2. PICK q \in ToSet(qs) : IsTypes(q) /\ \E w \in ToSet(q.types) : x = w.word
      BY SaidIs
    <3>word. PICK w \in ToSet(q.types) : x = w.word
      BY <3>2
    <3>3. PICK p \in ToSet(ps) : q = TypesToV3(p)
      BY <2>1
    <3>4. PICK u \in ToSet(p.types) : w = Upper[u]
      BY <1>3, <2>2, <2>4, <3>1, <3>2, <3>word, <3>3
    <3>5. x = u.word /\ IsTypes(p)
      BY <2>2, <2>3, <2>5, <3>2, <3>word, <3>3, <3>4
    <3>6. QED
      BY <3>1, <3>5, SaidIs
  <2>7. \A x : x \in SaidTypes(ps) => x \in SaidTypes(qs)
    <3> SUFFICES ASSUME NEW x \in SaidTypes(ps)
                 PROVE  x \in SaidTypes(qs)
      OBVIOUS
    <3>1. x # "INTERNET"
      BY SaidIs
    <3>2. PICK p \in ToSet(ps) : IsTypes(p) /\ \E u \in ToSet(p.types) : x = u.word
      BY SaidIs
    <3>word. PICK u \in ToSet(p.types) : x = u.word
      BY <3>2
    <3>3. Upper[u] \in ToSet(TypesToV3(p).types) /\ Upper[u].word = x
      BY <2>3, <2>4, <2>5, <3>2, <3>word
    <3>4. TypesToV3(p) \in ToSet(qs) /\ IsTypes(TypesToV3(p))
      BY <2>1, <2>2, <3>2, <3>word
    <3>5. QED
      BY <3>1, <3>3, <3>4, SaidIs
  <2>8. SaidOthers(qs) = SaidOthers(ps)
    BY <2>1, <2>2 DEF SaidOthers
  <2>9. QED
    BY <1>1, <2>6, <2>7, <2>8
<1>6. QED
  BY <1>4, <1>5

-----------------------------------------------------------------------------
(* Lines *)

(* The empty string is a literal that only Zenon reads. *)
LEMMA NamesApart ==
    /\ "EMAIL" \in EmailNames /\ "PHOTO" \in PhotoNames
    /\ \A n \in EmailNames : n \notin PhotoNames
    /\ \A n \in EmailNames \cup PhotoNames :
          n \notin {"BEGIN", "END", "PROFILE", "VERSION", "UID", "FN", "N"}
BY Zenon, NamesAssumption

LEMMA BlankApart ==
    \A n \in EmailNames \cup PhotoNames \cup {"VERSION", "UID", "FN", "N"} : Blank.name # n
<1>1. Blank.name = ""
  BY DEF Blank
<1>2. "" \notin EmailNames /\ "" \notin PhotoNames
  BY Zenon, NamesAssumption
<1>3. "" # "VERSION" /\ "" # "UID" /\ "" # "FN" /\ "" # "N"
  BY Zenon
<1>4. QED
  BY Zenon, <1>1, <1>2, <1>3

LEMMA LineKinds ==
    ASSUME NEW l \in Line
    PROVE  /\ l.name \in EmailNames <=> l \in EmailLine
           /\ l.name \in PhotoNames <=> l \in PhotoLine
           /\ l.name = "VERSION" <=> l \in VersionLine
           /\ l.name \in {"BEGIN", "END", "PROFILE", ""} <=> l \in Mark
BY NamesAssumption DEF Line, Mark, VersionLine, EmailLine, PhotoLine, Plain

LEMMA MarkIs ==
    ASSUME NEW l \in Mark
    PROVE  (l.name = "" => l = Blank) /\ (l.name = "PROFILE" => l = Profile)
BY DEF Mark, Blank, Profile

LEMMA MarksAreLines == Blank \in Line /\ Profile \in Line /\ End \in Line
                       /\ Blank.name = "" /\ Profile.name = "PROFILE" /\ End.name = "END"
BY DEF Line, Mark, Blank, Profile, End

LEMMA MeaningIs ==
    ASSUME NEW l
    PROVE  Meaning(l) = [name |-> l.name, address |-> l.value,
                         types |-> SaidTypes(l.params), others |-> SaidOthers(l.params)]
BY DEF Meaning, SaidTypes, SaidSets, SaidOthers

(* An address under any name that begins with EMAIL *)
Address(name, value, params) == [name |-> name, value |-> value, params |-> params]

LEMMA EmailIs ==
    ASSUME NEW l \in EmailLine
    PROVE  /\ l.name \in EmailNames /\ l.params \in Seq(Param) /\ l.value \in STRING
           /\ l = Address(l.name, l.value, l.params)
           /\ LineToV4(l) = Address(l.name, l.value, EmailParamsToV4(l.params))
           /\ LineToV3(l) = Address(l.name, l.value, EmailParamsToV3(l.params))
<1>1. l.name \in EmailNames /\ l.params \in Seq(Param) /\ l.value \in STRING
      /\ l = Address(l.name, l.value, l.params)
  BY DEF EmailLine, Address
<1>2. l # Version("3.0", TRUE) /\ l # Version("4.0", TRUE)
  BY <1>1, NamesApart DEF Version
<1>3. /\ [l EXCEPT !.params = EmailParamsToV4(@)]
            = Address(l.name, l.value, EmailParamsToV4(l.params))
      /\ [l EXCEPT !.params = EmailParamsToV3(@)]
            = Address(l.name, l.value, EmailParamsToV3(l.params))
  BY <1>1 DEF Address, EmailLine
<1>4. QED
  BY <1>1, <1>2, <1>3 DEF LineToV4, LineToV3

LEMMA EmailTyped ==
    ASSUME NEW n \in EmailNames, NEW v \in STRING, NEW ps \in Seq(Param)
    PROVE  /\ Address(n, v, ps) \in EmailLine /\ Address(n, v, ps).params = ps
           /\ Address(n, v, ps).value = v /\ Address(n, v, ps).name = n
BY DEF EmailLine, Address

LEMMA EmailPureV4 ==
    ASSUME NEW l \in EmailLine
    PROVE  PureV4(l) <=> V4Params(l.params)
<1>1. l.name \in EmailNames /\ l.name \notin PhotoNames
  BY EmailIs, NamesApart
<1>2. l # Profile /\ l # Blank
  BY <1>1, MarksAreLines, BlankApart, NamesApart
<1>3. QED
  BY <1>1, <1>2 DEF PureV4, V4Params

LEMMA EmailPureV3 ==
    ASSUME NEW l \in EmailLine, V3Params(l.params)
    PROVE  PureV3(l)
<1>1. l.name \in EmailNames /\ l.name \notin PhotoNames
  BY EmailIs, NamesApart
<1>2. PICK p \in ToSet(l.params) : IsTypes(p)
  BY DEF V3Params, HasTypes
<1>3. Internet \in ToSet(p.types)
  BY <1>2 DEF V3Params
<1>4. Internet \in UNION {ToSet(q.types) : q \in {r \in ToSet(l.params) : IsTypes(r)}}
  BY <1>2, <1>3
<1>5. \A w \in UNION {ToSet(q.types) : q \in {r \in ToSet(l.params) : IsTypes(r)}} : w.upper
  <2> SUFFICES ASSUME NEW q \in ToSet(l.params), IsTypes(q), NEW w \in ToSet(q.types)
               PROVE  w.upper
    OBVIOUS
  <2>1. QED
    BY DEF V3Params
<1>6. QED
  BY <1>1, <1>4, <1>5 DEF PureV3

LEMMA EmailToV4 ==
    ASSUME NEW l \in EmailLine
    PROVE  /\ LineToV4(l) \in EmailLine /\ LineToV4(l).name = l.name
           /\ Meaning(LineToV4(l)) = Meaning(l)
           /\ PureV4(LineToV4(l))
           /\ PureV4(l) => LineToV4(l) = l /\ LineToV4(LineToV3(l)) = l
<1>1. PICK n, ps, v : n = l.name /\ ps = l.params /\ v = l.value
  OBVIOUS
<1>2. n \in EmailNames /\ ps \in Seq(Param) /\ v \in STRING /\ l = Address(n, v, ps)
  BY <1>1, EmailIs
<1>3. PICK qs, rs : qs = EmailParamsToV4(ps) /\ rs = EmailParamsToV3(ps)
  OBVIOUS
<1>4. qs \in Seq(Param) /\ rs \in Seq(Param)
  BY <1>2, <1>3, ParamsV4, ParamsV3
<1>5. LineToV4(l) = Address(n, v, qs) /\ LineToV3(l) = Address(n, v, rs)
  BY <1>1, <1>3, EmailIs
<1>6. PICK y, z : y = Address(n, v, qs) /\ z = Address(n, v, rs)
  OBVIOUS
<1>7. /\ y \in EmailLine /\ y.params = qs /\ y.value = v /\ y.name = n
      /\ z \in EmailLine /\ z.params = rs /\ z.value = v /\ z.name = n
  BY <1>2, <1>4, <1>6, EmailTyped
<1>8. Meaning(y) = Meaning(l)
  <2>1. SaidTypes(qs) = SaidTypes(ps) /\ SaidOthers(qs) = SaidOthers(ps)
    BY <1>2, <1>3, SaidV4
  <2>2. QED
    BY <1>1, <1>7, <2>1, MeaningIs
<1>9. PureV4(y)
  BY <1>2, <1>3, <1>7, ParamsV4Pure, EmailPureV4
<1>10. ASSUME PureV4(l)
       PROVE  y = l /\ LineToV4(z) = l
  <2>1. V4Params(ps)
    BY <1>1, <1>10, EmailPureV4
  <2>2. EmailParamsToV4(ps) = ps /\ EmailParamsToV4(rs) = ps
    BY <1>2, <1>3, <2>1, ParamsV4Stay
  <2>3. LineToV4(z) = Address(n, v, EmailParamsToV4(rs))
    BY <1>7, EmailIs
  <2>4. QED
    BY <1>2, <1>3, <1>6, <2>2, <2>3
<1>11. QED
  BY <1>1, <1>5, <1>6, <1>7, <1>8, <1>9, <1>10

LEMMA EmailToV3 ==
    ASSUME NEW l \in EmailLine
    PROVE  /\ LineToV3(l) \in EmailLine /\ LineToV3(l).name = l.name
           /\ Meaning(LineToV3(l)) = Meaning(l)
           /\ PureV3(LineToV3(l))
           /\ LineToV3(LineToV3(l)) = LineToV3(l)
<1>1. PICK n, ps, v : n = l.name /\ ps = l.params /\ v = l.value
  OBVIOUS
<1>2. n \in EmailNames /\ ps \in Seq(Param) /\ v \in STRING /\ l = Address(n, v, ps)
  BY <1>1, EmailIs
<1>3. PICK qs : qs = EmailParamsToV3(ps)
  OBVIOUS
<1>4. qs \in Seq(Param) /\ V3Params(qs)
  BY <1>2, <1>3, ParamsV3, ParamsV3Pure
<1>5. LineToV3(l) = Address(n, v, qs)
  BY <1>1, <1>3, EmailIs
<1>6. PICK y : y = Address(n, v, qs)
  OBVIOUS
<1>7. y \in EmailLine /\ y.params = qs /\ y.value = v /\ y.name = n
  BY <1>2, <1>4, <1>6, EmailTyped
<1>8. Meaning(y) = Meaning(l)
  <2>1. SaidTypes(qs) = SaidTypes(ps) /\ SaidOthers(qs) = SaidOthers(ps)
    BY <1>2, <1>3, SaidV3
  <2>2. QED
    BY <1>1, <1>7, <2>1, MeaningIs
<1>9. PureV3(y)
  BY <1>4, <1>7, EmailPureV3
<1>10. LineToV3(y) = y
  <2>1. LineToV3(y) = Address(n, v, EmailParamsToV3(qs))
    BY <1>7, EmailIs
  <2>2. QED
    BY <1>4, <1>6, <2>1, ParamsV3Stay
<1>11. QED
  BY <1>1, <1>5, <1>6, <1>7, <1>8, <1>9, <1>10

LEMMA KnownIs ==
    ASSUME NEW k \in STRING
    PROVE  /\ Known(k) \in STRING /\ Known(Known(k)) = Known(k)
           /\ Known(k) \in {"png", "gif"} <=> k \in {"png", "gif"}
           /\ k \in {"png", "gif"} => Known(k) = k
BY LiteralsAssumption DEF Known

LEMMA PhotoIs ==
    ASSUME NEW l \in PhotoLine
    PROVE  /\ l.name \in PhotoNames /\ l.form \in {"b", "data", "uri"} /\ l.kind \in STRING
           /\ l.base64 \in BOOLEAN /\ l.params \in BOOLEAN /\ l.data \in STRING
           /\ l.splits \in BOOLEAN /\ l.cut \in STRING
           /\ l.form = "b" => l.base64
           /\ l.splits => l.form = "data"
           /\ LineToV4(l) = IF l.form = "b"
                            THEN Photo("data", Known(l.kind), TRUE, FALSE, l.data) ELSE l
           /\ LineToV3(l) = IF l.splits
                            THEN Photo("b", Known(l.kind), TRUE, FALSE, l.cut) ELSE l
<1>1. /\ l.name \in PhotoNames /\ l.form \in {"b", "data", "uri"} /\ l.kind \in STRING
      /\ l.base64 \in BOOLEAN /\ l.params \in BOOLEAN /\ l.data \in STRING
      /\ l.splits \in BOOLEAN /\ l.cut \in STRING
      /\ l.form = "b" => l.base64
      /\ l.splits => l.form = "data"
  BY DEF PhotoLine
<1>2. l # Version("3.0", TRUE) /\ l # Version("4.0", TRUE)
  BY <1>1, NamesApart DEF Version
<1>3. l # Profile /\ l.name \notin EmailNames
  BY <1>1, MarksAreLines, BlankApart, NamesApart
<1>4. QED
  BY <1>1, <1>2, <1>3 DEF LineToV4, LineToV3, PhotoToV4, PhotoToV3

LEMMA PhotoPure ==
    ASSUME NEW l \in PhotoLine
    PROVE  /\ PureV4(l) <=> l.form # "b"
           /\ PureV3(l) <=> ~ l.splits
<1>1. l.name \in PhotoNames /\ l.name \notin EmailNames
  BY PhotoIs, NamesApart
<1>2. l # Profile /\ l # Blank
  BY <1>1, MarksAreLines, BlankApart, NamesApart
<1>3. QED
  BY <1>1, <1>2 DEF PureV4, PureV3

(* What a conversion makes of an image: a line that no other changes but   *)
(* into its counterpart in the other dialect.                              *)
LEMMA PhotoConverted ==
    ASSUME NEW k \in STRING, NEW d \in STRING
    PROVE  \E y, z :
        /\ y = Photo("data", Known(k), TRUE, FALSE, d)
        /\ y \in PhotoLine /\ y.form = "data" /\ y.base64 = TRUE /\ y.data = d
        /\ y.kind = Known(k) /\ y.name = "PHOTO" /\ ~ Misread(y) /\ ~ Renamed(y)
        /\ LineToV4(y) = y /\ LineToV3(y) = z
        /\ z = Photo("b", Known(k), TRUE, FALSE, d)
        /\ z \in PhotoLine /\ z.form = "b" /\ z.base64 = TRUE /\ z.data = d
        /\ z.kind = Known(k) /\ z.name = "PHOTO" /\ ~ Misread(z) /\ ~ Renamed(z)
        /\ LineToV4(z) = y /\ LineToV3(z) = z /\ ~ z.splits
<1>1. PICK kk : kk = Known(k)
  OBVIOUS
<1>2. kk \in STRING /\ Known(kk) = kk
  BY <1>1, KnownIs
<1>3. PICK y, z : y = Photo("data", kk, TRUE, FALSE, d) /\ z = Photo("b", kk, TRUE, FALSE, d)
  OBVIOUS
<1>4. "PHOTO" \in PhotoNames /\ Absent \in STRING
  BY NamesApart, LiteralsAssumption
<1>5. /\ y \in PhotoLine /\ y.form = "data" /\ y.base64 = TRUE /\ y.data = d /\ y.kind = kk
      /\ y.name = "PHOTO" /\ y.splits /\ y.cut = d
  <2>1. y = [name |-> "PHOTO", form |-> "data", kind |-> kk, base64 |-> TRUE,
             params |-> FALSE, data |-> d, splits |-> TRUE, cut |-> d]
    BY <1>3 DEF Photo
  <2>2. QED
    BY <1>2, <1>4, <2>1 DEF PhotoLine
<1>6. /\ z \in PhotoLine /\ z.form = "b" /\ z.base64 = TRUE /\ z.data = d /\ z.kind = kk
      /\ z.name = "PHOTO" /\ ~ z.splits
  <2>1. z = [name |-> "PHOTO", form |-> "b", kind |-> kk, base64 |-> TRUE,
             params |-> FALSE, data |-> d, splits |-> FALSE, cut |-> Absent]
    BY <1>3 DEF Photo
  <2>2. QED
    BY <1>2, <1>4, <2>1 DEF PhotoLine
<1>7. ~ Misread(y) /\ ~ Renamed(y) /\ ~ Misread(z) /\ ~ Renamed(z)
  BY <1>5, <1>6 DEF Misread, Renamed
<1>8. LineToV4(y) = y /\ LineToV3(z) = z
  BY <1>5, <1>6, PhotoIs
<1>9. LineToV3(y) = z
  <2>1. LineToV3(y) = IF y.splits THEN Photo("b", Known(y.kind), TRUE, FALSE, y.cut) ELSE y
    BY <1>5, PhotoIs
  <2>2. Known(y.kind) = kk /\ y.cut = d
    BY <1>2, <1>5
  <2>3. QED
    BY <1>3, <1>5, <2>1, <2>2
<1>10. LineToV4(z) = y
  <2>1. LineToV4(z) = IF z.form = "b" THEN Photo("data", Known(z.kind), TRUE, FALSE, z.data)
                                      ELSE z
    BY <1>6, PhotoIs
  <2>2. Known(z.kind) = kk /\ z.data = d
    BY <1>2, <1>6
  <2>3. QED
    BY <1>3, <1>6, <2>1, <2>2
<1>11. QED
  BY <1>1, <1>3, <1>5, <1>6, <1>7, <1>8, <1>9, <1>10

LEMMA ImageConverted ==
    ASSUME NEW l \in PhotoLine, NEW y \in PhotoLine, ~ Misread(y), ~ Renamed(y),
           y.name = "PHOTO", y.base64 = TRUE, y.data = l.data, y.kind = Known(l.kind),
           ~ Misread(l) => l.base64 /\ l.form # "uri" /\ (l.form = "b" \/ l.splits)
    PROVE  Kept(y, l)
<1>1. CASE Misread(l) \/ Renamed(l)
  BY <1>1 DEF Kept
<1>2. CASE ~ Misread(l) /\ ~ Renamed(l)
  <2>1. l.base64 = TRUE /\ l.name = "PHOTO"
    BY <1>2, PhotoIs DEF Renamed
  <2>2. PICK k : k = l.kind
    OBVIOUS
  <2>3. k \in STRING /\ (Known(k) \in {"png", "gif"} <=> k \in {"png", "gif"})
        /\ (k \in {"png", "gif"} => Known(k) = k)
    BY <2>2, PhotoIs, KnownIs
  <2>4. Image(y) = Image(l)
    BY <2>1, <2>2, <2>3 DEF Image
  <2>5. QED
    BY <2>4 DEF Kept
<1>3. QED
  BY <1>1, <1>2

LEMMA KeptItself ==
    ASSUME NEW l
    PROVE  Kept(l, l)
BY DEF Kept

LEMMA KeptTwice ==
    ASSUME NEW x, NEW y, NEW z, Kept(x, y), Kept(y, z)
    PROVE  Kept(x, z)
BY DEF Kept

LEMMA PhotoLines ==
    ASSUME NEW l \in PhotoLine
    PROVE  /\ LineToV4(l) \in PhotoLine /\ LineToV3(l) \in PhotoLine
           /\ Kept(LineToV4(l), l) /\ Kept(LineToV3(l), l)
           /\ PureV4(LineToV4(l)) /\ PureV3(LineToV3(l))
           /\ LineToV4(LineToV4(l)) = LineToV4(l)
           /\ LineToV3(LineToV3(l)) = LineToV3(l)
           /\ TooBig(LineToV4(l)) <=> TooBig(l)
           /\ Misread(l) \/ (TooBig(LineToV3(l)) <=> TooBig(l))
           /\ LineToV4(LineToV3(LineToV4(LineToV3(l)))) = LineToV4(LineToV3(l))
<1>1. PICK k, d : k = l.kind /\ d = IF l.splits THEN l.cut ELSE l.data
  OBVIOUS
<1>2. /\ k \in STRING /\ d \in STRING
      /\ l.form \in {"b", "data", "uri"} /\ (l.form = "b" => l.base64)
      /\ l.base64 \in BOOLEAN /\ l.splits \in BOOLEAN /\ (l.splits => l.form = "data")
      /\ l.name \in PhotoNames
  BY <1>1, PhotoIs
<1>3. PICK y, z :
        /\ y = Photo("data", Known(k), TRUE, FALSE, d)
        /\ y \in PhotoLine /\ y.form = "data" /\ y.base64 = TRUE /\ y.data = d
        /\ y.kind = Known(k) /\ y.name = "PHOTO" /\ ~ Misread(y) /\ ~ Renamed(y)
        /\ LineToV4(y) = y /\ LineToV3(y) = z
        /\ z = Photo("b", Known(k), TRUE, FALSE, d)
        /\ z \in PhotoLine /\ z.form = "b" /\ z.base64 = TRUE /\ z.data = d
        /\ z.kind = Known(k) /\ z.name = "PHOTO" /\ ~ Misread(z) /\ ~ Renamed(z)
        /\ LineToV4(z) = y /\ LineToV3(z) = z /\ ~ z.splits
  BY <1>2, PhotoConverted
<1>4. /\ y \in PhotoLine /\ y.form = "data" /\ y.base64 = TRUE /\ y.data = d
      /\ y.kind = Known(k) /\ y.name = "PHOTO" /\ ~ Misread(y) /\ ~ Renamed(y)
      /\ LineToV4(y) = y /\ LineToV3(y) = z
  BY <1>3
<1>5. /\ z \in PhotoLine /\ z.form = "b" /\ z.base64 = TRUE /\ z.data = d
      /\ z.kind = Known(k) /\ z.name = "PHOTO" /\ ~ Misread(z) /\ ~ Renamed(z)
      /\ LineToV4(z) = y /\ LineToV3(z) = z /\ ~ z.splits
  BY <1>3
<1>6. PureV4(y) /\ PureV3(z)
  BY <1>4, <1>5, PhotoPure
<1>7. "PHOTO" \in PhotoNames
  BY NamesApart
<1>8. CASE l.form = "b"
  <2>1. d = l.data /\ ~ l.splits
    BY <1>1, <1>2, <1>8
  <2>2. LineToV4(l) = y /\ LineToV3(l) = l
    BY <1>1, <1>3, <1>8, <2>1, PhotoIs
  <2>3. PureV3(l)
    BY <2>1, PhotoPure
  <2>4. TooBig(y) <=> TooBig(l)
    BY <1>2, <1>4, <1>7, <1>8, <2>1 DEF TooBig
  <2>5. y.data = l.data /\ y.kind = Known(l.kind) /\ l.base64 /\ l.form # "uri"
    BY <1>1, <1>2, <1>4, <1>8, <2>1
  <2>6. Kept(y, l)
    BY <1>4, <1>8, <2>5, ImageConverted
  <2>7. Kept(l, l)
    BY KeptItself
  <2>8. QED
    BY <1>4, <1>5, <1>6, <2>2, <2>3, <2>4, <2>6, <2>7
<1>9. CASE l.splits
  <2>1. d = l.cut /\ l.form = "data"
    BY <1>1, <1>2, <1>9
  <2>2. LineToV4(l) = l /\ LineToV3(l) = z
    BY <1>1, <1>3, <1>9, <2>1, PhotoIs
  <2>3. PureV4(l)
    BY <2>1, PhotoPure
  <2>4. Misread(l) \/ (TooBig(z) <=> TooBig(l))
    BY <1>2, <1>5, <1>7, <1>9, <2>1 DEF TooBig, Misread
  <2>5. Kept(l, l)
    BY KeptItself
  <2>6. Kept(z, l)
    <3>1. CASE Misread(l)
      BY <3>1 DEF Kept
    <3>2. CASE ~ Misread(l)
      <4>1. l.base64 /\ l.data = d
        BY <1>2, <1>9, <2>1, <3>2 DEF Misread
      <4>2. QED
        BY <1>1, <1>5, <1>9, <2>1, <4>1, ImageConverted
    <3>3. QED
      BY <3>1, <3>2
  <2>7. QED
    BY <1>4, <1>5, <1>6, <2>2, <2>3, <2>4, <2>5, <2>6
<1>10. CASE l.form # "b" /\ ~ l.splits
  <2>1. LineToV4(l) = l /\ LineToV3(l) = l
    BY <1>10, PhotoIs
  <2>2. PureV3(l) /\ PureV4(l)
    BY <1>10, PhotoPure
  <2>3. QED
    BY <2>1, <2>2, KeptItself
<1>11. QED
  BY <1>2, <1>8, <1>9, <1>10

LEMMA VersionIs ==
    ASSUME NEW l \in VersionLine
    PROVE  /\ l.name = "VERSION" /\ l.value \in STRING /\ l.exact \in BOOLEAN
           /\ LineToV4(l) = IF l.value = "3.0" /\ l.exact THEN Version("4.0", TRUE) ELSE l
           /\ LineToV3(l) = IF l.value = "4.0" /\ l.exact THEN Version("3.0", TRUE) ELSE l
<1>1. l.name = "VERSION" /\ l.value \in STRING /\ l.exact \in BOOLEAN
      /\ l = Version(l.value, l.exact)
  BY DEF VersionLine, Version
<1>2. \A v : l = Version(v, TRUE) <=> l.value = v /\ l.exact
  BY <1>1 DEF Version
<1>3. l # Profile /\ l.name \notin EmailNames /\ l.name \notin PhotoNames
  BY <1>1, MarksAreLines, NamesApart
<1>4. QED
  BY <1>1, <1>2, <1>3 DEF LineToV4, LineToV3

LEMMA VersionTyped ==
    \A v \in {"3.0", "4.0"} : /\ Version(v, TRUE) \in VersionLine
                              /\ Version(v, TRUE).name = "VERSION"
                              /\ Version(v, TRUE).value = v /\ Version(v, TRUE).exact = TRUE
BY LiteralsAssumption DEF VersionLine, Version

LEMMA VersionLines ==
    ASSUME NEW l \in VersionLine
    PROVE  /\ LineToV4(l) \in VersionLine /\ LineToV3(l) \in VersionLine
           /\ LineToV4(LineToV4(l)) = LineToV4(l)
           /\ LineToV3(LineToV3(l)) = LineToV3(l)
           /\ LineToV4(LineToV3(LineToV4(LineToV3(l)))) = LineToV4(LineToV3(l))
<1>1. PICK v3, v4 : v3 = Version("3.0", TRUE) /\ v4 = Version("4.0", TRUE)
  OBVIOUS
<1>2. v3 \in VersionLine /\ v3.value = "3.0" /\ v3.exact = TRUE
      /\ v4 \in VersionLine /\ v4.value = "4.0" /\ v4.exact = TRUE
  BY <1>1, VersionTyped
<1>3. LineToV4(v3) = v4 /\ LineToV4(v4) = v4 /\ LineToV3(v3) = v3 /\ LineToV3(v4) = v3
  BY <1>1, <1>2, VersionIs
<1>4. LineToV4(l) = (IF l.value = "3.0" /\ l.exact THEN v4 ELSE l)
      /\ LineToV3(l) = (IF l.value = "4.0" /\ l.exact THEN v3 ELSE l)
  BY <1>1, VersionIs
<1>5. CASE l.value = "3.0" /\ l.exact
  BY <1>2, <1>3, <1>4, <1>5
<1>6. CASE l.value = "4.0" /\ l.exact
  BY <1>2, <1>3, <1>4, <1>6
<1>7. CASE ~ (l.value = "3.0" /\ l.exact) /\ ~ (l.value = "4.0" /\ l.exact)
  BY <1>2, <1>3, <1>4, <1>7
<1>8. QED
  BY <1>5, <1>6, <1>7

(* What a conversion makes of a line, whatever its name.  A photo stays a  *)
(* photo, under this or that name.                                         *)

Converted == {"VERSION"} \cup EmailNames \cup PhotoNames
Touched == Converted \cup {"PROFILE"}

SameName(l, k) == l.name = k.name \/ (l.name \in PhotoNames /\ k.name \in PhotoNames)

LEMMA OtherLines ==
    ASSUME NEW l \in Line, l.name \notin Converted
    PROVE  /\ LineToV3(l) = l
           /\ LineToV4(l) = IF l = Profile THEN Blank ELSE l
           /\ l.name = "PROFILE" => l = Profile
           /\ l.name = "" => l = Blank
<1>1. l # Version("3.0", TRUE) /\ l # Version("4.0", TRUE)
  BY VersionTyped DEF Converted
<1>2. (l.name = "PROFILE" => l = Profile) /\ (l.name = "" => l = Blank)
  BY LineKinds, MarkIs
<1>3. l.name \notin EmailNames /\ l.name \notin PhotoNames
  BY DEF Converted
<1>4. QED
  BY <1>1, <1>2, <1>3 DEF LineToV4, LineToV3

LEMMA LineV4 ==
    ASSUME NEW l \in Line
    PROVE  /\ LineToV4(l) \in Line
           /\ LineToV4(l) # Blank => SameName(LineToV4(l), l) /\ PureV4(LineToV4(l))
           /\ LineToV4(l) = Blank <=> l.name \in {"", "PROFILE"}
           /\ l.name \notin Touched => LineToV4(l) = l
           /\ LineToV4(LineToV4(l)) = LineToV4(l)
           /\ TooBig(LineToV4(l)) <=> TooBig(l)
<1>1. PICK y : y = LineToV4(l)
  OBVIOUS
<1>2. CASE l.name \in EmailNames
  <2>1. l \in EmailLine
    BY <1>2, LineKinds
  <2>2. y \in EmailLine /\ PureV4(y) /\ y.name = l.name
    BY <1>1, <2>1, EmailToV4
  <2>3. LineToV4(y) = y
    BY <2>2, EmailToV4
  <2>4. y \in Line
    BY <2>2 DEF Line
  <2>5. l.name \notin PhotoNames /\ l.name \in Touched /\ ~ TooBig(l) /\ ~ TooBig(y)
    BY <1>2, <2>2, NamesApart DEF TooBig, Touched, Converted
  <2>6. y # Blank
    BY <1>2, <2>2, BlankApart
  <2>7. l.name \notin {"", "PROFILE"}
    BY <1>2, NamesAssumption
  <2>8. QED
    BY <1>1, <2>2, <2>3, <2>4, <2>5, <2>6, <2>7 DEF SameName
<1>3. CASE l.name \in PhotoNames
  <2>1. l \in PhotoLine
    BY <1>3, LineKinds
  <2>2. y \in PhotoLine /\ PureV4(y) /\ LineToV4(y) = y /\ (TooBig(y) <=> TooBig(l))
    BY <1>1, <2>1, PhotoLines
  <2>3. y \in Line /\ y.name \in PhotoNames
    BY <2>2, PhotoIs DEF Line
  <2>4. l.name \in Touched
    BY <1>3 DEF Touched, Converted
  <2>5. y # Blank
    BY <2>3, BlankApart
  <2>6. l.name \notin {"", "PROFILE"}
    BY <1>3, NamesAssumption
  <2>7. QED
    BY <1>1, <1>3, <2>2, <2>3, <2>4, <2>5, <2>6 DEF SameName
<1>4. CASE l.name = "VERSION"
  <2>1. l \in VersionLine
    BY <1>4, LineKinds
  <2>2. y \in VersionLine /\ LineToV4(y) = y
    BY <1>1, <2>1, VersionLines
  <2>3. y \in Line /\ y.name = "VERSION"
    BY <2>2, VersionIs DEF Line
  <2>4. "VERSION" \notin EmailNames /\ "VERSION" \notin PhotoNames
    BY NamesApart
  <2>5. PureV4(y)
    BY <2>3, <2>4, MarksAreLines DEF PureV4
  <2>6. ~ TooBig(y) /\ ~ TooBig(l) /\ l.name \in Touched
    BY <1>4, <2>3, <2>4 DEF TooBig, Touched, Converted
  <2>7. y # Blank
    BY <2>3, BlankApart
  <2>8. l.name \notin {"", "PROFILE"}
    BY <1>4
  <2>9. QED
    BY <1>1, <1>4, <2>2, <2>3, <2>5, <2>6, <2>7, <2>8 DEF SameName
<1>5. CASE l.name \notin Converted
  <2>1. y = IF l = Profile THEN Blank ELSE l
    BY <1>1, <1>5, OtherLines
  <2>2. (l.name = "PROFILE" <=> l = Profile) /\ (l.name = "" <=> l = Blank)
    BY <1>5, OtherLines, MarksAreLines
  <2>3. Blank.name \notin Converted /\ Blank # Profile
    BY BlankApart, MarksAreLines DEF Converted
  <2>4. y.name \notin Converted /\ y \in Line
    BY <1>5, <2>1, <2>3, MarksAreLines
  <2>5. LineToV4(y) = y
    BY <2>1, <2>3, <2>4, OtherLines
  <2>6. y # Blank => y # Profile
    BY <2>1
  <2>7. y # Blank => PureV4(y)
    BY <2>4, <2>6 DEF PureV4, Converted
  <2>8. ~ TooBig(y) /\ ~ TooBig(l)
    BY <1>5, <2>4 DEF TooBig, Converted
  <2>9. l.name \notin Touched => l # Profile
    BY <2>2 DEF Touched
  <2>10. y = Blank <=> l.name \in {"", "PROFILE"}
    BY <2>1, <2>2
  <2>11. y # Blank => SameName(y, l)
    BY <2>1 DEF SameName
  <2>12. QED
    BY <1>1, <2>1, <2>4, <2>5, <2>7, <2>8, <2>9, <2>10, <2>11
<1>6. QED
  BY <1>2, <1>3, <1>4, <1>5 DEF Converted

LEMMA LineV3 ==
    ASSUME NEW l \in Line
    PROVE  /\ LineToV3(l) \in Line
           /\ SameName(LineToV3(l), l)
           /\ PureV3(LineToV3(l))
           /\ l.name \notin Touched => LineToV3(l) = l
           /\ LineToV3(LineToV3(l)) = LineToV3(l)
           /\ \/ TooBig(LineToV3(l)) <=> TooBig(l)
              \/ l.name \in PhotoNames /\ Misread(l)
<1>1. PICK y : y = LineToV3(l)
  OBVIOUS
<1>2. CASE l.name \in EmailNames
  <2>1. l \in EmailLine
    BY <1>2, LineKinds
  <2>2. y \in EmailLine /\ PureV3(y) /\ LineToV3(y) = y /\ y.name = l.name
    BY <1>1, <2>1, EmailToV3
  <2>3. y \in Line
    BY <2>2 DEF Line
  <2>4. ~ TooBig(l) /\ ~ TooBig(y) /\ l.name \in Touched
    BY <1>2, <2>2, NamesApart DEF TooBig, Touched, Converted
  <2>5. QED
    BY <1>1, <2>2, <2>3, <2>4 DEF SameName
<1>3. CASE l.name \in PhotoNames
  <2>1. l \in PhotoLine
    BY <1>3, LineKinds
  <2>2. y \in PhotoLine /\ PureV3(y) /\ LineToV3(y) = y
        /\ (Misread(l) \/ (TooBig(y) <=> TooBig(l)))
    BY <1>1, <2>1, PhotoLines
  <2>3. y \in Line /\ y.name \in PhotoNames
    BY <2>2, PhotoIs DEF Line
  <2>4. l.name \in Touched
    BY <1>3 DEF Touched, Converted
  <2>5. QED
    BY <1>1, <1>3, <2>2, <2>3, <2>4 DEF SameName
<1>4. CASE l.name = "VERSION"
  <2>1. l \in VersionLine
    BY <1>4, LineKinds
  <2>2. y \in VersionLine /\ LineToV3(y) = y
    BY <1>1, <2>1, VersionLines
  <2>3. y \in Line /\ y.name = "VERSION"
    BY <2>2, VersionIs DEF Line
  <2>4. "VERSION" \notin EmailNames /\ "VERSION" \notin PhotoNames
    BY NamesApart
  <2>5. PureV3(y)
    BY <2>3, <2>4 DEF PureV3
  <2>6. ~ TooBig(y) /\ ~ TooBig(l) /\ l.name \in Touched
    BY <1>4, <2>3, <2>4 DEF TooBig, Touched, Converted
  <2>7. QED
    BY <1>1, <1>4, <2>2, <2>3, <2>5, <2>6 DEF SameName
<1>5. CASE l.name \notin Converted
  <2>1. y = l
    BY <1>1, <1>5, OtherLines
  <2>2. PureV3(l)
    BY <1>5 DEF PureV3, Converted
  <2>3. QED
    BY <1>1, <2>1, <2>2 DEF SameName
<1>6. QED
  BY <1>2, <1>3, <1>4, <1>5 DEF Converted

(* To 3.0 and back: the second time nothing changes. *)
Back(l) == LineToV4(LineToV3(l))

LEMMA BackTwice ==
    ASSUME NEW l \in Line
    PROVE  /\ Back(l) \in Line
           /\ Back(Back(l)) = Back(l)
           /\ Back(l) = Blank <=> l.name \in {"", "PROFILE"}
           /\ Back(l) # Blank => SameName(Back(l), l)
<1>1. PICK k : k = LineToV3(l)
  OBVIOUS
<1>2. /\ Back(l) \in Line
      /\ Back(l) = Blank <=> l.name \in {"", "PROFILE"}
      /\ Back(l) # Blank => SameName(Back(l), l)
  <2>1. k \in Line /\ SameName(k, l)
    BY <1>1, LineV3
  <2>2. PICK y : y = LineToV4(k)
    OBVIOUS
  <2>3. /\ y \in Line
        /\ y = Blank <=> k.name \in {"", "PROFILE"}
        /\ y # Blank => SameName(y, k)
    BY <2>1, <2>2, LineV4
  <2>4. k.name \in {"", "PROFILE"} <=> l.name \in {"", "PROFILE"}
    <3>1. \A n \in PhotoNames : n \notin {"", "PROFILE"}
      BY NamesAssumption
    <3>2. QED
      BY <2>1, <3>1 DEF SameName
  <2>5. y # Blank => SameName(y, l)
    BY <2>1, <2>3 DEF SameName
  <2>6. QED
    BY <1>1, <2>2, <2>3, <2>4, <2>5 DEF Back
<1>3. Back(Back(l)) = Back(l)
  <2>1. CASE l.name \in EmailNames
    <3>1. PICK z : z = LineToV3(l)
      OBVIOUS
    <3>2. z \in EmailLine
      BY <2>1, <3>1, LineKinds, EmailToV3
    <3>3. PICK y : y = LineToV4(z)
      OBVIOUS
    <3>4. y \in EmailLine /\ PureV4(y)
      BY <3>2, <3>3, EmailToV4
    <3>5. LineToV4(LineToV3(y)) = y
      BY <3>4, EmailToV4
    <3>6. QED
      BY <3>1, <3>3, <3>5 DEF Back
  <2>2. CASE l.name \in PhotoNames
    BY <2>2, LineKinds, PhotoLines DEF Back
  <2>3. CASE l.name = "VERSION"
    BY <2>3, LineKinds, VersionLines DEF Back
  <2>4. CASE l.name \notin Converted
    <3>1. LineToV3(l) = l
      BY <2>4, OtherLines
    <3>2. PICK y : y = LineToV4(l)
      OBVIOUS
    <3>3. y = Blank \/ y = l
      BY <2>4, <3>2, OtherLines
    <3>4. y \in Line /\ LineToV4(y) = y
      BY <3>2, LineV4
    <3>5. Blank.name \notin Converted
      BY BlankApart DEF Converted
    <3>6. LineToV3(y) = y
      BY <2>4, <3>3, <3>4, <3>5, OtherLines
    <3>7. QED
      BY <3>1, <3>2, <3>4, <3>6 DEF Back
  <2>5. QED
    BY <2>1, <2>2, <2>3, <2>4 DEF Converted
<1>4. QED
  BY <1>2, <1>3

-----------------------------------------------------------------------------
(* Texts: the lines of one name, and what a conversion makes of them *)

H4 == [l \in Line |-> LineToV4(l)]
H3 == [l \in Line |-> LineToV3(l)]

LEMMA LineFunctions ==
    \A l \in Line : /\ H4[l] = LineToV4(l) /\ H4[l] \in Line
                    /\ H3[l] = LineToV3(l) /\ H3[l] \in Line
BY LineV4, LineV3 DEF H4, H3

LEMMA TextIs ==
    ASSUME NEW t \in Seq(Line)
    PROVE  /\ ToV4(t) = IF ExtractProp(t, "VERSION") = "4.0" THEN t
                        ELSE Without(Mapped(t, H4), {Blank})
           /\ ToV3(t) = IF ExtractProp(t, "VERSION") = "3.0" THEN t ELSE Mapped(t, H3)
<1>1. \A i \in DOMAIN t : t[i] \in Line
  OBVIOUS
<1>2. \A i \in DOMAIN t : LineToV4(t[i]) = H4[t[i]] /\ LineToV3(t[i]) = H3[t[i]]
  BY <1>1, LineFunctions
<1>3. Each(t, LineToV4) = Mapped(t, H4) /\ Each(t, LineToV3) = Mapped(t, H3)
  BY <1>2 DEF Each, Mapped
<1>4. QED
  BY <1>3 DEF ToV4, ToV3

LEMMA TextTyped ==
    ASSUME NEW t \in Seq(Line)
    PROVE  /\ Mapped(t, H4) \in Seq(Line) /\ Mapped(t, H3) \in Seq(Line)
           /\ Without(Mapped(t, H4), {Blank}) \in Seq(Line)
           /\ ToV4(t) \in Seq(Line) /\ ToV3(t) \in Seq(Line)
<1>1. Mapped(t, H4) \in Seq(Line) /\ Mapped(t, H3) \in Seq(Line)
  BY LineFunctions, MappedInto
<1>2. Without(Mapped(t, H4), {Blank}) \in Seq(Line)
  BY <1>1, WithoutTyped
<1>3. QED
  BY <1>1, <1>2, TextIs

LEMMA TextSet ==
    ASSUME NEW t \in Seq(Line)
    PROVE  /\ ToSet(Mapped(t, H4)) = {LineToV4(l) : l \in ToSet(t)}
           /\ ToSet(Mapped(t, H3)) = {LineToV3(l) : l \in ToSet(t)}
           /\ ToSet(Without(Mapped(t, H4), {Blank}))
                 = {LineToV4(l) : l \in ToSet(t)} \ {Blank}
<1>1. \A l \in ToSet(t) : H4[l] = LineToV4(l) /\ H3[l] = LineToV3(l)
  BY ToSetTyped, LineFunctions
<1>2. ToSet(Mapped(t, H4)) = {H4[l] : l \in ToSet(t)}
      /\ ToSet(Mapped(t, H3)) = {H3[l] : l \in ToSet(t)}
  BY ToSetMapped
<1>3. {H4[l] : l \in ToSet(t)} = {LineToV4(l) : l \in ToSet(t)}
      /\ {H3[l] : l \in ToSet(t)} = {LineToV3(l) : l \in ToSet(t)}
  BY <1>1
<1>4. Mapped(t, H4) \in Seq(Line)
  BY TextTyped
<1>5. ToSet(Without(Mapped(t, H4), {Blank})) = ToSet(Mapped(t, H4)) \ {Blank}
  BY <1>4, ToSetWithout
<1>6. QED
  BY <1>2, <1>3, <1>5

(* Sets of names that hold all the names of photos or none *)
Whole(names) == PhotoNames \subseteq names \/ names \cap PhotoNames = {}

LEMMA WholeNames ==
    /\ Whole(EmailNames) /\ Whole(PhotoNames)
    /\ \A n \in {"VERSION", "UID", "FN", "N", "END"} : Whole({n})
BY NamesApart DEF Whole

LEMMA SameWhole ==
    ASSUME NEW names, Whole(names), NEW l, NEW k, SameName(l, k)
    PROVE  l.name \in names <=> k.name \in names
BY DEF Whole, SameName

LEMMA MappedNamed ==
    ASSUME NEW t \in Seq(Line), NEW h, NEW D, NEW names,
           \A l \in Line : h[l] \in Line /\ (h[l].name \in names <=> l.name \in names),
           D \subseteq Unnamed(names)
    PROVE  Named(Without(Mapped(t, h), D), names) = Mapped(Named(t, names), h)
<1>1. PICK u : u = Without(Mapped(t, h), D)
  OBVIOUS
<1>2. Mapped(t, h) \in Seq(Line)
  BY MappedInto
<1>3. u \in Seq(Line)
  BY <1>1, <1>2, WithoutTyped
<1>4. Named(u, names) = Without(u, Unnamed(names))
  BY <1>3, NamedIs
<1>5. Without(u, Unnamed(names)) = Without(Mapped(t, h), Unnamed(names))
  BY <1>1, <1>2, WithoutTwice
<1>6. \A l \in Line : h[l] \in Unnamed(names) <=> l \in Unnamed(names)
  BY DEF Unnamed
<1>7. Without(Mapped(t, h), Unnamed(names)) = Mapped(Without(t, Unnamed(names)), h)
  BY <1>6, WithoutMapped
<1>8. Named(t, names) = Without(t, Unnamed(names))
  BY NamedIs
<1>9. QED
  BY <1>1, <1>4, <1>5, <1>7, <1>8

LEMMA NamesV4 ==
    ASSUME NEW names, Whole(names), "" \notin names, "PROFILE" \notin names, NEW l \in Line
    PROVE  H4[l] \in Line /\ (H4[l].name \in names <=> l.name \in names)
<1>1. H4[l] \in Line /\ H4[l] = LineToV4(l)
  BY LineFunctions
<1>2. CASE H4[l] = Blank
  <2>1. l.name \in {"", "PROFILE"} /\ H4[l].name = ""
    BY <1>1, <1>2, LineV4, MarksAreLines
  <2>2. QED
    BY <1>1, <2>1
<1>3. CASE H4[l] # Blank
  <2>1. SameName(H4[l], l)
    BY <1>1, <1>3, LineV4
  <2>2. QED
    BY <1>1, <2>1, SameWhole
<1>4. QED
  BY <1>2, <1>3

LEMMA NamedV4 ==
    ASSUME NEW t \in Seq(Line), NEW names, Whole(names), "" \notin names, "PROFILE" \notin names
    PROVE  Named(Without(Mapped(t, H4), {Blank}), names) = Mapped(Named(t, names), H4)
<1>1. \A l \in Line : H4[l] \in Line /\ (H4[l].name \in names <=> l.name \in names)
  BY NamesV4
<1>2. {Blank} \subseteq Unnamed(names)
  BY MarksAreLines DEF Unnamed
<1>3. QED
  BY <1>1, <1>2, MappedNamed

LEMMA NamedV3 ==
    ASSUME NEW t \in Seq(Line), NEW names, Whole(names)
    PROVE  Named(Mapped(t, H3), names) = Mapped(Named(t, names), H3)
<1>1. \A l \in Line : H3[l] \in Line /\ (H3[l].name \in names <=> l.name \in names)
  <2> SUFFICES ASSUME NEW l \in Line
               PROVE  H3[l] \in Line /\ (H3[l].name \in names <=> l.name \in names)
    OBVIOUS
  <2>1. H3[l] \in Line /\ SameName(H3[l], l)
    BY LineFunctions, LineV3
  <2>2. QED
    BY <2>1, SameWhole
<1>2. PICK D : D = {}
  OBVIOUS
<1>3. D \subseteq Unnamed(names) /\ ToSet(Mapped(t, H3)) \cap D = {}
  BY <1>2
<1>4. Named(Without(Mapped(t, H3), D), names) = Mapped(Named(t, names), H3)
  BY <1>1, <1>3, MappedNamed
<1>5. Without(Mapped(t, H3), D) = Mapped(t, H3)
  BY <1>3, TextTyped, WithoutNothing
<1>6. QED
  BY <1>4, <1>5

(* The first line of a name, when those lines are converted *)
LEMMA FirstMapped ==
    ASSUME NEW t \in Seq(Line), NEW u \in Seq(Line), NEW n, NEW h,
           Named(u, {n}) = Mapped(Named(t, {n}), h)
    PROVE  /\ Find(u, n) = 0 <=> Find(t, n) = 0
           /\ Find(t, n) # 0 => u[Find(u, n)] = h[t[Find(t, n)]]
<1>1. PICK x, y : x = Named(t, {n}) /\ y = Mapped(x, h)
  OBVIOUS
<1>2. x \in Seq(Line) /\ y = Named(u, {n})
  BY <1>1, NamedIs
<1>3. Len(y) = Len(x) /\ (\A i \in 1..Len(x) : y[i] = h[x[i]]) /\ y \in Seq(Images(h, Line))
  <2>1. x \in Seq(Line)
    BY <1>2
  <2>2. /\ Mapped(x, h) \in Seq(Images(h, Line))
        /\ Len(Mapped(x, h)) = Len(x)
        /\ \A i \in 1..Len(x) : Mapped(x, h)[i] = h[x[i]]
    BY ONLY <2>1, MappedTyped
  <2>3. QED
    BY ONLY <1>1, <2>2
<1>4. x = <<>> <=> Len(x) = 0
  BY <1>2, EmptySeq
<1>5. y = <<>> <=> Len(y) = 0
  BY <1>3, EmptySeq
<1>6. Len(x) \in Nat
  BY <1>2, LenProperties
<1>7. x # <<>> => y[1] = h[x[1]]
  BY <1>3, <1>4, <1>6
<1>8. /\ Find(t, n) = 0 <=> x = <<>>
      /\ Find(t, n) # 0 => t[Find(t, n)] = x[1]
  BY <1>1, FindNamed
<1>9. /\ Find(u, n) = 0 <=> y = <<>>
      /\ Find(u, n) # 0 => u[Find(u, n)] = y[1]
  BY <1>2, FindNamed
<1>10. QED
  BY <1>3, <1>4, <1>5, <1>7, <1>8, <1>9

-----------------------------------------------------------------------------
(* What a text says *)

Meanings == [l \in Line |-> Meaning(l)]
Dropped == {l \in Line : l.name \in Rewritable}

LEMMA MappedThrough ==
    ASSUME NEW S, NEW s \in Seq(S), NEW h, NEW k, \A x \in ToSet(s) : k[h[x]] = k[x]
    PROVE  Mapped(Mapped(s, h), k) = Mapped(s, k)
<1>1. PICK m : m = Mapped(s, h)
  OBVIOUS
<1>2. DOMAIN m = DOMAIN s /\ \A i \in DOMAIN s : m[i] = h[s[i]]
  BY <1>1 DEF Mapped
<1>3. \A i \in DOMAIN s : k[h[s[i]]] = k[s[i]]
  BY DEF ToSet
<1>4. Mapped(m, k) = Mapped(s, k)
  BY <1>2, <1>3 DEF Mapped
<1>5. QED
  BY <1>1, <1>4

LEMMA NamedSet ==
    ASSUME NEW t \in Seq(Line), NEW names
    PROVE  ToSet(Named(t, names)) = {l \in ToSet(t) : l.name \in names}
<1>1. Named(t, names) = Without(t, Unnamed(names))
  BY NamedIs
<1>2. ToSet(Without(t, Unnamed(names))) = ToSet(t) \ Unnamed(names)
  BY ToSetWithout
<1>3. ToSet(t) \subseteq Line
  BY ToSetTyped
<1>4. QED
  BY <1>1, <1>2, <1>3 DEF Unnamed

LEMMA ButIs ==
    ASSUME NEW t \in Seq(Line)
    PROVE  But(t, Rewritable) = Without(t, Dropped)
<1>1. PICK D : D = {l \in ToSet(t) : l.name \in Rewritable}
  OBVIOUS
<1>2. \A x \in ToSet(t) : x \in D <=> x \in Dropped
  BY <1>1, ToSetTyped DEF Dropped
<1>3. Without(t, D) = Without(t, Dropped)
  BY <1>2, WithoutAgree
<1>4. QED
  BY <1>1, <1>3 DEF But

LEMMA SaysIs ==
    ASSUME NEW t \in Seq(Line)
    PROVE  Says(t) = [emails |-> Mapped(Named(t, EmailNames), Meanings),
                      others |-> Without(t, Dropped)]
<1>1. ASSUME NEW s \in Seq(Line)
      PROVE  Each(s, Meaning) = Mapped(s, Meanings)
  <2>1. \A i \in DOMAIN s : s[i] \in Line
    OBVIOUS
  <2>2. \A i \in DOMAIN s : Meaning(s[i]) = Meanings[s[i]]
    BY <2>1 DEF Meanings
  <2>3. QED
    BY <2>2 DEF Each, Mapped
<1>2. Named(t, EmailNames) \in Seq(Line)
  BY NamedIs
<1>3. QED
  BY <1>1, <1>2, ButIs DEF Says

(* A function of the lines that changes no meaning changes none of the text.*)
LEMMA SaysMapped ==
    ASSUME NEW t \in Seq(Line), NEW h, NEW D,
           \A l \in Line : h[l] \in Line /\ (h[l].name \in Rewritable <=> l.name \in Rewritable),
           \A l \in Line : h[l].name \in EmailNames <=> l.name \in EmailNames,
           \A l \in Line : l.name \in EmailNames => Meaning(h[l]) = Meaning(l),
           \A l \in Line : l.name \notin Rewritable => h[l] = l,
           D \subseteq {Blank}
    PROVE  Says(Without(Mapped(t, h), D)) = Says(t)
<1>1. PICK u : u = Without(Mapped(t, h), D)
  OBVIOUS
<1>2. Mapped(t, h) \in Seq(Line)
  BY MappedInto
<1>3. u \in Seq(Line)
  BY <1>1, <1>2, WithoutTyped
<1>4. D \subseteq Unnamed(EmailNames) /\ D \subseteq Dropped
  <2>1. Blank \in Line /\ Blank.name \in Rewritable
    BY MarksAreLines DEF Rewritable
  <2>2. Blank \in Unnamed(EmailNames) /\ Blank \in Dropped
    BY <2>1, BlankApart DEF Unnamed, Dropped
  <2>3. QED
    BY <2>2
<1>5. Mapped(Named(u, EmailNames), Meanings) = Mapped(Named(t, EmailNames), Meanings)
  <2>1. PICK e : e = Named(t, EmailNames)
    OBVIOUS
  <2>2. e \in Seq(Line) /\ \A l \in ToSet(e) : l \in Line /\ l.name \in EmailNames
    BY <2>1, NamedIs, NamedSet, ToSetTyped
  <2>3. Named(u, EmailNames) = Mapped(e, h)
    BY <1>1, <1>4, <2>1, MappedNamed
  <2>4. \A l \in ToSet(e) : Meanings[h[l]] = Meanings[l]
    BY <2>2 DEF Meanings
  <2>5. Mapped(Mapped(e, h), Meanings) = Mapped(e, Meanings)
    BY <2>2, <2>4, MappedThrough
  <2>6. QED
    BY <2>1, <2>3, <2>5
<1>7. Without(u, Dropped) = Without(t, Dropped)
  <2>1. Without(u, Dropped) = Without(Mapped(t, h), Dropped)
    BY <1>1, <1>2, <1>4, WithoutTwice
  <2>2. \A l \in Line : h[l] \in Dropped <=> l \in Dropped
    BY DEF Dropped
  <2>3. Without(Mapped(t, h), Dropped) = Mapped(Without(t, Dropped), h)
    BY <2>2, WithoutMapped
  <2>4. PICK o : o = Without(t, Dropped)
    OBVIOUS
  <2>5. o \in Seq(Line)
    BY <2>4, WithoutTyped
  <2>6. \A l \in ToSet(o) : h[l] = l
    <3>1. ToSet(o) = ToSet(t) \ Dropped
      BY <2>4, ToSetWithout
    <3>2. ToSet(t) \subseteq Line
      BY ToSetTyped
    <3>3. QED
      BY <3>1, <3>2 DEF Dropped
  <2>7. Mapped(o, h) = o
    BY <2>5, <2>6, MappedSame
  <2>8. QED
    BY <2>1, <2>3, <2>4, <2>7
<1>8. QED
  BY <1>1, <1>3, <1>5, <1>7, SaysIs

(* Lines that a conversion leaves alone are all but the rewritable. *)
LEMMA NotTouched ==
    ASSUME NEW l, l.name \notin Rewritable
    PROVE  l.name \notin Touched
BY Zenon DEF Rewritable, Touched, Converted

LEMMA SameRewritable ==
    ASSUME NEW l, NEW k, SameName(l, k)
    PROVE  l.name \in Rewritable <=> k.name \in Rewritable
<1>1. Whole(Rewritable)
  BY DEF Whole, Rewritable
<1>2. QED
  BY <1>1, SameWhole

LEMMA SaysV4 ==
    ASSUME NEW t \in Seq(Line)
    PROVE  Says(ToV4(t)) = Says(t)
<1>1. \A l \in Line : H4[l] \in Line /\ (H4[l].name \in Rewritable <=> l.name \in Rewritable)
  <2> SUFFICES ASSUME NEW l \in Line
               PROVE  H4[l] \in Line /\ (H4[l].name \in Rewritable <=> l.name \in Rewritable)
    OBVIOUS
  <2>1. H4[l] \in Line /\ H4[l] = LineToV4(l)
    BY LineFunctions
  <2>2. CASE H4[l] = Blank
    <3>1. l.name \in {"", "PROFILE"} /\ H4[l].name = ""
      BY <2>1, <2>2, LineV4, MarksAreLines
    <3>2. QED
      BY <2>1, <3>1 DEF Rewritable
  <2>3. CASE H4[l] # Blank
    <3>1. SameName(H4[l], l)
      BY <2>1, <2>3, LineV4
    <3>2. QED
      BY <2>1, <3>1, SameRewritable
  <2>4. QED
    BY <2>2, <2>3
<1>2. \A l \in Line : H4[l].name \in EmailNames <=> l.name \in EmailNames
  <2>1. "" \notin EmailNames /\ "PROFILE" \notin EmailNames
    BY Zenon, NamesAssumption
  <2>2. QED
    BY <2>1, WholeNames, NamesV4
<1>3. \A l \in Line : l.name \in EmailNames => Meaning(H4[l]) = Meaning(l)
  BY LineFunctions, LineKinds, EmailToV4
<1>4. \A l \in Line : l.name \notin Rewritable => H4[l] = l
  BY LineFunctions, LineV4, NotTouched
<1>5. Says(Without(Mapped(t, H4), {Blank})) = Says(t)
  BY <1>1, <1>2, <1>3, <1>4, SaysMapped
<1>6. QED
  BY <1>5, TextIs

LEMMA SaysV3 ==
    ASSUME NEW t \in Seq(Line)
    PROVE  Says(ToV3(t)) = Says(t)
<1>0. \A l \in Line : H3[l] \in Line /\ H3[l] = LineToV3(l) /\ SameName(H3[l], l)
  BY LineFunctions, LineV3
<1>1. \A l \in Line : H3[l] \in Line /\ (H3[l].name \in Rewritable <=> l.name \in Rewritable)
  BY <1>0, SameRewritable
<1>2. \A l \in Line : H3[l].name \in EmailNames <=> l.name \in EmailNames
  BY <1>0, WholeNames, SameWhole
<1>3. \A l \in Line : l.name \in EmailNames => Meaning(H3[l]) = Meaning(l)
  BY LineFunctions, LineKinds, EmailToV3
<1>4. \A l \in Line : l.name \notin Rewritable => H3[l] = l
  BY LineFunctions, LineV3, NotTouched
<1>5. PICK D : D = {}
  OBVIOUS
<1>6. D \subseteq {Blank} /\ ToSet(Mapped(t, H3)) \cap D = {}
  BY <1>5
<1>7. Says(Without(Mapped(t, H3), D)) = Says(t)
  BY <1>1, <1>2, <1>3, <1>4, <1>6, SaysMapped
<1>8. Without(Mapped(t, H3), D) = Mapped(t, H3)
  BY <1>6, TextTyped, WithoutNothing
<1>9. QED
  BY <1>7, <1>8, TextIs

-----------------------------------------------------------------------------
(* The images of a text *)

LEMMA PhotosSame ==
    ASSUME NEW t, NEW u, Photos(u) = Photos(t)
    PROVE  PhotosKept(u, t)
BY KeptItself DEF PhotosKept

LEMMA PhotosTwice ==
    ASSUME NEW s \in Seq(Line), NEW t \in Seq(Line), NEW u \in Seq(Line),
           PhotosKept(u, t), PhotosKept(t, s)
    PROVE  PhotosKept(u, s)
<1>1. PICK x, y, z : x = Photos(u) /\ y = Photos(t) /\ z = Photos(s)
  OBVIOUS
<1>2. y \in Seq(Line) /\ z \in Seq(Line)
  BY <1>1, NamedIs DEF Photos
<1>3. DOMAIN y = 1..Len(y) /\ DOMAIN z = 1..Len(z)
  BY <1>2, LenProperties
<1>4. /\ Len(x) = Len(y) /\ \A i \in DOMAIN y : Kept(x[i], y[i])
      /\ Len(y) = Len(z) /\ \A i \in DOMAIN z : Kept(y[i], z[i])
  BY <1>1 DEF PhotosKept
<1>5. \A i \in DOMAIN z : Kept(x[i], z[i])
  BY <1>3, <1>4, KeptTwice
<1>6. QED
  BY <1>1, <1>4, <1>5 DEF PhotosKept

LEMMA PhotosMapped ==
    ASSUME NEW t \in Seq(Line), NEW u, NEW h,
           Photos(u) = Mapped(Photos(t), h),
           \A l \in Line : l.name \in PhotoNames => Kept(h[l], l)
    PROVE  PhotosKept(u, t)
<1>1. PICK x, y : x = Photos(u) /\ y = Photos(t)
  OBVIOUS
<1>2. y \in Seq(Line) /\ \A l \in ToSet(y) : l \in Line /\ l.name \in PhotoNames
  BY <1>1, NamedIs, NamedSet, ToSetTyped DEF Photos
<1>3. DOMAIN y = 1..Len(y)
  BY <1>2, LenProperties
<1>4. Len(x) = Len(y) /\ \A i \in 1..Len(y) : x[i] = h[y[i]]
  <2>1. x = Mapped(y, h)
    BY <1>1
  <2>2. Len(Mapped(y, h)) = Len(y) /\ \A i \in 1..Len(y) : Mapped(y, h)[i] = h[y[i]]
    BY <1>2, MappedTyped
  <2>3. QED
    BY <2>1, <2>2
<1>5. \A i \in DOMAIN y : Kept(x[i], y[i])
  <2> SUFFICES ASSUME NEW i \in DOMAIN y
               PROVE  Kept(x[i], y[i])
    OBVIOUS
  <2>1. y[i] \in Line /\ y[i].name \in PhotoNames
    BY <1>2 DEF ToSet
  <2>2. Kept(h[y[i]], y[i])
    BY <2>1
  <2>3. QED
    BY <1>3, <1>4, <2>2
<1>6. QED
  BY <1>1, <1>4, <1>5 DEF PhotosKept

LEMMA PhotosV4 ==
    ASSUME NEW t \in Seq(Line)
    PROVE  PhotosKept(ToV4(t), t)
<1>1. \A l \in Line : l.name \in PhotoNames => Kept(H4[l], l)
  BY LineFunctions, LineKinds, PhotoLines
<1>2. "" \notin PhotoNames /\ "PROFILE" \notin PhotoNames
  BY Zenon, NamesAssumption
<1>3. Photos(Without(Mapped(t, H4), {Blank})) = Mapped(Photos(t), H4)
  BY <1>2, WholeNames, NamedV4 DEF Photos
<1>4. PhotosKept(Without(Mapped(t, H4), {Blank}), t)
  BY <1>1, <1>3, PhotosMapped
<1>5. PhotosKept(t, t)
  BY PhotosSame
<1>6. QED
  BY <1>4, <1>5, TextIs

LEMMA PhotosV3 ==
    ASSUME NEW t \in Seq(Line)
    PROVE  PhotosKept(ToV3(t), t)
<1>1. \A l \in Line : l.name \in PhotoNames => Kept(H3[l], l)
  BY LineFunctions, LineKinds, PhotoLines
<1>2. Photos(Mapped(t, H3)) = Mapped(Photos(t), H3)
  BY WholeNames, NamedV3 DEF Photos
<1>3. PhotosKept(Mapped(t, H3), t)
  BY <1>1, <1>2, PhotosMapped
<1>4. PhotosKept(t, t)
  BY PhotosSame
<1>5. QED
  BY <1>3, <1>4, TextIs

-----------------------------------------------------------------------------
(* Replacing the UID *)

UIDLine(new) == Property("UID", new)

LEMMA UIDLineTyped ==
    ASSUME NEW new \in STRING
    PROVE  UIDLine(new) \in Line /\ UIDLine(new).name = "UID" /\ UIDLine(new).value = new
<1>1. "UID" \in STRING
  BY LiteralsAssumption
<1>2. "UID" \notin {"BEGIN", "END", "PROFILE", "", "VERSION"} \cup EmailNames \cup PhotoNames
  <2>1. "UID" \notin EmailNames \cup PhotoNames
    BY NamesApart
  <2>2. "UID" \notin {"BEGIN", "END", "PROFILE", "", "VERSION"}
    BY Zenon
  <2>3. QED
    BY Zenon, <2>1, <2>2
<1>3. Property("UID", new) \in Plain
  BY <1>1, <1>2 DEF Property, Plain
<1>4. QED
  BY <1>3 DEF UIDLine, Property, Line

LEMMA FirstOf ==
    ASSUME NEW s \in Seq(Line), NEW n, NEW i \in 1..Len(s), s[i].name = n,
           \A j \in 1..i - 1 : s[j].name # n
    PROVE  Find(s, n) = i
<1>1. PICK k : k = Find(s, n)
  OBVIOUS
<1>2. /\ k \in 0..Len(s) /\ Len(s) \in Nat
      /\ k = 0 => \A j \in 1..Len(s) : s[j].name # n
      /\ k # 0 => s[k].name = n /\ \A j \in 1..k - 1 : s[j].name # n
  BY <1>1, FindIs, LenProperties
<1>3. k # 0
  BY <1>2
<1>4. ~ (k < i) /\ ~ (i < k)
  BY <1>2, <1>3
<1>5. QED
  BY <1>1, <1>2, <1>4

(* The text around the UID line, or the place for one *)
LEMMA UIDPlace ==
    ASSUME NEW t \in Seq(Line), NEW new \in STRING,
           Find(t, "UID") # 0 \/ Find(t, "END") # 0
    PROVE  \E b \in Seq(Line), x \in Line, a \in Seq(Line) :
              /\ t = b \o (<<x>> \o a)
              /\ \A j \in 1..Len(b) : b[j].name # "UID"
              /\ \/ x.name = "UID" /\ ReplaceUID(t, new) = b \o (<<UIDLine(new)>> \o a)
                 \/ x.name = "END" /\ Find(t, "UID") = 0
                    /\ ReplaceUID(t, new) = b \o (<<UIDLine(new)>> \o (<<x>> \o a))
<1>1. PICK e : e = UIDLine(new)
  OBVIOUS
<1>2. e \in Line
  BY <1>1, UIDLineTyped
<1>3. CASE Find(t, "UID") # 0
  <2>1. PICK i : i = Find(t, "UID")
    OBVIOUS
  <2>2. i \in 1..Len(t) /\ t[i].name = "UID" /\ \A j \in 1..i - 1 : t[j].name # "UID"
    BY <1>3, <2>1, FindIs, LenProperties
  <2>3. ReplaceUID(t, new) = ReplaceAt(t, i, e)
    BY <1>1, <1>3, <2>1 DEF ReplaceUID, UIDLine
  <2>4. ReplaceAt(t, i, e) = Before(t, i) \o (<<e>> \o Behind(t, i))
    BY <1>2, <2>2, ReplaceIs
  <2>5. /\ Before(t, i) \in Seq(Line) /\ Behind(t, i) \in Seq(Line) /\ t[i] \in Line
        /\ t = Before(t, i) \o (<<t[i]>> \o Behind(t, i))
        /\ Len(Before(t, i)) = i - 1
        /\ \A j \in 1..i - 1 : Before(t, i)[j] = t[j]
    BY <2>2, Apart
  <2>6. \A j \in 1..Len(Before(t, i)) : Before(t, i)[j].name # "UID"
    BY <2>2, <2>5
  <2>7. QED
    BY <1>1, <2>2, <2>3, <2>4, <2>5, <2>6
<1>4. CASE Find(t, "UID") = 0
  <2>1. PICK i : i = Find(t, "END")
    OBVIOUS
  <2>2. i \in 1..Len(t) /\ t[i].name = "END"
    BY <1>4, <2>1, FindIs, LenProperties
  <2>3. ReplaceUID(t, new) = InsertAt(t, i, e)
    BY <1>1, <1>4, <2>1 DEF ReplaceUID, UIDLine
  <2>4. InsertAt(t, i, e) = Before(t, i) \o (<<e>> \o (<<t[i]>> \o Behind(t, i)))
    BY <1>2, <2>2, InsertIs
  <2>5. /\ Before(t, i) \in Seq(Line) /\ Behind(t, i) \in Seq(Line) /\ t[i] \in Line
        /\ t = Before(t, i) \o (<<t[i]>> \o Behind(t, i))
        /\ Len(Before(t, i)) = i - 1
        /\ \A j \in 1..i - 1 : Before(t, i)[j] = t[j]
    BY <2>2, Apart
  <2>6. \A j \in 1..Len(Before(t, i)) : Before(t, i)[j].name # "UID"
    <3>1. \A j \in 1..Len(t) : t[j].name # "UID"
      BY <1>4, FindIs
    <3>2. QED
      BY <2>2, <2>5, <3>1, LenProperties
  <2>7. QED
    BY <1>1, <1>4, <2>2, <2>3, <2>4, <2>5, <2>6
<1>5. QED
  BY <1>3, <1>4

LEMMA NoUIDPlace ==
    ASSUME NEW t, NEW new, Find(t, "UID") = 0, Find(t, "END") = 0
    PROVE  ReplaceUID(t, new) = t
BY DEF ReplaceUID

LEMMA ReplaceUIDTyped ==
    ASSUME NEW t \in Seq(Line), NEW new \in STRING
    PROVE  /\ ReplaceUID(t, new) \in Seq(Line)
           /\ ToSet(ReplaceUID(t, new)) \subseteq ToSet(t) \cup {UIDLine(new)}
<1>1. CASE Find(t, "UID") = 0 /\ Find(t, "END") = 0
  BY <1>1, NoUIDPlace
<1>2. CASE Find(t, "UID") # 0 \/ Find(t, "END") # 0
  <2>1. PICK b \in Seq(Line), x \in Line, a \in Seq(Line) :
              /\ t = b \o (<<x>> \o a)
              /\ \/ ReplaceUID(t, new) = b \o (<<UIDLine(new)>> \o a)
                 \/ ReplaceUID(t, new) = b \o (<<UIDLine(new)>> \o (<<x>> \o a))
    BY <1>2, UIDPlace
  <2>2. PICK e, one, it : e = UIDLine(new) /\ one = <<e>> /\ it = <<x>>
    OBVIOUS
  <2>3. e \in Line
    BY <2>2, UIDLineTyped
  <2>4. one \in Seq(Line) /\ it \in Seq(Line) /\ ToSet(one) = {e} /\ ToSet(it) = {x}
    BY <2>2, <2>3, Single
  <2>5. PICK xa, ea, exa : xa = it \o a /\ ea = one \o a /\ exa = one \o xa
    OBVIOUS
  <2>6. xa \in Seq(Line) /\ ToSet(xa) = ToSet(it) \cup ToSet(a)
    BY <2>4, <2>5, ConcatProperties, ToSetConcat
  <2>7. ea \in Seq(Line) /\ ToSet(ea) = ToSet(one) \cup ToSet(a)
    BY <2>4, <2>5, ConcatProperties, ToSetConcat
  <2>8. exa \in Seq(Line) /\ ToSet(exa) = ToSet(one) \cup ToSet(xa)
    <3>1. one \in Seq(Line) /\ xa \in Seq(Line) /\ exa = one \o xa
      BY <2>4, <2>5, <2>6
    <3>2. ToSet(one \o xa) = ToSet(one) \cup ToSet(xa)
      BY <3>1, ToSetConcat
    <3>3. one \o xa \in Seq(Line)
      BY <3>1, ConcatProperties
    <3>4. QED
      BY <3>1, <3>2, <3>3
  <2>9. PICK r1, r2 : r1 = b \o ea /\ r2 = b \o exa
    OBVIOUS
  <2>10. r1 \in Seq(Line) /\ ToSet(r1) = ToSet(b) \cup ToSet(ea)
    BY <2>7, <2>9, ConcatProperties, ToSetConcat
  <2>11. r2 \in Seq(Line) /\ ToSet(r2) = ToSet(b) \cup ToSet(exa)
    BY <2>8, <2>9, ConcatProperties, ToSetConcat
  <2>12. ToSet(t) = ToSet(b) \cup ToSet(xa)
    <3>1. ToSet(b \o xa) = ToSet(b) \cup ToSet(xa)
      BY <2>6, ToSetConcat
    <3>2. QED
      BY <2>1, <2>2, <2>5, <3>1
  <2>13. ReplaceUID(t, new) = r1 \/ ReplaceUID(t, new) = r2
    BY <2>1, <2>2, <2>5, <2>9
  <2>14. QED
    BY <2>2, <2>4, <2>6, <2>7, <2>8, <2>10, <2>11, <2>12, <2>13
<1>3. QED
  BY <1>1, <1>2

(* Nothing changes but lines of that name. *)
LEMMA ReplaceUIDKeeps ==
    ASSUME NEW t \in Seq(Line), NEW new \in STRING, NEW D,
           \A l \in Line : l.name = "UID" => l \in D
    PROVE  Without(ReplaceUID(t, new), D) = Without(t, D)
<1>1. CASE Find(t, "UID") = 0 /\ Find(t, "END") = 0
  BY <1>1, NoUIDPlace
<1>2. CASE Find(t, "UID") # 0 \/ Find(t, "END") # 0
  <2>1. PICK b \in Seq(Line), x \in Line, a \in Seq(Line) :
              /\ t = b \o (<<x>> \o a)
              /\ \/ x.name = "UID" /\ ReplaceUID(t, new) = b \o (<<UIDLine(new)>> \o a)
                 \/ ReplaceUID(t, new) = b \o (<<UIDLine(new)>> \o (<<x>> \o a))
    BY <1>2, UIDPlace
  <2>2. PICK e, one, it : e = UIDLine(new) /\ one = <<e>> /\ it = <<x>>
    OBVIOUS
  <2>3. e \in Line /\ e \in D
    BY <2>2, UIDLineTyped
  <2>4. one \in Seq(Line) /\ it \in Seq(Line) /\ Without(one, D) = <<>>
        /\ (x.name = "UID" => Without(it, D) = <<>>)
    BY <2>2, <2>3, Single, WithoutSingle
  <2>5. PICK xa, ea, exa : xa = it \o a /\ ea = one \o a /\ exa = one \o xa
    OBVIOUS
  <2>6. xa \in Seq(Line) /\ Without(xa, D) = Without(it, D) \o Without(a, D)
    BY <2>4, <2>5, ConcatProperties, WithoutConcat
  <2>7. ea \in Seq(Line) /\ Without(ea, D) = Without(one, D) \o Without(a, D)
    BY <2>4, <2>5, ConcatProperties, WithoutConcat
  <2>8. exa \in Seq(Line) /\ Without(exa, D) = Without(one, D) \o Without(xa, D)
    BY <2>4, <2>5, <2>6, ConcatProperties, WithoutConcat
  <2>9. Without(a, D) \in Seq(Line) /\ Without(xa, D) \in Seq(Line)
    BY <2>6, WithoutTyped
  <2>10. <<>> \o Without(a, D) = Without(a, D) /\ <<>> \o Without(xa, D) = Without(xa, D)
    BY <2>9, ConcatEmptySeq
  <2>11. Without(ea, D) = Without(a, D) /\ Without(exa, D) = Without(xa, D)
         /\ (x.name = "UID" => Without(xa, D) = Without(a, D))
    BY <2>4, <2>6, <2>7, <2>8, <2>10
  <2>12. /\ Without(b \o xa, D) = Without(b, D) \o Without(xa, D)
         /\ Without(b \o ea, D) = Without(b, D) \o Without(ea, D)
         /\ Without(b \o exa, D) = Without(b, D) \o Without(exa, D)
    <3>1. xa \in Seq(Line) /\ ea \in Seq(Line) /\ exa \in Seq(Line)
      BY <2>6, <2>7, <2>8
    <3>2. \A r \in Seq(Line) : Without(b \o r, D) = Without(b, D) \o Without(r, D)
      BY WithoutConcat
    <3>3. QED
      BY <3>1, <3>2
  <2>13. t = b \o xa /\ (\/ x.name = "UID" /\ ReplaceUID(t, new) = b \o ea
                         \/ ReplaceUID(t, new) = b \o exa)
    BY <2>1, <2>2, <2>5
  <2>14. QED
    BY <2>11, <2>12, <2>13
<1>3. QED
  BY <1>1, <1>2

LEMMA ReplaceUIDNamed ==
    ASSUME NEW t \in Seq(Line), NEW new \in STRING, NEW names, "UID" \notin names
    PROVE  Named(ReplaceUID(t, new), names) = Named(t, names)
<1>1. \A l \in Line : l.name = "UID" => l \in Unnamed(names)
  BY DEF Unnamed
<1>2. PICK u : u = ReplaceUID(t, new)
  OBVIOUS
<1>3. u \in Seq(Line) /\ Without(u, Unnamed(names)) = Without(t, Unnamed(names))
  BY <1>1, <1>2, ReplaceUIDTyped, ReplaceUIDKeeps
<1>4. QED
  BY <1>2, <1>3, NamedIs

LEMMA SaysReplaceUID ==
    ASSUME NEW t \in Seq(Line), NEW new \in STRING
    PROVE  /\ Says(ReplaceUID(t, new)) = Says(t)
           /\ Photos(ReplaceUID(t, new)) = Photos(t)
<1>1. PICK u : u = ReplaceUID(t, new)
  OBVIOUS
<1>2. u \in Seq(Line)
  BY <1>1, ReplaceUIDTyped
<1>3. Named(u, EmailNames) = Named(t, EmailNames) /\ Photos(u) = Photos(t)
  BY <1>1, ReplaceUIDNamed, NamesApart DEF Photos
<1>4. \A l \in Line : l.name = "UID" => l \in Dropped
  BY DEF Dropped, Rewritable
<1>5. Without(u, Dropped) = Without(t, Dropped)
  BY <1>1, <1>4, ReplaceUIDKeeps
<1>6. QED
  BY <1>1, <1>2, <1>3, <1>5, SaysIs

LEMMA ReplaceUIDFound ==
    ASSUME NEW t \in Seq(Line), NEW new \in STRING,
           Find(t, "UID") # 0 \/ Find(t, "END") # 0
    PROVE  /\ Find(ReplaceUID(t, new), "UID") # 0
           /\ ExtractProp(ReplaceUID(t, new), "UID") = new
<1>1. PICK b \in Seq(Line), x \in Line, a \in Seq(Line) :
              /\ \A j \in 1..Len(b) : b[j].name # "UID"
              /\ \/ ReplaceUID(t, new) = b \o (<<UIDLine(new)>> \o a)
                 \/ ReplaceUID(t, new) = b \o (<<UIDLine(new)>> \o (<<x>> \o a))
  <2>1. \E b \in Seq(Line), x \in Line, a \in Seq(Line) :
              /\ t = b \o (<<x>> \o a)
              /\ \A j \in 1..Len(b) : b[j].name # "UID"
              /\ \/ x.name = "UID" /\ ReplaceUID(t, new) = b \o (<<UIDLine(new)>> \o a)
                 \/ x.name = "END" /\ Find(t, "UID") = 0
                    /\ ReplaceUID(t, new) = b \o (<<UIDLine(new)>> \o (<<x>> \o a))
    BY UIDPlace
  <2>2. QED
    BY ONLY <2>1
<1>2. PICK e, one, it, xa : e = UIDLine(new) /\ one = <<e>> /\ it = <<x>> /\ xa = it \o a
  OBVIOUS
<1>3. e \in Line /\ e.name = "UID" /\ e.value = new
  BY <1>2, UIDLineTyped
<1>4. one \in Seq(Line) /\ it \in Seq(Line) /\ Len(one) = 1 /\ one[1] = e
  BY <1>2, <1>3, Single
<1>5. xa \in Seq(Line)
  BY <1>2, <1>4, ConcatProperties
<1>6. PICK r \in Seq(Line) : ReplaceUID(t, new) = b \o (one \o r)
  BY <1>1, <1>2, <1>5
<1>7. PICK u, v, m : u = b \o v /\ v = one \o r /\ m = Len(b)
  OBVIOUS
<1>8. v \in Seq(Line) /\ Len(v) \in Nat /\ Len(v) > 0 /\ v[1] = e
  <2>1. /\ one \o r \in Seq(Line) /\ Len(one \o r) = Len(one) + Len(r)
        /\ \A i \in 1..Len(one) + Len(r) : (one \o r)[i] = IF i <= Len(one) THEN one[i]
                                                           ELSE r[i - Len(one)]
    BY <1>4, ConcatProperties
  <2>2. Len(r) \in Nat
    BY LenProperties
  <2>3. QED
    BY <1>4, <1>7, <2>1, <2>2
<1>9. /\ u \in Seq(Line) /\ m \in Nat /\ Len(u) = m + Len(v)
      /\ \A i \in 1..m + Len(v) : u[i] = IF i <= m THEN b[i] ELSE v[i - m]
  BY <1>7, <1>8, ConcatProperties, LenProperties
<1>10. u[m + 1] = e /\ m + 1 \in 1..Len(u) /\ \A j \in 1..m : u[j] = b[j]
  BY <1>8, <1>9
<1>11. PICK k : k = m + 1
  OBVIOUS
<1>12. u[k].name = "UID" /\ k \in 1..Len(u) /\ \A j \in 1..k - 1 : u[j].name # "UID"
  BY <1>1, <1>3, <1>7, <1>9, <1>10, <1>11
<1>13. Find(u, "UID") = k
  BY <1>9, <1>12, FirstOf
<1>14. k # 0 /\ u[k].value = new
  BY <1>3, <1>9, <1>10, <1>11
<1>15. QED
  BY <1>6, <1>7, <1>13, <1>14 DEF ExtractProp

-----------------------------------------------------------------------------
(* Texts that start with BEGIN:VCARD, and a line added after that *)

Begin == [name |-> "BEGIN"]

Texts == {t \in Seq(Line) : Len(t) > 0 /\ t[1] = Begin}

LEMMA BeginTyped == Begin \in Line /\ Begin.name = "BEGIN" /\ Begin # Blank
                    /\ LineToV4(Begin) = Begin /\ LineToV3(Begin) = Begin
<1>1. Begin \in Line /\ Begin.name = "BEGIN"
  BY DEF Begin, Line, Mark
<1>2. LineToV4(Begin) = Begin /\ LineToV3(Begin) = Begin
  <2>1. "BEGIN" \notin Touched
    BY NamesApart DEF Touched, Converted
  <2>2. QED
    BY <1>1, <2>1, LineV4, LineV3
<1>3. Begin # Blank
  <2>1. "BEGIN" # ""
    BY Zenon
  <2>2. QED
    BY Zenon, <1>1, <2>1, MarksAreLines
<1>4. QED
  BY <1>1, <1>2, <1>3

LEMMA HeadIs ==
    ASSUME NEW t \in Texts
    PROVE  \E r \in Seq(Line) : t = <<Begin>> \o r
<1>1. t \in Seq(Line) /\ Len(t) \in Nat /\ Len(t) > 0 /\ t[1] = Begin
  BY LenProperties DEF Texts
<1>2. PICK i : i = 1
  OBVIOUS
<1>3. i \in 1..Len(t)
  BY <1>1, <1>2
<1>4. /\ Before(t, i) \in Seq(Line) /\ Behind(t, i) \in Seq(Line)
      /\ t = Before(t, i) \o (<<t[i]>> \o Behind(t, i)) /\ Len(Before(t, i)) = i - 1
  BY <1>1, <1>3, Apart
<1>5. Before(t, i) = <<>>
  BY <1>2, <1>4, EmptySeq
<1>6. PICK v : v = <<t[i]>> \o Behind(t, i)
  OBVIOUS
<1>7. v \in Seq(Line)
  <2>1. <<t[i]>> \in Seq(Line)
    BY <1>1, <1>2, BeginTyped, Single
  <2>2. QED
    BY <1>4, <1>6, <2>1, ConcatProperties
<1>8. <<>> \o v = v
  BY <1>7, ConcatEmptySeq
<1>9. t = <<Begin>> \o Behind(t, i)
  BY <1>1, <1>2, <1>4, <1>5, <1>6, <1>8
<1>10. QED
  BY <1>4, <1>9

LEMMA HeadTyped ==
    ASSUME NEW r \in Seq(Line)
    PROVE  <<Begin>> \o r \in Texts
<1>1. PICK b : b = <<Begin>>
  OBVIOUS
<1>2. b \in Seq(Line) /\ Len(b) = 1 /\ b[1] = Begin
  BY <1>1, BeginTyped, Single
<1>3. /\ b \o r \in Seq(Line) /\ Len(b \o r) = Len(b) + Len(r)
      /\ \A i \in 1..Len(b) + Len(r) : (b \o r)[i] = IF i <= Len(b) THEN b[i]
                                                     ELSE r[i - Len(b)]
  BY <1>2, ConcatProperties
<1>4. Len(r) \in Nat
  BY LenProperties
<1>5. (b \o r)[1] = Begin /\ Len(b \o r) > 0
  BY <1>2, <1>3, <1>4
<1>6. QED
  BY <1>1, <1>3, <1>5 DEF Texts

LEMMA BeginKept ==
    ASSUME NEW t \in Texts
    PROVE  ToV4(t) \in Texts /\ ToV3(t) \in Texts
<1>1. PICK r \in Seq(Line) : t = <<Begin>> \o r
  BY HeadIs
<1>2. PICK b : b = <<Begin>>
  OBVIOUS
<1>3. b \in Seq(Line) /\ ToSet(b) = {Begin}
  BY <1>2, BeginTyped, Single
<1>4. Mapped(b, H4) = b /\ Mapped(b, H3) = b
  <2>1. \A x \in ToSet(b) : H4[x] = x /\ H3[x] = x
    BY <1>3, BeginTyped, LineFunctions
  <2>2. QED
    BY <1>3, <2>1, MappedSame
<1>5. PICK m4, m3 : m4 = Mapped(r, H4) /\ m3 = Mapped(r, H3)
  OBVIOUS
<1>6. m4 \in Seq(Line) /\ m3 \in Seq(Line)
  BY <1>5, TextTyped
<1>7. Mapped(b \o r, H4) = b \o m4 /\ Mapped(b \o r, H3) = b \o m3
  <2>1. /\ \A s \in Seq(Line) : Mapped(b \o s, H4) = Mapped(b, H4) \o Mapped(s, H4)
        /\ \A s \in Seq(Line) : Mapped(b \o s, H3) = Mapped(b, H3) \o Mapped(s, H3)
    BY <1>3, MappedConcat
  <2>2. QED
    BY <1>4, <1>5, <2>1
<1>8. Without(b \o m4, {Blank}) = b \o Without(m4, {Blank})
  <2>1. Without(b \o m4, {Blank}) = Without(b, {Blank}) \o Without(m4, {Blank})
    <3>1. \A s \in Seq(Line) :
             Without(b \o s, {Blank}) = Without(b, {Blank}) \o Without(s, {Blank})
      BY <1>3, WithoutConcat
    <3>2. QED
      BY <1>6, <3>1
  <2>2. Without(b, {Blank}) = b
    BY <1>3, BeginTyped, WithoutNothing
  <2>3. QED
    BY <2>1, <2>2
<1>9. Without(m4, {Blank}) \in Seq(Line)
  BY <1>6, WithoutTyped
<1>10. b \o m3 \in Texts /\ b \o Without(m4, {Blank}) \in Texts
  BY <1>2, <1>6, <1>9, HeadTyped
<1>11. t \in Seq(Line)
  BY DEF Texts
<1>12. QED
  BY <1>1, <1>2, <1>7, <1>8, <1>10, <1>11, TextIs

LEMMA BeginKeptByUID ==
    ASSUME NEW t \in Texts, NEW new \in STRING
    PROVE  ReplaceUID(t, new) \in Texts
<1>1. t \in Seq(Line) /\ Len(t) \in Nat /\ Len(t) > 0 /\ t[1] = Begin
  BY LenProperties DEF Texts
<1>2. CASE Find(t, "UID") = 0 /\ Find(t, "END") = 0
  BY <1>2, NoUIDPlace
<1>3. CASE Find(t, "UID") # 0 \/ Find(t, "END") # 0
  <2>1. PICK b \in Seq(Line), x \in Line, a \in Seq(Line) :
              /\ t = b \o (<<x>> \o a)
              /\ x.name \in {"UID", "END"}
              /\ \/ ReplaceUID(t, new) = b \o (<<UIDLine(new)>> \o a)
                 \/ ReplaceUID(t, new) = b \o (<<UIDLine(new)>> \o (<<x>> \o a))
    <3>1. \E b \in Seq(Line), x \in Line, a \in Seq(Line) :
              /\ t = b \o (<<x>> \o a)
              /\ \A j \in 1..Len(b) : b[j].name # "UID"
              /\ \/ x.name = "UID" /\ ReplaceUID(t, new) = b \o (<<UIDLine(new)>> \o a)
                 \/ x.name = "END" /\ Find(t, "UID") = 0
                    /\ ReplaceUID(t, new) = b \o (<<UIDLine(new)>> \o (<<x>> \o a))
      BY <1>1, <1>3, UIDPlace
    <3>2. QED
      BY ONLY <3>1
  <2>2. PICK it, xa : it = <<x>> /\ xa = it \o a
    OBVIOUS
  <2>3. it \in Seq(Line) /\ Len(it) = 1 /\ it[1] = x
    BY <2>2, Single
  <2>4. xa \in Seq(Line) /\ Len(xa) = Len(it) + Len(a)
        /\ \A i \in 1..Len(it) + Len(a) : xa[i] = IF i <= Len(it) THEN it[i]
                                                  ELSE a[i - Len(it)]
    BY <2>2, <2>3, ConcatProperties
  <2>5. Len(a) \in Nat /\ Len(b) \in Nat
    BY LenProperties
  <2>6. xa[1] = x /\ Len(xa) \in Nat /\ Len(xa) > 0
    BY <2>3, <2>4, <2>5
  <2>7. \A i \in 1..Len(b) + Len(xa) : (b \o xa)[i] = IF i <= Len(b) THEN b[i]
                                                       ELSE xa[i - Len(b)]
    BY <2>4, ConcatProperties
  <2>8. (b \o xa)[1] = Begin
    BY <1>1, <2>1, <2>2
  <2>9. Len(b) > 0 /\ b[1] = Begin
    <3>1. CASE Len(b) = 0
      <4>1. (b \o xa)[1] = x
        BY <2>5, <2>6, <2>7, <3>1
      <4>2. QED
        BY <2>1, <2>8, <4>1, BeginTyped
    <3>2. CASE Len(b) > 0
      BY <2>5, <2>6, <2>7, <2>8, <3>2
    <3>3. QED
      BY <2>5, <3>1, <3>2
  <2>10. ASSUME NEW r \in Seq(Line)
         PROVE  b \o r \in Texts
    <3>1. /\ b \o r \in Seq(Line) /\ Len(b \o r) = Len(b) + Len(r)
          /\ \A i \in 1..Len(b) + Len(r) : (b \o r)[i] = IF i <= Len(b) THEN b[i]
                                                         ELSE r[i - Len(b)]
      BY ConcatProperties
    <3>2. Len(r) \in Nat
      BY LenProperties
    <3>3. (b \o r)[1] = Begin /\ Len(b \o r) > 0
      BY <2>5, <2>9, <3>1, <3>2
    <3>4. QED
      BY <3>1, <3>3 DEF Texts
  <2>11. PICK e, one, ea, exa : e = UIDLine(new) /\ one = <<e>> /\ ea = one \o a
                                /\ exa = one \o xa
    OBVIOUS
  <2>12. e \in Line
    BY <2>11, UIDLineTyped
  <2>13. one \in Seq(Line)
    BY <2>11, <2>12, Single
  <2>14. ea \in Seq(Line) /\ exa \in Seq(Line)
    BY <2>4, <2>11, <2>13, ConcatProperties
  <2>15. ReplaceUID(t, new) = b \o ea \/ ReplaceUID(t, new) = b \o exa
    BY <2>1, <2>2, <2>11
  <2>16. QED
    BY <2>10, <2>14, <2>15
<1>4. QED
  BY <1>2, <1>3

LEMMA InsertSecond ==
    ASSUME NEW r \in Seq(Line), NEW e \in Line
    PROVE  InsertAt(<<Begin>> \o r, 2, e) = <<Begin>> \o (<<e>> \o r)
<1>1. PICK b, one, t, n : b = <<Begin>> /\ one = <<e>> /\ t = b \o r /\ n = Len(r)
  OBVIOUS
<1>2. /\ b \in Seq(Line) /\ Len(b) = 1 /\ b[1] = Begin
      /\ one \in Seq(Line)
  BY <1>1, BeginTyped, Single
<1>3. /\ t \in Seq(Line) /\ Len(t) = Len(b) + Len(r)
      /\ \A i \in 1..Len(b) + Len(r) : t[i] = IF i <= Len(b) THEN b[i] ELSE r[i - Len(b)]
  BY <1>1, <1>2, ConcatProperties
<1>4. n \in Nat /\ Len(t) = n + 1 /\ t[1] = Begin /\ \A i \in 1..n : t[i + 1] = r[i]
  BY <1>1, <1>2, <1>3, LenProperties
<1>5. SubSeq(t, 1, 1) = b
  <2>1. PICK i : i = 1
    OBVIOUS
  <2>2. i \in 1..Len(t) /\ i \in i..Len(t)
    BY <1>4, <2>1
  <2>3. SubSeq(t, i, i) = <<t[i]>> \o SubSeq(t, i + 1, i)
    BY <1>3, <2>2, SubSeqRecursiveFirst
  <2>4. SubSeq(t, i + 1, i) = <<>>
    BY <2>1, SubSeqEmpty
  <2>5. b \o <<>> = b
    BY <1>2, ConcatEmptySeq
  <2>6. QED
    BY <1>1, <1>4, <2>1, <2>3, <2>4, <2>5
<1>6. SubSeq(t, 2, n + 1) = r
  <2>1. PICK s : s = SubSeq(t, 2, n + 1)
    OBVIOUS
  <2>2. \A i \in 2..n + 1 : t[i] \in Line
    BY <1>3, <1>4, ElementOfSeq
  <2>3. /\ s \in Seq(Line)
        /\ Len(s) = IF 2 <= n + 1 THEN n + 1 - 2 + 1 ELSE 0
        /\ \A i \in 1..n + 1 - 2 + 1 : s[i] = t[2 + i - 1]
    BY <1>4, <2>1, <2>2, SubSeqProperties
  <2>4. Len(s) = Len(r) /\ \A i \in 1..Len(s) : s[i] = r[i]
    BY <1>1, <1>4, <2>3
  <2>5. QED
    BY <2>1, <2>3, <2>4, SeqEqual
<1>7. InsertAt(t, 2, e) = (b \o one) \o r
  BY <1>1, <1>4, <1>5, <1>6 DEF InsertAt
<1>8. (b \o one) \o r = b \o (one \o r)
  BY <1>2, ConcatAssociative
<1>9. QED
  BY <1>1, <1>7, <1>8

LEMMA InsertedTyped ==
    ASSUME NEW t \in Texts, NEW e \in Line
    PROVE  /\ InsertAt(t, 2, e) \in Texts
           /\ ToSet(InsertAt(t, 2, e)) = ToSet(t) \cup {e}
<1>1. PICK r \in Seq(Line) : t = <<Begin>> \o r
  BY HeadIs
<1>2. PICK b, one, u : b = <<Begin>> /\ one = <<e>> /\ u = one \o r
  OBVIOUS
<1>3. b \in Seq(Line) /\ one \in Seq(Line) /\ ToSet(b) = {Begin} /\ ToSet(one) = {e}
  BY <1>2, BeginTyped, Single
<1>4. u \in Seq(Line) /\ ToSet(u) = ToSet(one) \cup ToSet(r)
  BY <1>2, <1>3, ConcatProperties, ToSetConcat
<1>5. ToSet(b \o u) = ToSet(b) \cup ToSet(u) /\ ToSet(b \o r) = ToSet(b) \cup ToSet(r)
  BY <1>3, <1>4, ToSetConcat
<1>6. b \o u \in Texts
  BY <1>2, <1>4, HeadTyped
<1>7. InsertAt(t, 2, e) = b \o u
  BY <1>1, <1>2, InsertSecond
<1>8. QED
  BY <1>1, <1>2, <1>3, <1>4, <1>5, <1>6, <1>7

LEMMA InsertedWithout ==
    ASSUME NEW t \in Texts, NEW e \in Line, NEW D
    PROVE  /\ e \in D => Without(InsertAt(t, 2, e), D) = Without(t, D)
           /\ e \notin D /\ Begin \in D =>
                 Without(InsertAt(t, 2, e), D) = <<e>> \o Without(t, D)
<1>1. PICK r \in Seq(Line) : t = <<Begin>> \o r
  BY HeadIs
<1>2. PICK b, one, u : b = <<Begin>> /\ one = <<e>> /\ u = one \o r
  OBVIOUS
<1>3. b \in Seq(Line) /\ one \in Seq(Line)
  BY <1>2, BeginTyped, Single
<1>4. Without(one, D) = IF e \in D THEN <<>> ELSE one
  BY <1>2, WithoutSingle
<1>5. Begin \in D => Without(b, D) = <<>>
  BY <1>2, BeginTyped, WithoutSingle
<1>6. u \in Seq(Line)
  BY <1>2, <1>3, ConcatProperties
<1>7. /\ Without(u, D) = Without(one, D) \o Without(r, D)
      /\ Without(b \o u, D) = Without(b, D) \o Without(u, D)
      /\ Without(b \o r, D) = Without(b, D) \o Without(r, D)
  <2>1. \A s \in Seq(Line) : /\ Without(one \o s, D) = Without(one, D) \o Without(s, D)
                             /\ Without(b \o s, D) = Without(b, D) \o Without(s, D)
    BY <1>3, WithoutConcat
  <2>2. QED
    BY <1>2, <1>6, <2>1
<1>8. PICK w : w = Without(r, D)
  OBVIOUS
<1>9. w \in Seq(Line)
  BY <1>8, WithoutTyped
<1>10. <<>> \o w = w
  BY <1>9, ConcatEmptySeq
<1>11. <<>> \o (one \o w) = one \o w
  <2>1. one \o w \in Seq(Line)
    BY <1>3, <1>9, ConcatProperties
  <2>2. QED
    BY <2>1, ConcatEmptySeq
<1>12. InsertAt(t, 2, e) = b \o u
  BY <1>1, <1>2, InsertSecond
<1>13. CASE e \in D
  <2>1. Without(b \o u, D) = Without(b \o r, D)
    BY <1>4, <1>7, <1>8, <1>10, <1>13
  <2>2. QED
    BY <1>1, <1>2, <1>12, <1>13, <2>1
<1>14. CASE e \notin D /\ Begin \in D
  <2>1. Without(b \o u, D) = one \o w /\ Without(b \o r, D) = w
    BY <1>4, <1>5, <1>7, <1>8, <1>10, <1>11, <1>14
  <2>2. QED
    BY <1>1, <1>2, <1>12, <1>14, <2>1
<1>15. QED
  BY <1>13, <1>14

LEMMA InsertedNamed ==
    ASSUME NEW t \in Texts, NEW e \in EmailLine
    PROVE  /\ \A names : names \cap EmailNames = {} =>
                  Named(InsertAt(t, 2, e), names) = Named(t, names)
           /\ Named(InsertAt(t, 2, e), EmailNames) = <<e>> \o Named(t, EmailNames)
<1>1. e \in Line /\ e.name \in EmailNames
  BY EmailIs DEF Line
<1>2. PICK u : u = InsertAt(t, 2, e)
  OBVIOUS
<1>3. u \in Seq(Line) /\ t \in Seq(Line)
  BY <1>1, <1>2, InsertedTyped DEF Texts
<1>4. ASSUME NEW names, names \cap EmailNames = {}
      PROVE  Named(u, names) = Named(t, names)
  <2>1. e \in Unnamed(names)
    BY <1>1, <1>4 DEF Unnamed
  <2>2. Without(u, Unnamed(names)) = Without(t, Unnamed(names))
    BY <1>1, <1>2, <2>1, InsertedWithout
  <2>3. QED
    BY <1>3, <2>2, NamedIs
<1>5. Named(u, EmailNames) = <<e>> \o Named(t, EmailNames)
  <2>1. PICK D : D = Unnamed(EmailNames)
    OBVIOUS
  <2>2. e \notin D /\ Begin \in D
    BY <1>1, <2>1, BeginTyped, NamesApart DEF Unnamed
  <2>3. Without(u, D) = <<e>> \o Without(t, D)
    BY <1>1, <1>2, <2>2, InsertedWithout
  <2>4. QED
    BY <1>3, <2>1, <2>3, NamedIs
<1>6. QED
  BY <1>2, <1>4, <1>5

LEMMA SaysInserted ==
    ASSUME NEW t \in Texts, NEW e \in EmailLine
    PROVE  /\ Says(InsertAt(t, 2, e)) = [emails |-> <<Meaning(e)>> \o Says(t).emails,
                                         others |-> Says(t).others]
           /\ Photos(InsertAt(t, 2, e)) = Photos(t)
<1>1. e \in Line /\ e.name \in EmailNames
  BY EmailIs DEF Line
<1>2. PICK u : u = InsertAt(t, 2, e)
  OBVIOUS
<1>3. u \in Seq(Line) /\ t \in Seq(Line)
  BY <1>1, <1>2, InsertedTyped DEF Texts
<1>4. PICK one, es : one = <<e>> /\ es = Named(t, EmailNames)
  OBVIOUS
<1>5. one \in Seq(Line) /\ es \in Seq(Line) /\ Named(u, EmailNames) = one \o es
  BY <1>1, <1>2, <1>3, <1>4, Single, NamedIs, InsertedNamed
<1>6. Mapped(one \o es, Meanings) = Mapped(one, Meanings) \o Mapped(es, Meanings)
  <2>1. \A s \in Seq(Line) :
           Mapped(one \o s, Meanings) = Mapped(one, Meanings) \o Mapped(s, Meanings)
    BY <1>5, MappedConcat
  <2>2. QED
    BY <1>5, <2>1
<1>7. Mapped(one, Meanings) = <<Meaning(e)>>
  <2>1. Meanings[e] = Meaning(e)
    BY <1>1 DEF Meanings
  <2>2. DOMAIN one = {1} /\ one[1] = e
    BY <1>4
  <2>3. QED
    BY <2>1, <2>2 DEF Mapped
<1>8. Without(u, Dropped) = Without(t, Dropped)
  <2>1. e \in Dropped
    BY <1>1 DEF Dropped, Rewritable
  <2>2. QED
    BY <1>1, <1>2, <2>1, InsertedWithout
<1>9. /\ Says(u) = [emails |-> Mapped(Named(u, EmailNames), Meanings),
                    others |-> Without(u, Dropped)]
      /\ Says(t) = [emails |-> Mapped(Named(t, EmailNames), Meanings),
                    others |-> Without(t, Dropped)]
  BY <1>3, SaysIs
<1>10. /\ Says(t).emails = Mapped(es, Meanings)
       /\ Says(t).others = Without(t, Dropped)
  BY <1>4, <1>9
<1>11. Mapped(Named(u, EmailNames), Meanings) = <<Meaning(e)>> \o Says(t).emails
  BY <1>5, <1>6, <1>7, <1>10
<1>12. Says(u) = [emails |-> <<Meaning(e)>> \o Says(t).emails, others |-> Says(t).others]
  BY <1>5, <1>8, <1>9, <1>10, <1>11
<1>13. Photos(u) = Photos(t)
  <2>1. PhotoNames \cap EmailNames = {}
    BY NamesApart
  <2>2. QED
    BY <1>2, <2>1, InsertedNamed DEF Photos
<1>14. QED
  BY <1>2, <1>12, <1>13

-----------------------------------------------------------------------------
(* The facts of module VCard *)

Exact(t) == Find(t, "VERSION") # 0 /\ t[Find(t, "VERSION")].exact

Anchored(t) == Find(t, "UID") # 0 \/ Find(t, "END") # 0

LEMMA FactsAre ==
    ASSUME NEW t
    PROVE  Facts(t) = [version |-> ExtractProp(t, "VERSION"), exact |-> Exact(t),
                       fn |-> ExtractProp(t, "FN"), hasN |-> ExtractProp(t, "N") # Absent,
                       uid |-> ExtractProp(t, "UID"), anchored |-> Anchored(t),
                       bigPhoto |-> ~ ValidatePhotoSize(t)]
BY DEF Facts, Exact, Anchored

LEMMA FactsBoolean ==
    ASSUME NEW t
    PROVE  Exact(t) \in BOOLEAN /\ Anchored(t) \in BOOLEAN /\ ValidatePhotoSize(t) \in BOOLEAN
BY DEF Exact, Anchored, ValidatePhotoSize

(* Facts with these Boolean parts *)
LEMMA FactsSame ==
    ASSUME NEW t, NEW x \in BOOLEAN, NEW a \in BOOLEAN, NEW v \in BOOLEAN,
           Exact(t) <=> x, Anchored(t) <=> a, ValidatePhotoSize(t) <=> v
    PROVE  Facts(t) = [version |-> ExtractProp(t, "VERSION"), exact |-> x,
                       fn |-> ExtractProp(t, "FN"), hasN |-> ExtractProp(t, "N") # Absent,
                       uid |-> ExtractProp(t, "UID"), anchored |-> a, bigPhoto |-> ~ v]
<1>1. Exact(t) = x /\ Anchored(t) = a /\ ValidatePhotoSize(t) = v
  BY FactsBoolean
<1>2. QED
  BY <1>1, FactsAre

LEMMA BigIs ==
    ASSUME NEW t \in Seq(Line)
    PROVE  ValidatePhotoSize(t) <=> \A l \in ToSet(t) : ~ TooBig(l)
BY DEF ValidatePhotoSize, ToSet

LEMMA SameNamed ==
    ASSUME NEW t \in Seq(Line), NEW u \in Seq(Line), NEW n, Named(u, {n}) = Named(t, {n})
    PROVE  /\ ExtractProp(u, n) = ExtractProp(t, n)
           /\ Find(u, n) = 0 <=> Find(t, n) = 0
           /\ Find(t, n) # 0 => u[Find(u, n)] = t[Find(t, n)]
<1>1. ExtractProp(u, n) = ExtractProp(t, n)
  BY ExtractIs
<1>2. /\ Find(u, n) = 0 <=> Find(t, n) = 0
      /\ Find(t, n) # 0 => u[Find(u, n)] = t[Find(t, n)]
  BY FindNamed
<1>3. QED
  BY <1>1, <1>2

LEMMA FactsInserted ==
    ASSUME NEW t \in Texts, NEW e \in EmailLine
    PROVE  Facts(InsertAt(t, 2, e)) = Facts(t)
<1>1. e \in Line /\ e.name \in EmailNames
  BY EmailIs DEF Line
<1>2. PICK u : u = InsertAt(t, 2, e)
  OBVIOUS
<1>3. u \in Seq(Line) /\ t \in Seq(Line) /\ ToSet(u) = ToSet(t) \cup {e}
  BY <1>1, <1>2, InsertedTyped DEF Texts
<1>4. ASSUME NEW n, n \notin EmailNames
      PROVE  /\ ExtractProp(u, n) = ExtractProp(t, n)
             /\ Find(u, n) = 0 <=> Find(t, n) = 0
             /\ Find(t, n) # 0 => u[Find(u, n)] = t[Find(t, n)]
  <2>1. {n} \cap EmailNames = {}
    BY <1>4
  <2>2. Named(u, {n}) = Named(t, {n})
    BY <1>2, <2>1, InsertedNamed
  <2>3. QED
    BY <1>3, <2>2, SameNamed
<1>0. \A n \in {"VERSION", "FN", "N", "UID", "END"} : n \notin EmailNames
  BY NamesApart
<1>5. Exact(u) <=> Exact(t)
  BY <1>0, <1>4 DEF Exact
<1>6. Anchored(u) <=> Anchored(t)
  BY <1>0, <1>4 DEF Anchored
<1>7. ValidatePhotoSize(u) <=> ValidatePhotoSize(t)
  <2>1. ~ TooBig(e)
    BY <1>1, NamesApart DEF TooBig
  <2>2. QED
    BY <1>3, <2>1, BigIs
<1>8. Facts(u) = [version |-> ExtractProp(u, "VERSION"), exact |-> Exact(t),
                  fn |-> ExtractProp(u, "FN"), hasN |-> ExtractProp(u, "N") # Absent,
                  uid |-> ExtractProp(u, "UID"), anchored |-> Anchored(t),
                  bigPhoto |-> ~ ValidatePhotoSize(t)]
  BY <1>5, <1>6, <1>7, FactsBoolean, FactsSame
<1>9. /\ ExtractProp(u, "VERSION") = ExtractProp(t, "VERSION")
      /\ ExtractProp(u, "FN") = ExtractProp(t, "FN")
      /\ ExtractProp(u, "N") = ExtractProp(t, "N")
      /\ ExtractProp(u, "UID") = ExtractProp(t, "UID")
  BY <1>0, <1>4
<1>10. QED
  BY <1>2, <1>8, <1>9, FactsAre

LEMMA FactsReplaceUID ==
    ASSUME NEW t \in Seq(Line), NEW new \in STRING
    PROVE  Facts(ReplaceUID(t, new)) = V!ReplaceUID(Facts(t), new)
<1>1. CASE ~ Anchored(t)
  <2>1. ReplaceUID(t, new) = t
    BY <1>1, NoUIDPlace DEF Anchored
  <2>2. Facts(t).anchored = Anchored(t)
    BY FactsAre
  <2>3. QED
    BY <1>1, <2>1, <2>2 DEF V!ReplaceUID
<1>2. CASE Anchored(t)
  <2>1. PICK u : u = ReplaceUID(t, new)
    OBVIOUS
  <2>2. u \in Seq(Line)
    BY <2>1, ReplaceUIDTyped
  <2>3. ASSUME NEW n, n # "UID"
        PROVE  /\ ExtractProp(u, n) = ExtractProp(t, n)
               /\ Find(u, n) = 0 <=> Find(t, n) = 0
               /\ Find(t, n) # 0 => u[Find(u, n)] = t[Find(t, n)]
    <3>1. Named(u, {n}) = Named(t, {n})
      BY <2>1, <2>3, ReplaceUIDNamed
    <3>2. QED
      BY <2>2, <3>1, SameNamed
  <2>4. Exact(u) <=> Exact(t)
    BY <2>3 DEF Exact
  <2>5. Find(u, "UID") # 0 /\ ExtractProp(u, "UID") = new
    BY <1>2, <2>1, ReplaceUIDFound DEF Anchored
  <2>6. Anchored(u)
    BY <2>5 DEF Anchored
  <2>7. ValidatePhotoSize(u) <=> ValidatePhotoSize(t)
    <3>1. ToSet(Named(u, PhotoNames)) = {l \in ToSet(u) : l.name \in PhotoNames}
          /\ ToSet(Named(t, PhotoNames)) = {l \in ToSet(t) : l.name \in PhotoNames}
      BY <2>2, NamedSet
    <3>2. Named(u, PhotoNames) = Named(t, PhotoNames)
      BY <2>1, SaysReplaceUID DEF Photos
    <3>3. {l \in ToSet(u) : l.name \in PhotoNames} = {l \in ToSet(t) : l.name \in PhotoNames}
      BY <3>1, <3>2
    <3>4. QED
      BY <2>2, <3>3, BigIs DEF TooBig
  <2>8. Facts(u) = [version |-> ExtractProp(t, "VERSION"), exact |-> Exact(t),
                    fn |-> ExtractProp(t, "FN"), hasN |-> ExtractProp(t, "N") # Absent,
                    uid |-> new, anchored |-> TRUE, bigPhoto |-> ~ ValidatePhotoSize(t)]
    <3>1. Facts(u) = [version |-> ExtractProp(u, "VERSION"), exact |-> Exact(t),
                      fn |-> ExtractProp(u, "FN"), hasN |-> ExtractProp(u, "N") # Absent,
                      uid |-> ExtractProp(u, "UID"), anchored |-> TRUE,
                      bigPhoto |-> ~ ValidatePhotoSize(t)]
      BY <2>4, <2>6, <2>7, FactsBoolean, FactsSame
    <3>2. QED
      BY <2>3, <2>5, <3>1
  <2>9. V!ReplaceUID(Facts(t), new) = [Facts(t) EXCEPT !.uid = new]
    BY <1>2, FactsAre DEF V!ReplaceUID
  <2>10. Facts(t).anchored = TRUE
    BY <1>2, FactsAre
  <2>11. QED
    BY <1>2, <2>1, <2>8, <2>9, <2>10, FactsAre
<1>3. QED
  BY <1>1, <1>2

(* The first VERSION line *)
LEMMA VersionLineIs ==
    ASSUME NEW t \in Seq(Line), Find(t, "VERSION") # 0
    PROVE  /\ t[Find(t, "VERSION")] \in VersionLine
           /\ t[Find(t, "VERSION")] \in ToSet(t)
<1>1. PICK i : i = Find(t, "VERSION")
  OBVIOUS
<1>2. i \in 0..Len(t) /\ i # 0 /\ t[i].name = "VERSION"
  BY <1>1, FindIs
<1>3. i \in 1..Len(t) /\ t[i] \in Line
  BY <1>2, LenProperties
<1>4. t[i] \in VersionLine
  BY <1>2, <1>3, LineKinds
<1>5. t[i] \in ToSet(t)
  BY <1>3 DEF ToSet
<1>6. QED
  BY <1>1, <1>4, <1>5

LEMMA VersionV4 ==
    ASSUME NEW t \in Seq(Line), NEW u \in Seq(Line),
           Named(u, {"VERSION"}) = Mapped(Named(t, {"VERSION"}), H4)
    PROVE  /\ Exact(u) <=> Exact(t)
           /\ ExtractProp(u, "VERSION") = IF ExtractProp(t, "VERSION") = "3.0" /\ Exact(t)
                                          THEN "4.0" ELSE ExtractProp(t, "VERSION")
<1>1. /\ Find(u, "VERSION") = 0 <=> Find(t, "VERSION") = 0
      /\ Find(t, "VERSION") # 0 => u[Find(u, "VERSION")] = H4[t[Find(t, "VERSION")]]
  BY FirstMapped
<1>2. CASE Find(t, "VERSION") = 0
  BY <1>1, <1>2 DEF Exact, ExtractProp
<1>3. CASE Find(t, "VERSION") # 0
  <2>1. PICK l, m : l = t[Find(t, "VERSION")] /\ m = u[Find(u, "VERSION")]
    OBVIOUS
  <2>2. l \in VersionLine /\ l \in Line
    BY <1>3, <2>1, VersionLineIs DEF Line
  <2>3. m = LineToV4(l)
    BY <1>1, <1>3, <2>1, <2>2, LineFunctions
  <2>4. m = IF l.value = "3.0" /\ l.exact THEN Version("4.0", TRUE) ELSE l
    BY <2>2, <2>3, VersionIs
  <2>5. /\ ExtractProp(t, "VERSION") = l.value /\ ExtractProp(u, "VERSION") = m.value
        /\ Exact(t) <=> l.exact
        /\ Exact(u) <=> m.exact
    BY <1>1, <1>3, <2>1 DEF ExtractProp, Exact
  <2>6. Version("4.0", TRUE).value = "4.0" /\ Version("4.0", TRUE).exact = TRUE
    BY VersionTyped
  <2>7. QED
    BY <2>4, <2>5, <2>6
<1>4. QED
  BY <1>2, <1>3

LEMMA VersionV3 ==
    ASSUME NEW t \in Seq(Line), NEW u \in Seq(Line),
           Named(u, {"VERSION"}) = Mapped(Named(t, {"VERSION"}), H3)
    PROVE  /\ Exact(u) <=> Exact(t)
           /\ ExtractProp(u, "VERSION") = IF ExtractProp(t, "VERSION") = "4.0" /\ Exact(t)
                                          THEN "3.0" ELSE ExtractProp(t, "VERSION")
<1>1. /\ Find(u, "VERSION") = 0 <=> Find(t, "VERSION") = 0
      /\ Find(t, "VERSION") # 0 => u[Find(u, "VERSION")] = H3[t[Find(t, "VERSION")]]
  BY FirstMapped
<1>2. CASE Find(t, "VERSION") = 0
  BY <1>1, <1>2 DEF Exact, ExtractProp
<1>3. CASE Find(t, "VERSION") # 0
  <2>1. PICK l, m : l = t[Find(t, "VERSION")] /\ m = u[Find(u, "VERSION")]
    OBVIOUS
  <2>2. l \in VersionLine /\ l \in Line
    BY <1>3, <2>1, VersionLineIs DEF Line
  <2>3. m = LineToV3(l)
    BY <1>1, <1>3, <2>1, <2>2, LineFunctions
  <2>4. m = IF l.value = "4.0" /\ l.exact THEN Version("3.0", TRUE) ELSE l
    BY <2>2, <2>3, VersionIs
  <2>5. /\ ExtractProp(t, "VERSION") = l.value /\ ExtractProp(u, "VERSION") = m.value
        /\ Exact(t) <=> l.exact
        /\ Exact(u) <=> m.exact
    BY <1>1, <1>3, <2>1 DEF ExtractProp, Exact
  <2>6. Version("3.0", TRUE).value = "3.0" /\ Version("3.0", TRUE).exact = TRUE
    BY VersionTyped
  <2>7. QED
    BY <2>4, <2>5, <2>6
<1>4. QED
  BY <1>2, <1>3

(* Lines that are not touched are found as before. *)
LEMMA Untouched ==
    ASSUME NEW t \in Seq(Line), NEW u \in Seq(Line), NEW n, NEW h, n \notin Touched,
           Named(u, {n}) = Mapped(Named(t, {n}), h),
           \A l \in Line : l.name \notin Touched => h[l] = l
    PROVE  ExtractProp(u, n) = ExtractProp(t, n) /\ (Find(u, n) = 0 <=> Find(t, n) = 0)
<1>1. PICK s : s = Named(t, {n})
  OBVIOUS
<1>2. s \in Seq(Line) /\ \A l \in ToSet(s) : l \in Line /\ l.name = n
  <2>1. s \in Seq(Line)
    BY <1>1, NamedIs
  <2>2. ToSet(s) = {l \in ToSet(t) : l.name \in {n}}
    BY <1>1, NamedSet
  <2>3. ToSet(t) \subseteq Line
    BY ToSetTyped
  <2>4. QED
    BY <2>1, <2>2, <2>3
<1>3. \A l \in ToSet(s) : h[l] = l
  BY <1>2
<1>4. Mapped(s, h) = s
  BY <1>2, <1>3, MappedSame
<1>5. Named(u, {n}) = Named(t, {n})
  BY <1>1, <1>4
<1>6. QED
  BY <1>5, SameNamed

LEMMA PlainNames == \A n \in {"FN", "N", "UID", "END"} : n \notin Touched
BY NamesApart DEF Touched, Converted

LEMMA FactsV4 ==
    ASSUME NEW t \in Seq(Line)
    PROVE  Facts(ToV4(t)) = V!ToV4(Facts(t))
<1>1. CASE ExtractProp(t, "VERSION") = "4.0"
  <2>1. ToV4(t) = t
    BY <1>1, TextIs
  <2>2. Facts(t).version = "4.0"
    BY <1>1, FactsAre
  <2>3. QED
    BY <2>1, <2>2 DEF V!ToV4, V!ToVersion
<1>2. CASE ExtractProp(t, "VERSION") # "4.0"
  <2>1. PICK u : u = Without(Mapped(t, H4), {Blank})
    OBVIOUS
  <2>2. u \in Seq(Line) /\ ToV4(t) = u
    BY <1>2, <2>1, TextIs, TextTyped
  <2>3. \A n \in {"VERSION", "FN", "N", "UID", "END"} :
           Named(u, {n}) = Mapped(Named(t, {n}), H4)
    <3> SUFFICES ASSUME NEW n \in {"VERSION", "FN", "N", "UID", "END"}
                 PROVE  Named(u, {n}) = Mapped(Named(t, {n}), H4)
      OBVIOUS
    <3>1. "" \notin {n} /\ "PROFILE" \notin {n}
      BY Zenon
    <3>2. Whole({n})
      BY WholeNames
    <3>3. QED
      BY <2>1, <3>1, <3>2, NamedV4
  <2>4. \A l \in Line : l.name \notin Touched => H4[l] = l
    BY LineFunctions, LineV4
  <2>5. \A n \in {"FN", "N", "UID", "END"} :
           ExtractProp(u, n) = ExtractProp(t, n) /\ (Find(u, n) = 0 <=> Find(t, n) = 0)
    <3> SUFFICES ASSUME NEW n \in {"FN", "N", "UID", "END"}
                 PROVE  ExtractProp(u, n) = ExtractProp(t, n)
                        /\ (Find(u, n) = 0 <=> Find(t, n) = 0)
      OBVIOUS
    <3>1. n \notin Touched /\ Named(u, {n}) = Mapped(Named(t, {n}), H4)
      BY <2>3, PlainNames
    <3>2. QED
      BY <2>2, <2>4, <3>1, Untouched
  <2>6. /\ Exact(u) <=> Exact(t)
        /\ ExtractProp(u, "VERSION") = IF ExtractProp(t, "VERSION") = "3.0" /\ Exact(t)
                                       THEN "4.0" ELSE ExtractProp(t, "VERSION")
    BY <2>2, <2>3, VersionV4
  <2>7. Anchored(u) <=> Anchored(t)
    BY <2>5 DEF Anchored
  <2>8. ValidatePhotoSize(u) <=> ValidatePhotoSize(t)
    <3>1. ToSet(u) = {LineToV4(l) : l \in ToSet(t)} \ {Blank}
      BY <2>1, TextSet
    <3>2. \A l \in ToSet(t) : TooBig(LineToV4(l)) <=> TooBig(l)
      BY ToSetTyped, LineV4
    <3>3. ~ TooBig(Blank)
      BY BlankApart DEF TooBig
    <3>4. QED
      BY <2>2, <3>1, <3>2, <3>3, BigIs
  <2>9. Facts(u) = [version |-> ExtractProp(u, "VERSION"), exact |-> Exact(t),
                    fn |-> ExtractProp(u, "FN"), hasN |-> ExtractProp(u, "N") # Absent,
                    uid |-> ExtractProp(u, "UID"), anchored |-> Anchored(t),
                    bigPhoto |-> ~ ValidatePhotoSize(t)]
    BY <2>6, <2>7, <2>8, FactsBoolean, FactsSame
  <2>10. Facts(u) = [version |-> ExtractProp(u, "VERSION"), exact |-> Exact(t),
                     fn |-> ExtractProp(t, "FN"), hasN |-> ExtractProp(t, "N") # Absent,
                     uid |-> ExtractProp(t, "UID"), anchored |-> Anchored(t),
                     bigPhoto |-> ~ ValidatePhotoSize(t)]
    BY <2>5, <2>9
  <2>11. Facts(t).version = ExtractProp(t, "VERSION") /\ Facts(t).exact = Exact(t)
    BY FactsAre
  <2>12. CASE ExtractProp(t, "VERSION") = "3.0" /\ Exact(t)
    <3>1. V!ToV4(Facts(t)) = [Facts(t) EXCEPT !.version = "4.0"]
      BY <2>11, <2>12 DEF V!ToV4, V!ToVersion
    <3>2. ExtractProp(u, "VERSION") = "4.0"
      BY <2>6, <2>12
    <3>3. QED
      BY <2>2, <2>10, <3>1, <3>2, FactsAre
  <2>13. CASE ~ (ExtractProp(t, "VERSION") = "3.0" /\ Exact(t))
    <3>1. V!ToV4(Facts(t)) = Facts(t)
      BY <2>11, <2>13 DEF V!ToV4, V!ToVersion
    <3>2. ExtractProp(u, "VERSION") = ExtractProp(t, "VERSION")
      BY <2>6, <2>13
    <3>3. QED
      BY <2>2, <2>10, <3>1, <3>2, FactsAre
  <2>14. QED
    BY <2>12, <2>13
<1>3. QED
  BY <1>1, <1>2

(* Only the size of photos may differ. *)
LEMMA FactsV3 ==
    ASSUME NEW t \in Seq(Line)
    PROVE  /\ \/ ValidatePhotoSize(ToV3(t)) <=> ValidatePhotoSize(t)
              \/ AnyMisread(t)
           /\ (ValidatePhotoSize(ToV3(t)) <=> ValidatePhotoSize(t))
                 => Facts(ToV3(t)) = V!ToV3(Facts(t))
           /\ Facts(ToV3(t)).version = V!ToV3(Facts(t)).version
           /\ Facts(ToV3(t)).fn = Facts(t).fn
           /\ Facts(ToV3(t)).hasN = Facts(t).hasN
<1>1. CASE ExtractProp(t, "VERSION") = "3.0"
  <2>1. ToV3(t) = t
    BY <1>1, TextIs
  <2>2. Facts(t).version = "3.0"
    BY <1>1, FactsAre
  <2>3. QED
    BY <2>1, <2>2 DEF V!ToV3, V!ToVersion
<1>2. CASE ExtractProp(t, "VERSION") # "3.0"
  <2>1. PICK u : u = Mapped(t, H3)
    OBVIOUS
  <2>2. u \in Seq(Line) /\ ToV3(t) = u
    BY <1>2, <2>1, TextIs, TextTyped
  <2>3. \A n \in {"VERSION", "FN", "N", "UID", "END"} :
           Named(u, {n}) = Mapped(Named(t, {n}), H3)
    BY <2>1, WholeNames, NamedV3
  <2>4. \A l \in Line : l.name \notin Touched => H3[l] = l
    BY LineFunctions, LineV3
  <2>5. \A n \in {"FN", "N", "UID", "END"} :
           ExtractProp(u, n) = ExtractProp(t, n) /\ (Find(u, n) = 0 <=> Find(t, n) = 0)
    <3> SUFFICES ASSUME NEW n \in {"FN", "N", "UID", "END"}
                 PROVE  ExtractProp(u, n) = ExtractProp(t, n)
                        /\ (Find(u, n) = 0 <=> Find(t, n) = 0)
      OBVIOUS
    <3>1. n \notin Touched /\ Named(u, {n}) = Mapped(Named(t, {n}), H3)
      BY <2>3, PlainNames
    <3>2. QED
      BY <2>2, <2>4, <3>1, Untouched
  <2>6. /\ Exact(u) <=> Exact(t)
        /\ ExtractProp(u, "VERSION") = IF ExtractProp(t, "VERSION") = "4.0" /\ Exact(t)
                                       THEN "3.0" ELSE ExtractProp(t, "VERSION")
    BY <2>2, <2>3, VersionV3
  <2>7. Anchored(u) <=> Anchored(t)
    BY <2>5 DEF Anchored
  <2>8. (ValidatePhotoSize(u) <=> ValidatePhotoSize(t)) \/ AnyMisread(t)
    <3>1. ToSet(u) = {LineToV3(l) : l \in ToSet(t)}
      BY <2>1, TextSet
    <3>2. \A l \in ToSet(t) : \/ TooBig(LineToV3(l)) <=> TooBig(l)
                              \/ l.name \in PhotoNames /\ Misread(l)
      BY ToSetTyped, LineV3
    <3>3. QED
      BY <2>2, <3>1, <3>2, BigIs DEF AnyMisread
  <2>9. Facts(u) = [version |-> ExtractProp(u, "VERSION"), exact |-> Exact(t),
                    fn |-> ExtractProp(u, "FN"), hasN |-> ExtractProp(u, "N") # Absent,
                    uid |-> ExtractProp(u, "UID"), anchored |-> Anchored(t),
                    bigPhoto |-> ~ ValidatePhotoSize(u)]
    BY <2>6, <2>7, FactsBoolean, FactsSame
  <2>10. Facts(u) = [version |-> ExtractProp(u, "VERSION"), exact |-> Exact(t),
                     fn |-> ExtractProp(t, "FN"), hasN |-> ExtractProp(t, "N") # Absent,
                     uid |-> ExtractProp(t, "UID"), anchored |-> Anchored(t),
                     bigPhoto |-> ~ ValidatePhotoSize(u)]
    BY <2>5, <2>9
  <2>11. Facts(t).version = ExtractProp(t, "VERSION") /\ Facts(t).exact = Exact(t)
    BY FactsAre
  <2>12. ValidatePhotoSize(u) \in BOOLEAN /\ ValidatePhotoSize(t) \in BOOLEAN
    BY FactsBoolean
  <2>13. CASE ExtractProp(t, "VERSION") = "4.0" /\ Exact(t)
    <3>1. V!ToV3(Facts(t)) = [Facts(t) EXCEPT !.version = "3.0"]
      BY <2>11, <2>13 DEF V!ToV3, V!ToVersion
    <3>2. ExtractProp(u, "VERSION") = "3.0"
      BY <2>6, <2>13
    <3>3. QED
      BY <2>2, <2>8, <2>10, <2>12, <3>1, <3>2, FactsAre
  <2>14. CASE ~ (ExtractProp(t, "VERSION") = "4.0" /\ Exact(t))
    <3>1. V!ToV3(Facts(t)) = Facts(t)
      BY <2>11, <2>14 DEF V!ToV3, V!ToVersion
    <3>2. ExtractProp(u, "VERSION") = ExtractProp(t, "VERSION")
      BY <2>6, <2>14
    <3>3. QED
      BY <2>2, <2>8, <2>10, <2>12, <3>1, <3>2, FactsAre
  <2>15. QED
    BY <2>13, <2>14
<1>3. QED
  BY <1>1, <1>2

-----------------------------------------------------------------------------
(* What PUT makes of a text *)

Ver(t) == ExtractProp(t, "VERSION")
UIDOf(t) == ExtractProp(t, "UID")

(* What holds of every text that is stored: among the rest, its lines are  *)
(* those a conversion to 4.0 leaves alone, and a UID is missing only when  *)
(* there is no place for one.                                              *)
Sound(s) ==
    /\ s \in Texts
    /\ Validate(s) /\ ValidatePhotoSize(s)
    /\ Exact(s) => Ver(s) = "4.0"
    /\ Ver(s) = "4.0" \/ \A l \in ToSet(s) : LineToV4(l) = l /\ l # Blank
    /\ UIDOf(s) = Absent => ~ Anchored(s)

AllPureV4(s) == \A l \in ToSet(s) : PureV4(l)

LEMMA ValidateIs ==
    ASSUME NEW t
    PROVE  Validate(t) <=> V!Validate(Facts(t))
BY FactsAre DEF Validate, V!Validate

LEMMA FactsUsed ==
    ASSUME NEW t
    PROVE  /\ Facts(t).version = Ver(t) /\ Facts(t).exact = Exact(t)
           /\ Facts(t).uid = UIDOf(t) /\ Facts(t).anchored = Anchored(t)
           /\ Facts(t).bigPhoto = ~ ValidatePhotoSize(t)
           /\ Exact(t) \in BOOLEAN /\ Anchored(t) \in BOOLEAN
           /\ ValidatePhotoSize(t) \in BOOLEAN
BY FactsAre, FactsBoolean DEF Ver, UIDOf

LEMMA AcceptedIs ==
    ASSUME NEW body
    PROVE  Rejection(body) = "none" <=> Validate(body) /\ ValidatePhotoSize(body)
BY DEF Rejection

(* The facts of the text that is stored for a body with facts f *)
PutFacts(f, new) == IF V!ToV4(f).uid = Absent THEN V!ReplaceUID(V!ToV4(f), new) ELSE V!ToV4(f)

LEMMA NormalisedIs ==
    ASSUME NEW body \in Texts, NEW new \in STRING
    PROVE  /\ ToV4(body) \in Texts
           /\ Normalised(body, new) \in Texts
           /\ Says(Normalised(body, new)) = Says(body)
           /\ PhotosKept(Normalised(body, new), body)
           /\ Facts(Normalised(body, new)) = PutFacts(Facts(body), new)
           /\ PutUID(body, new) = IF V!ToV4(Facts(body)).uid = Absent THEN new
                                  ELSE V!ToV4(Facts(body)).uid
           /\ ToSet(Normalised(body, new)) \subseteq ToSet(ToV4(body)) \cup {UIDLine(new)}
<1>1. body \in Seq(Line)
  BY DEF Texts
<1>2. PICK t : t = ToV4(body)
  OBVIOUS
<1>3. t \in Texts /\ t \in Seq(Line)
  BY <1>2, BeginKept DEF Texts
<1>4. Says(t) = Says(body) /\ Facts(t) = V!ToV4(Facts(body)) /\ UIDOf(t) = Facts(t).uid
  BY <1>1, <1>2, SaysV4, FactsV4, FactsUsed
<1>5. PICK r : r = ReplaceUID(t, new)
  OBVIOUS
<1>11. PhotosKept(t, body)
  BY <1>1, <1>2, PhotosV4
<1>6. /\ r \in Texts /\ Says(r) = Says(t) /\ Facts(r) = V!ReplaceUID(Facts(t), new)
      /\ ToSet(r) \subseteq ToSet(t) \cup {UIDLine(new)}
      /\ PhotosKept(r, body)
  <2>1. r \in Texts
    BY <1>3, <1>5, BeginKeptByUID
  <2>2. Says(r) = Says(t)
    BY <1>3, <1>5, SaysReplaceUID
  <2>3. Facts(r) = V!ReplaceUID(Facts(t), new)
    BY <1>3, <1>5, FactsReplaceUID
  <2>4. ToSet(r) \subseteq ToSet(t) \cup {UIDLine(new)}
    BY <1>3, <1>5, ReplaceUIDTyped
  <2>5. PhotosKept(r, body)
    <3>1. r \in Seq(Line)
      BY <2>1 DEF Texts
    <3>2. Photos(r) = Photos(t)
      BY <1>3, <1>5, SaysReplaceUID
    <3>3. PhotosKept(r, t)
      BY <3>2, PhotosSame
    <3>4. QED
      BY <1>1, <1>3, <1>11, <3>1, <3>3, PhotosTwice
  <2>6. QED
    BY <2>1, <2>2, <2>3, <2>4, <2>5
<1>7. Normalised(body, new) = (IF UIDOf(t) = Absent THEN r ELSE t)
      /\ PutUID(body, new) = (IF UIDOf(t) = Absent THEN new ELSE UIDOf(t))
  BY <1>2, <1>5 DEF Normalised, PutUID, UIDOf
<1>8. CASE UIDOf(t) = Absent
  <2>1. PutFacts(Facts(body), new) = V!ReplaceUID(Facts(t), new)
    BY <1>4, <1>8 DEF PutFacts
  <2>2. QED
    BY <1>2, <1>3, <1>4, <1>6, <1>7, <1>8, <2>1
<1>9. CASE UIDOf(t) # Absent
  <2>1. PutFacts(Facts(body), new) = Facts(t)
    BY <1>4, <1>9 DEF PutFacts
  <2>2. QED
    BY <1>2, <1>3, <1>4, <1>7, <1>9, <1>11, <2>1
<1>10. QED
  BY <1>8, <1>9

LEMMA UIDLineStays ==
    ASSUME NEW new \in STRING
    PROVE  LineToV4(UIDLine(new)) = UIDLine(new) /\ UIDLine(new) # Blank /\ PureV4(UIDLine(new))
<1>1. PICK e : e = UIDLine(new)
  OBVIOUS
<1>2. e \in Line /\ e.name = "UID" /\ e # Blank
  BY <1>1, UIDLineTyped, BlankApart
<1>3. LineToV4(e) = e
  BY <1>2, LineV4, PlainNames
<1>4. PureV4(e)
  BY <1>2, <1>3, LineV4
<1>5. QED
  BY <1>1, <1>2, <1>3, <1>4

(* Lines that were converted *)
LEMMA ConvertedLines ==
    ASSUME NEW body \in Texts, Ver(body) # "4.0"
    PROVE  \A l \in ToSet(ToV4(body)) : LineToV4(l) = l /\ l # Blank /\ PureV4(l)
<1>1. body \in Seq(Line)
  BY DEF Texts
<1>2. ToV4(body) = Without(Mapped(body, H4), {Blank})
  BY <1>1, TextIs DEF Ver
<1>3. ToSet(Without(Mapped(body, H4), {Blank})) = {LineToV4(l) : l \in ToSet(body)} \ {Blank}
  BY <1>1, TextSet
<1>4. \A k \in ToSet(body) : LineToV4(LineToV4(k)) = LineToV4(k)
                             /\ (LineToV4(k) # Blank => PureV4(LineToV4(k)))
  BY <1>1, ToSetTyped, LineV4
<1>5. QED
  BY <1>2, <1>3, <1>4

LEMMA NormalisedPure ==
    ASSUME NEW body \in Texts, NEW new \in STRING, Ver(body) # "4.0" \/ AllPureV4(body)
    PROVE  AllPureV4(Normalised(body, new))
<1>1. AllPureV4(ToV4(body))
  <2>1. CASE Ver(body) = "4.0"
    BY <2>1, TextIs DEF Ver, Texts
  <2>2. CASE Ver(body) # "4.0"
    BY <2>2, ConvertedLines DEF AllPureV4
  <2>3. QED
    BY <2>1, <2>2
<1>2. PureV4(UIDLine(new))
  BY UIDLineStays
<1>3. ToSet(Normalised(body, new)) \subseteq ToSet(ToV4(body)) \cup {UIDLine(new)}
  BY NormalisedIs
<1>4. QED
  BY <1>1, <1>2, <1>3 DEF AllPureV4

LEMMA NormalisedSound ==
    ASSUME NEW body \in Texts, NEW new \in STRING \ {Absent}, Rejection(body) = "none"
    PROVE  Sound(Normalised(body, new))
<1>1. PICK s : s = Normalised(body, new)
  OBVIOUS
<1>2. s \in Texts /\ Facts(s) = PutFacts(Facts(body), new)
      /\ ToSet(s) \subseteq ToSet(ToV4(body)) \cup {UIDLine(new)}
  BY <1>1, NormalisedIs
<1>3. V!Validate(Facts(body)) /\ ValidatePhotoSize(body)
  BY AcceptedIs, ValidateIs
<1>4. PICK f, g : f = Facts(body) /\ g = V!ToV4(f)
  OBVIOUS
<1>5. Facts(s) = IF g.uid = Absent THEN V!ReplaceUID(g, new) ELSE g
  BY <1>2, <1>4 DEF PutFacts
<1>6. /\ g.version = IF f.version = "3.0" /\ f.exact THEN "4.0" ELSE f.version
      /\ g.exact = f.exact /\ g.fn = f.fn /\ g.hasN = f.hasN /\ g.uid = f.uid
      /\ g.anchored = f.anchored /\ g.bigPhoto = f.bigPhoto
  BY <1>4, FactsAre DEF V!ToV4, V!ToVersion
<1>7. PICK h : h = Facts(s)
  OBVIOUS
<1>8. /\ h.version = g.version /\ h.exact = g.exact /\ h.fn = g.fn /\ h.hasN = g.hasN
      /\ h.anchored = g.anchored /\ h.bigPhoto = g.bigPhoto
      /\ h.uid = Absent => ~ h.anchored
  <2>1. CASE g.uid = Absent /\ g.anchored
    <3>1. h = [g EXCEPT !.uid = new]
      BY <1>5, <1>7, <2>1 DEF V!ReplaceUID
    <3>2. g = [version |-> g.version, exact |-> g.exact, fn |-> g.fn, hasN |-> g.hasN,
               uid |-> g.uid, anchored |-> g.anchored, bigPhoto |-> g.bigPhoto]
      BY <1>4, FactsAre DEF V!ToV4, V!ToVersion
    <3>3. QED
      BY <3>1, <3>2
  <2>2. CASE g.uid = Absent /\ ~ g.anchored
    <3>1. h = g
      BY <1>5, <1>7, <2>2 DEF V!ReplaceUID
    <3>2. QED
      BY <2>2, <3>1
  <2>3. CASE g.uid # Absent
    BY <1>5, <1>7, <2>3
  <2>4. QED
    BY <2>1, <2>2, <2>3
<1>9. V!Validate(h)
  BY <1>3, <1>4, <1>6, <1>8 DEF V!Validate
<1>10. Validate(s)
  BY <1>7, <1>9, ValidateIs
<1>11. ValidatePhotoSize(s)
  <2>1. ~ f.bigPhoto
    BY <1>3, <1>4, FactsUsed
  <2>2. ~ h.bigPhoto
    BY <1>6, <1>8, <2>1
  <2>3. QED
    BY <1>7, <2>2, FactsUsed
<1>12. /\ Ver(s) = g.version /\ Exact(s) = f.exact /\ UIDOf(s) = h.uid
       /\ Anchored(s) = h.anchored /\ Ver(body) = f.version /\ Ver(s) \in {"3.0", "4.0"}
       /\ Ver(body) \in {"3.0", "4.0"}
  <2>1. /\ Ver(s) = h.version /\ Exact(s) = h.exact /\ UIDOf(s) = h.uid
        /\ Anchored(s) = h.anchored /\ Ver(body) = f.version
    BY <1>4, <1>7, FactsUsed
  <2>2. h.version \in {"3.0", "4.0"} /\ f.version \in {"3.0", "4.0"}
    BY <1>3, <1>4, <1>9 DEF V!Validate
  <2>3. QED
    BY <1>6, <1>8, <2>1, <2>2
<1>13. Exact(s) => Ver(s) = "4.0"
  BY <1>6, <1>12
<1>14. UIDOf(s) = Absent => ~ Anchored(s)
  BY <1>8, <1>12
<1>15. ASSUME Ver(s) # "4.0"
       PROVE  \A l \in ToSet(s) : LineToV4(l) = l /\ l # Blank
  <2>1. Ver(body) # "4.0"
    BY <1>6, <1>12, <1>15
  <2>2. \A l \in ToSet(ToV4(body)) : LineToV4(l) = l /\ l # Blank
    BY <2>1, ConvertedLines
  <2>3. LineToV4(UIDLine(new)) = UIDLine(new) /\ UIDLine(new) # Blank
    BY UIDLineStays
  <2>4. QED
    BY <1>2, <2>2, <2>3
<1>16. QED
  BY <1>1, <1>2, <1>10, <1>11, <1>13, <1>14, <1>15 DEF Sound

(* A text comes back from a client as it was given, in either dialect. *)
LEMMA GivenFacts ==
    ASSUME NEW s, Sound(s), NEW g \in {s, ToV3(s)}, ValidatePhotoSize(g)
    PROVE  /\ g \in Texts /\ Says(g) = Says(s) /\ PhotosKept(g, s)
           /\ V!ToV4(Facts(g)) = Facts(s)
<1>1. s \in Texts /\ s \in Seq(Line) /\ ValidatePhotoSize(s) /\ (Exact(s) => Ver(s) = "4.0")
  BY DEF Sound, Texts
<1>2. PICK f : f = Facts(s)
  OBVIOUS
<1>3. f.exact => f.version = "4.0"
  BY <1>1, <1>2, FactsUsed
<1>4. f = [version |-> f.version, exact |-> f.exact, fn |-> f.fn, hasN |-> f.hasN,
           uid |-> f.uid, anchored |-> f.anchored, bigPhoto |-> f.bigPhoto]
  BY <1>2, FactsAre
<1>5. CASE g = s
  <2>1. V!ToV4(f) = f
    BY <1>3 DEF V!ToV4, V!ToVersion
  <2>2. PhotosKept(g, s)
    BY <1>5, PhotosSame
  <2>3. QED
    BY <1>1, <1>2, <1>5, <2>1, <2>2
<1>6. CASE g = ToV3(s)
  <2>1. g \in Texts /\ Says(g) = Says(s) /\ PhotosKept(g, s)
    BY <1>1, <1>6, BeginKept, SaysV3, PhotosV3
  <2>2. Facts(g) = V!ToV3(f)
    BY <1>1, <1>2, <1>6, FactsV3
  <2>3. V!ToV4(V!ToV3(f)) = f
    BY <1>3, <1>4 DEF V!ToV4, V!ToV3, V!ToVersion
  <2>4. QED
    BY <1>2, <2>1, <2>2, <2>3
<1>7. QED
  BY <1>5, <1>6

LEMMA StoredAgain ==
    ASSUME NEW s, Sound(s), NEW body \in Texts, NEW new \in STRING,
           V!ToV4(Facts(body)) = Facts(s)
    PROVE  /\ Facts(Normalised(body, new)) = Facts(s)
           /\ PutUID(body, new) = IF UIDOf(s) = Absent THEN new ELSE UIDOf(s)
           /\ Normalised(body, new) = ToV4(body)
<1>1. PICK f : f = Facts(s)
  OBVIOUS
<1>2. f.uid = UIDOf(s) /\ f.anchored = Anchored(s) /\ (UIDOf(s) = Absent => ~ Anchored(s))
  BY <1>1, FactsUsed DEF Sound
<1>3. PutFacts(Facts(body), new) = f
  BY <1>1, <1>2 DEF PutFacts, V!ReplaceUID
<1>4. Facts(Normalised(body, new)) = f
      /\ PutUID(body, new) = IF f.uid = Absent THEN new ELSE f.uid
  BY <1>1, <1>3, NormalisedIs
<1>5. Normalised(body, new) = ToV4(body)
  <2>1. PICK t : t = ToV4(body)
    OBVIOUS
  <2>2. Facts(t) = f
    BY <1>1, <2>1, FactsV4 DEF Texts
  <2>3. UIDOf(t) = f.uid /\ Anchored(t) = f.anchored
    BY <2>2, FactsUsed
  <2>4. UIDOf(t) = Absent => ReplaceUID(t, new) = t
    BY <1>2, <2>3, NoUIDPlace DEF Anchored
  <2>5. QED
    BY <2>1, <2>4 DEF Normalised, UIDOf
<1>6. QED
  BY <1>1, <1>2, <1>4, <1>5

LEMMA SoundStays ==
    ASSUME NEW s, Sound(s)
    PROVE  ToV4(s) = s
<1>1. s \in Seq(Line)
  BY DEF Sound, Texts
<1>2. CASE Ver(s) = "4.0"
  BY <1>1, <1>2, TextIs DEF Ver
<1>3. CASE Ver(s) # "4.0"
  <2>1. \A l \in ToSet(s) : LineToV4(l) = l /\ l # Blank
    BY <1>3 DEF Sound
  <2>2. \A l \in ToSet(s) : H4[l] = l
    BY <1>1, <2>1, ToSetTyped, LineFunctions
  <2>3. Mapped(s, H4) = s
    BY <1>1, <2>2, MappedSame
  <2>4. Without(s, {Blank}) = s
    BY <1>1, <2>1, WithoutNothing
  <2>5. QED
    BY <1>1, <1>3, <2>3, <2>4, TextIs DEF Ver
<1>4. QED
  BY <1>2, <1>3

(* The text does not change any more on the way to a 3.0 client and back. *)
Rested(s) ==
    \/ Ver(s) = "3.0"
    \/ Exact(s) /\ \A l \in ToSet(s) : Back(l) = l /\ l # Blank
    \/ ~ Exact(s) /\ \A l \in ToSet(s) : LineToV3(l) = l

LEMMA RoundTrip ==
    ASSUME NEW s, Sound(s)
    PROVE  LET r == ToV4(ToV3(s)) IN
           /\ Rested(r)
           /\ Rested(s) => r = s
<1>1. s \in Seq(Line) /\ Ver(s) \in {"3.0", "4.0"} /\ ToV4(s) = s
  BY SoundStays DEF Sound, Texts, Validate, Ver
<1>2. CASE Ver(s) = "3.0"
  <2>1. ToV3(s) = s
    BY <1>1, <1>2, TextIs DEF Ver
  <2>2. QED
    BY <1>1, <1>2, <2>1 DEF Rested
<1>3. CASE Ver(s) = "4.0"
  <2>1. PICK u : u = Mapped(s, H3)
    OBVIOUS
  <2>2. ToV3(s) = u /\ u \in Seq(Line) /\ ToSet(u) = {LineToV3(l) : l \in ToSet(s)}
    <3>1. ToV3(s) = u
      BY <1>1, <1>3, <2>1, TextIs DEF Ver
    <3>2. QED
      BY <1>1, <2>1, <3>1, TextTyped, TextSet
  <2>3. /\ Exact(u) <=> Exact(s)
        /\ Ver(u) = IF Exact(s) THEN "3.0" ELSE "4.0"
    <3>1. Named(u, {"VERSION"}) = Mapped(Named(s, {"VERSION"}), H3)
      BY <1>1, <2>1, WholeNames, NamedV3
    <3>2. QED
      BY <1>1, <1>3, <2>2, <3>1, VersionV3 DEF Ver
  <2>4. CASE ~ Exact(s)
    <3>1. ToV4(u) = u
      BY <2>2, <2>3, <2>4, TextIs DEF Ver
    <3>2. \A l \in ToSet(u) : LineToV3(l) = l
      BY <1>1, <2>2, ToSetTyped, LineV3
    <3>3. Rested(u)
      BY <2>3, <2>4, <3>2 DEF Rested
    <3>4. ASSUME Rested(s)
          PROVE  u = s
      <4>1. \A l \in ToSet(s) : LineToV3(l) = l
        BY <1>3, <2>4, <3>4 DEF Rested
      <4>2. \A l \in ToSet(s) : H3[l] = l
        BY <1>1, <4>1, ToSetTyped, LineFunctions
      <4>3. QED
        BY <1>1, <2>1, <4>2, MappedSame
    <3>5. QED
      BY <2>2, <3>1, <3>3, <3>4
  <2>5. CASE Exact(s)
    <3>1. PICK m, r : m = Mapped(u, H4) /\ r = Without(m, {Blank})
      OBVIOUS
    <3>2. ToV4(u) = r /\ r \in Seq(Line) /\ m \in Seq(Line)
      BY <2>2, <2>3, <2>5, <3>1, TextIs, TextTyped DEF Ver
    <3>3. ToSet(r) = {LineToV4(k) : k \in ToSet(u)} \ {Blank}
      BY <2>2, <3>1, TextSet
    <3>4. ToSet(r) = {Back(l) : l \in ToSet(s)} \ {Blank}
      BY <2>2, <3>3 DEF Back
    <3>5. \A l \in ToSet(r) : Back(l) = l /\ l # Blank
      BY <1>1, <3>4, ToSetTyped, BackTwice
    <3>6. Exact(r)
      <4>1. Named(r, {"VERSION"}) = Mapped(Named(u, {"VERSION"}), H4)
        <5>1. "" \notin {"VERSION"} /\ "PROFILE" \notin {"VERSION"}
          BY Zenon
        <5>2. QED
          BY <2>2, <3>1, <5>1, WholeNames, NamedV4
      <4>2. Exact(r) <=> Exact(u)
        BY <2>2, <3>2, <4>1, VersionV4
      <4>3. QED
        BY <2>3, <2>5, <4>2
    <3>7. Rested(r)
      BY <3>5, <3>6 DEF Rested
    <3>8. ASSUME Rested(s)
          PROVE  r = s
      <4>1. \A l \in ToSet(s) : Back(l) = l /\ l # Blank
        BY <1>3, <2>5, <3>8 DEF Rested
      <4>2. \A l \in ToSet(s) : H4[H3[l]] = l
        BY <1>1, <4>1, ToSetTyped, LineFunctions DEF Back
      <4>3. m = s
        BY <1>1, <2>1, <3>1, <4>2, MappedBack
      <4>4. Without(s, {Blank}) = s
        BY <1>1, <4>1, WithoutNothing
      <4>5. QED
        BY <3>1, <4>3, <4>4
    <3>9. QED
      BY <2>2, <3>2, <3>7, <3>8
  <2>6. QED
    BY <2>4, <2>5
<1>4. QED
  BY <1>1, <1>2, <1>3

-----------------------------------------------------------------------------
(* The inductive invariant *)

(* The stored text s, the text m that was meant, and the column uid        *)
Agree(s, m, u) ==
    /\ Says(s) = Says(m) /\ PhotosKept(s, m)
    /\ Facts(s) = PutFacts(Facts(m), u)
    /\ Ver(m) = "3.0" /\ Exact(s) => AllPureV4(s)
    /\ UIDOf(s) # Absent => u = UIDOf(s)

LEMMA AgreeAtFirst ==
    ASSUME NEW body \in Texts, NEW new \in STRING \ {Absent}
    PROVE  Agree(Normalised(body, new), body, PutUID(body, new))
<1>1. PICK s, g : s = Normalised(body, new) /\ g = V!ToV4(Facts(body))
  OBVIOUS
<1>2. /\ Says(s) = Says(body) /\ PhotosKept(s, body)
      /\ Facts(s) = PutFacts(Facts(body), new)
      /\ PutUID(body, new) = IF g.uid = Absent THEN new ELSE g.uid
  BY <1>1, NormalisedIs
<1>3. Facts(s) = PutFacts(Facts(body), PutUID(body, new))
  BY <1>1, <1>2 DEF PutFacts
<1>4. Ver(body) = "3.0" => AllPureV4(s)
  BY <1>1, NormalisedPure
<1>5. UIDOf(s) # Absent => PutUID(body, new) = UIDOf(s)
  <2>1. Facts(s) = IF g.uid = Absent THEN V!ReplaceUID(g, new) ELSE g
    BY <1>1, <1>2 DEF PutFacts
  <2>2. UIDOf(s) = Facts(s).uid
    BY FactsUsed
  <2>3. g = [version |-> g.version, exact |-> g.exact, fn |-> g.fn, hasN |-> g.hasN,
             uid |-> g.uid, anchored |-> g.anchored, bigPhoto |-> g.bigPhoto]
    BY <1>1, FactsAre DEF V!ToV4, V!ToVersion
  <2>4. V!ReplaceUID(g, new).uid = IF g.anchored THEN new ELSE g.uid
    BY <2>3 DEF V!ReplaceUID
  <2>5. QED
    BY <1>2, <2>1, <2>2, <2>4
<1>6. QED
  BY <1>1, <1>2, <1>3, <1>4, <1>5 DEF Agree

LEMMA AgreeStays ==
    ASSUME NEW s, NEW m, NEW u, Sound(s), Agree(s, m, u),
           NEW r, NEW n, NEW v, Facts(r) = Facts(s), Facts(n) = Facts(m),
           Says(r) = Says(n), PhotosKept(r, n),
           UIDOf(s) # Absent => v = UIDOf(s),
           Ver(m) = "3.0" /\ Exact(s) => AllPureV4(r)
    PROVE  Agree(r, n, v)
<1>1. Ver(n) = Ver(m) /\ Exact(r) = Exact(s) /\ UIDOf(r) = UIDOf(s)
  <2>1. Ver(n) = Facts(n).version /\ Exact(r) = Facts(r).exact /\ UIDOf(r) = Facts(r).uid
    BY FactsUsed
  <2>2. Ver(m) = Facts(m).version /\ Exact(s) = Facts(s).exact /\ UIDOf(s) = Facts(s).uid
    BY FactsUsed
  <2>3. QED
    BY <2>1, <2>2
<1>2. Facts(s) = PutFacts(Facts(m), v)
  <2>1. PICK g : g = V!ToV4(Facts(m))
    OBVIOUS
  <2>2. Facts(s) = IF g.uid = Absent THEN V!ReplaceUID(g, u) ELSE g
    BY <2>1 DEF Agree, PutFacts
  <2>3. g = [version |-> g.version, exact |-> g.exact, fn |-> g.fn, hasN |-> g.hasN,
             uid |-> g.uid, anchored |-> g.anchored, bigPhoto |-> g.bigPhoto]
    BY <2>1, FactsAre DEF V!ToV4, V!ToVersion
  <2>4. Facts(s).uid = UIDOf(s) /\ Facts(s).anchored = Anchored(s)
        /\ (UIDOf(s) = Absent => ~ Anchored(s))
    BY FactsUsed DEF Sound
  <2>5. CASE UIDOf(s) # Absent
    <3>1. v = u
      BY <2>5 DEF Agree
    <3>2. QED
      BY <3>1 DEF Agree
  <2>6. CASE UIDOf(s) = Absent
    <3>1. ~ Facts(s).anchored
      BY <2>4, <2>6
    <3>2. ~ g.anchored
      <4>1. CASE g.anchored
        <5>1. V!ReplaceUID(g, u).anchored = g.anchored
          BY <2>3 DEF V!ReplaceUID
        <5>2. QED
          BY <2>2, <3>1, <5>1
      <4>2. QED
        BY <4>1
    <3>3. V!ReplaceUID(g, u) = g /\ V!ReplaceUID(g, v) = g
      BY <3>2 DEF V!ReplaceUID
    <3>4. QED
      BY <2>1, <2>2, <3>3 DEF PutFacts
  <2>7. QED
    BY <2>5, <2>6
<1>3. QED
  BY <1>1, <1>2 DEF Agree

Answers == {"none", "unprocessable", "too large", "precondition failed", "stored"}

TypeOK ==
    /\ answer \in [Clients -> Answers]
    /\ copy \in [Clients -> {None} \cup [text : Texts, etag : Texts]]
    /\ edits \in 0..MaxEdits
    /\ stored \in {None} \cup Texts
    /\ meant \in {None} \cup Texts
    /\ stored = None <=> meant = None

(* A copy is some text that was stored, in the dialect of its client. *)
Copies == \A c \in Clients : copy[c] # None =>
    /\ stored # None
    /\ copy[c].text = IF Dialect[c] = "3.0" THEN ToV3(copy[c].etag) ELSE copy[c].etag

IInv ==
    /\ TypeOK
    /\ Copies
    /\ stored = None => ~ tripped
    /\ stored # None => /\ Sound(stored)
                        /\ Agree(stored, meant, uid)
                        /\ tripped => Rested(stored)

LEMMA Constants ==
    /\ \A c \in Clients : Dialect[c] \in {"3.0", "4.0"}
    /\ \A c \in Clients : Bodies[Dialect[c]] \subseteq Texts
    /\ \A c \in Clients : Edited[Dialect[c]] \in EmailLine
    /\ \A c \in Clients : Dialect[c] # "3.0" => PureV4(Edited[Dialect[c]])
    /\ NewUIDs \subseteq STRING \ {Absent}
    /\ None \notin Texts /\ MaxEdits \in Nat
<1>1. \A c \in Clients : Dialect[c] \in {"3.0", "4.0"}
  BY CardsAssumption
<1>2. \A c \in Clients : Bodies[Dialect[c]] \subseteq Texts
  BY <1>1, CardsAssumption DEF Texts, Begin
<1>3. \A c \in Clients : Edited[Dialect[c]] \in EmailLine
  BY <1>1, CardsAssumption
<1>4. \A c \in Clients : Dialect[c] # "3.0" => PureV4(Edited[Dialect[c]])
  <2>1. PureV4(Edited["4.0"])
    BY CardsAssumption
  <2>2. \A c \in Clients : Dialect[c] # "3.0" => Dialect[c] = "4.0"
    BY <1>1
  <2>3. QED
    BY <2>1, <2>2
<1>5. NewUIDs \subseteq STRING \ {Absent} /\ None \notin Texts /\ MaxEdits \in Nat
  BY CardsAssumption DEF Texts
<1>6. QED
  BY <1>1, <1>2, <1>3, <1>4, <1>5

LEMMA RejectionIs ==
    ASSUME NEW body
    PROVE  Rejection(body) \in {"none", "unprocessable", "too large"}
BY DEF Rejection

(* The two outcomes of a PUT *)
Taken(c, body, etag) ==
    /\ answer'[c] = "stored"
    /\ Rejection(body) = "none"
    /\ stored = None \/ etag \in {None, stored}
    /\ \E new \in NewUIDs : stored' = Normalised(body, new) /\ uid' = PutUID(body, new)

Refused(c, body, etag) ==
    /\ answer'[c] # "stored"
    /\ \/ Rejection(body) # "none" /\ answer'[c] = Rejection(body)
       \/ Rejection(body) = "none" /\ stored # None /\ etag \notin {None, stored}
    /\ stored' = stored /\ uid' = uid

LEMMA PutIs ==
    ASSUME TypeOK, NEW c \in Clients, NEW body, NEW etag, Put(c, body, etag)
    PROVE  /\ answer' \in [Clients -> Answers]
           /\ Taken(c, body, etag) \/ Refused(c, body, etag)
<1>1. answer \in [Clients -> Answers]
  BY DEF TypeOK
<1>2. CASE /\ Rejection(body) # "none"
           /\ answer' = [answer EXCEPT ![c] = Rejection(body)]
           /\ UNCHANGED <<stored, uid>>
  <2>1. Rejection(body) \in Answers /\ Rejection(body) # "stored"
    BY RejectionIs DEF Answers
  <2>2. QED
    BY <1>1, <1>2, <2>1 DEF Refused
<1>3. CASE /\ Rejection(body) = "none"
           /\ stored # None /\ etag \notin {None, stored}
           /\ answer' = [answer EXCEPT ![c] = "precondition failed"]
           /\ UNCHANGED <<stored, uid>>
  BY <1>1, <1>3 DEF Refused, Answers
<1>4. CASE /\ Rejection(body) = "none"
           /\ stored = None \/ etag \in {None, stored}
           /\ \E new \in NewUIDs \ {uid} : /\ stored' = Normalised(body, new)
                                           /\ uid' = PutUID(body, new)
           /\ answer' = [answer EXCEPT ![c] = "stored"]
  BY <1>1, <1>4 DEF Taken, Answers
<1>5. QED
  BY <1>2, <1>3, <1>4 DEF Put

LEMMA IInvInit == Init => IInv
<1> SUFFICES ASSUME Init
             PROVE  IInv
  OBVIOUS
<1>1. TypeOK
  BY Constants DEF Init, TypeOK, Answers
<1>2. Copies
  BY DEF Init, Copies
<1>3. QED
  BY <1>1, <1>2 DEF Init, IInv

LEMMA ComposeKeeps ==
    ASSUME IInv, NEW c \in Clients, Compose(c)
    PROVE  IInv'
<1>1. PICK body \in Bodies[Dialect[c]] :
          /\ Put(c, body, None)
          /\ meant' = IF answer'[c] = "stored" THEN body ELSE None
  BY DEF Compose
<1>2. stored = None /\ copy' = copy /\ edits' = edits /\ tripped' = tripped
  BY DEF Compose
<1>3. body \in Texts
  BY Constants
<1>4. TypeOK /\ Copies /\ ~ tripped
  BY <1>2 DEF IInv
<1>5. answer' \in [Clients -> Answers] /\ (Taken(c, body, None) \/ Refused(c, body, None))
  BY <1>1, <1>4, PutIs
<1>6. \A d \in Clients : copy[d] = None
  BY <1>2, <1>4 DEF Copies
<1>7. Copies'
  BY <1>2, <1>6 DEF Copies
<1>8. CASE Taken(c, body, None)
  <2>1. PICK new \in NewUIDs : stored' = Normalised(body, new) /\ uid' = PutUID(body, new)
    BY <1>8 DEF Taken
  <2>2. new \in STRING \ {Absent} /\ Rejection(body) = "none" /\ meant' = body
    BY <1>1, <1>8, Constants DEF Taken
  <2>3. Sound(stored')
    BY <1>3, <2>1, <2>2, NormalisedSound
  <2>4. Agree(stored', meant', uid')
    BY <1>3, <2>1, <2>2, AgreeAtFirst
  <2>5. stored' \in Texts /\ stored' # None /\ meant' \in Texts /\ meant' # None
    BY <1>3, <2>2, <2>3, Constants DEF Sound
  <2>6. TypeOK'
    BY <1>2, <1>4, <1>5, <2>5 DEF TypeOK
  <2>7. QED
    BY <1>2, <1>4, <1>7, <2>3, <2>4, <2>5, <2>6 DEF IInv
<1>9. CASE Refused(c, body, None)
  <2>1. stored' = None /\ meant' = None
    BY <1>1, <1>2, <1>9 DEF Refused
  <2>2. TypeOK'
    BY <1>2, <1>4, <1>5, <2>1 DEF TypeOK
  <2>3. QED
    BY <1>2, <1>4, <1>7, <2>1, <2>2 DEF IInv
<1>10. QED
  BY <1>5, <1>8, <1>9

LEMMA GetKeeps ==
    ASSUME IInv, NEW c \in Clients, Get(c)
    PROVE  IInv'
<1>1. /\ stored # None /\ copy' = [copy EXCEPT ![c] = Served(c)]
      /\ stored' = stored /\ uid' = uid /\ answer' = answer /\ edits' = edits
      /\ meant' = meant /\ tripped' = tripped
  BY DEF Get
<1>2. TypeOK /\ Copies /\ Sound(stored) /\ Agree(stored, meant, uid)
      /\ (tripped => Rested(stored))
  BY <1>1 DEF IInv
<1>3. stored \in Texts
  BY <1>2 DEF Sound
<1>4. Text(c) = IF Dialect[c] = "3.0" THEN ToV3(stored) ELSE stored
  BY DEF Text
<1>5. Text(c) \in Texts
  BY <1>3, <1>4, BeginKept
<1>6. Served(c) \in [text : Texts, etag : Texts] /\ Served(c).text = Text(c)
      /\ Served(c).etag = stored
  BY <1>3, <1>5 DEF Served
<1>7. TypeOK'
  BY <1>1, <1>2, <1>6 DEF TypeOK
<1>8. Copies'
  <2> SUFFICES ASSUME NEW d \in Clients, copy'[d] # None
               PROVE  /\ stored' # None
                      /\ copy'[d].text = IF Dialect[d] = "3.0" THEN ToV3(copy'[d].etag)
                                         ELSE copy'[d].etag
    BY DEF Copies
  <2>1. copy \in [Clients -> {None} \cup [text : Texts, etag : Texts]]
    BY <1>2 DEF TypeOK
  <2>2. CASE d = c
    BY <1>1, <1>4, <1>6, <2>1, <2>2
  <2>3. CASE d # c
    BY <1>1, <1>2, <2>1, <2>3 DEF Copies
  <2>4. QED
    BY <2>2, <2>3
<1>9. QED
  BY <1>1, <1>2, <1>7, <1>8 DEF IInv

(* A text sent back is stored only if it is the stored one, as it was given.*)
LEMMA GivenBack ==
    ASSUME IInv, NEW c \in Clients, copy[c] # None
    PROVE  /\ stored # None /\ Sound(stored) /\ Agree(stored, meant, uid)
           /\ copy[c].text \in Texts /\ copy[c].etag \in Texts /\ copy[c].etag # None
           /\ meant \in Texts
           /\ copy[c].etag = stored =>
                 /\ copy[c].text = Text(c)
                 /\ copy[c].text \in {stored, ToV3(stored)}
<1>1. TypeOK /\ Copies
  BY DEF IInv
<1>2. stored # None /\ copy[c].text = IF Dialect[c] = "3.0" THEN ToV3(copy[c].etag)
                                      ELSE copy[c].etag
  BY <1>1 DEF Copies
<1>3. Sound(stored) /\ Agree(stored, meant, uid)
  BY <1>2 DEF IInv
<1>4. copy[c] \in [text : Texts, etag : Texts]
  BY <1>1 DEF TypeOK
<1>5. copy[c].text \in Texts /\ copy[c].etag \in Texts /\ copy[c].etag # None
  BY <1>4, Constants
<1>6. meant \in Texts
  BY <1>1, <1>2 DEF TypeOK
<1>7. QED
  BY <1>2, <1>3, <1>5, <1>6 DEF Text

(* What a 3.0 client is given is 3.0, when the VERSION line is exact. *)
LEMMA GivenVersion ==
    ASSUME NEW s, Sound(s), Exact(s)
    PROVE  Ver(ToV3(s)) = "3.0"
<1>1. s \in Seq(Line) /\ Ver(s) = "4.0"
  BY DEF Sound, Texts
<1>2. Facts(s).version = "4.0" /\ Facts(s).exact
  BY <1>1, FactsUsed
<1>3. V!ToV3(Facts(s)).version = "3.0"
  BY <1>2, FactsAre DEF V!ToV3, V!ToVersion
<1>4. Facts(ToV3(s)).version = "3.0"
  BY <1>1, <1>3, FactsV3
<1>5. QED
  BY <1>4, FactsUsed

LEMMA WriteBackTaken ==
    ASSUME IInv, NEW c \in Clients, copy[c] # None,
           Taken(c, copy[c].text, copy[c].etag)
    PROVE  /\ Sound(stored') /\ Agree(stored', meant, uid')
           /\ stored' = ToV4(Text(c))
           /\ UIDOf(stored) # Absent => uid' = UIDOf(stored)
           /\ UIDOf(stored) # Absent => uid' = uid
<1>1. PICK g : g = copy[c].text
  OBVIOUS
<1>2. PICK new \in NewUIDs : stored' = Normalised(g, new) /\ uid' = PutUID(g, new)
  BY <1>1 DEF Taken
<1>3. /\ stored # None /\ Sound(stored) /\ Agree(stored, meant, uid)
      /\ g \in Texts /\ copy[c].etag # None /\ meant \in Texts
  BY <1>1, GivenBack
<1>4. copy[c].etag = stored /\ Rejection(g) = "none"
  BY <1>1, <1>3 DEF Taken
<1>5. g = Text(c) /\ g \in {stored, ToV3(stored)}
  BY <1>1, <1>4, GivenBack
<1>6. new \in STRING \ {Absent} /\ ValidatePhotoSize(g)
  BY <1>4, Constants, AcceptedIs
<1>7. Says(g) = Says(stored) /\ PhotosKept(g, stored) /\ V!ToV4(Facts(g)) = Facts(stored)
  BY <1>3, <1>5, <1>6, GivenFacts
<1>8. /\ Facts(stored') = Facts(stored) /\ stored' = ToV4(g)
      /\ uid' = IF UIDOf(stored) = Absent THEN new ELSE UIDOf(stored)
  BY <1>2, <1>3, <1>6, <1>7, StoredAgain
<1>9. Sound(stored')
  BY <1>2, <1>3, <1>4, <1>6, NormalisedSound
<1>10. Says(stored') = Says(meant)
  BY <1>2, <1>3, <1>6, <1>7, NormalisedIs DEF Agree
<1>14. PhotosKept(stored', meant)
  <2>1. PICK s, t : s = stored /\ t = stored'
    OBVIOUS
  <2>2. t \in Seq(Line) /\ s \in Seq(Line) /\ g \in Seq(Line) /\ meant \in Seq(Line)
    BY <1>3, <1>9, <2>1 DEF Sound, Texts
  <2>3. PhotosKept(t, g) /\ PhotosKept(g, s) /\ PhotosKept(s, meant)
    BY <1>2, <1>3, <1>6, <1>7, <2>1, NormalisedIs DEF Agree
  <2>4. PhotosKept(t, s)
    BY <2>2, <2>3, PhotosTwice
  <2>5. PhotosKept(t, meant)
    BY <2>2, <2>3, <2>4, PhotosTwice
  <2>6. QED
    BY <2>1, <2>5
<1>11. ASSUME Ver(meant) = "3.0", Exact(stored)
       PROVE  AllPureV4(stored')
  <2>1. AllPureV4(stored)
    BY <1>3, <1>11 DEF Agree
  <2>2. CASE g = stored
    BY <1>2, <1>3, <1>6, <2>1, <2>2, NormalisedPure
  <2>3. CASE g = ToV3(stored)
    <3>1. Ver(g) = "3.0"
      BY <1>3, <1>11, <2>3, GivenVersion
    <3>2. QED
      BY <1>2, <1>3, <1>6, <3>1, NormalisedPure
  <2>4. QED
    BY <1>5, <2>2, <2>3
<1>12. Agree(stored', meant, uid')
  BY <1>3, <1>8, <1>10, <1>11, <1>14, AgreeStays
<1>13. QED
  BY <1>3, <1>5, <1>8, <1>9, <1>12 DEF Agree

LEMMA WriteBackKeeps ==
    ASSUME IInv, NEW c \in Clients, WriteBack(c)
    PROVE  IInv'
<1>1. PICK g, etag : g = copy[c].text /\ etag = copy[c].etag
  OBVIOUS
<1>2. /\ copy[c] # None /\ Put(c, g, etag) /\ copy' = [copy EXCEPT ![c] = None]
      /\ tripped' = (tripped \/ (answer'[c] = "stored" /\ Dialect[c] = "3.0"))
      /\ edits' = edits /\ meant' = meant
  BY <1>1 DEF WriteBack
<1>3. TypeOK /\ Copies
  BY DEF IInv
<1>4. answer' \in [Clients -> Answers] /\ (Taken(c, g, etag) \/ Refused(c, g, etag))
  BY <1>2, <1>3, PutIs
<1>5. stored # None /\ Sound(stored) /\ Agree(stored, meant, uid) /\ meant \in Texts
  BY <1>2, GivenBack
<1>6. copy' \in [Clients -> {None} \cup [text : Texts, etag : Texts]]
  BY <1>2, <1>3 DEF TypeOK
<1>7. ASSUME stored' # None
      PROVE  Copies'
  <2> SUFFICES ASSUME NEW d \in Clients, copy'[d] # None
               PROVE  /\ stored' # None
                      /\ copy'[d].text = IF Dialect[d] = "3.0" THEN ToV3(copy'[d].etag)
                                         ELSE copy'[d].etag
    BY DEF Copies
  <2>1. copy'[d] = copy[d]
    BY <1>2, <1>3 DEF TypeOK
  <2>2. QED
    BY <1>3, <1>7, <2>1 DEF Copies
<1>8. CASE Taken(c, g, etag)
  <2>1. /\ Sound(stored') /\ Agree(stored', meant, uid')
        /\ stored' = ToV4(Text(c))
    BY <1>1, <1>2, <1>8, WriteBackTaken
  <2>2. stored' \in Texts /\ stored' # None
    BY <2>1, Constants DEF Sound
  <2>3. answer'[c] = "stored"
    BY <1>8 DEF Taken
  <2>4. tripped' => Rested(stored')
    <3>1. CASE Dialect[c] = "3.0"
      <4>1. stored' = ToV4(ToV3(stored))
        BY <2>1, <3>1 DEF Text
      <4>2. QED
        BY <1>5, <4>1, RoundTrip
    <3>2. CASE Dialect[c] # "3.0"
      <4>1. stored' = stored
        BY <1>5, <2>1, <3>2, SoundStays DEF Text
      <4>2. tripped' => tripped
        BY <1>2, <3>2
      <4>3. tripped => Rested(stored)
        BY <1>5 DEF IInv
      <4>4. QED
        BY <4>1, <4>2, <4>3
    <3>3. QED
      BY <3>1, <3>2
  <2>5. TypeOK'
    BY <1>2, <1>3, <1>4, <1>5, <1>6, <2>2, Constants DEF TypeOK
  <2>6. QED
    BY <1>2, <1>7, <2>1, <2>2, <2>4, <2>5 DEF IInv
<1>9. CASE Refused(c, g, etag)
  <2>1. stored' = stored /\ uid' = uid /\ answer'[c] # "stored"
    BY <1>9 DEF Refused
  <2>2. tripped' => tripped
    BY <1>2, <2>1
  <2>3. TypeOK'
    BY <1>2, <1>3, <1>4, <1>5, <1>6, <2>1 DEF TypeOK
  <2>4. tripped' => Rested(stored')
    BY <1>5, <2>1, <2>2 DEF IInv
  <2>5. QED
    BY <1>2, <1>5, <1>7, <2>1, <2>3, <2>4 DEF IInv
<1>10. QED
  BY <1>4, <1>8, <1>9

LEMMA EditTaken ==
    ASSUME IInv, NEW c \in Clients, copy[c] # None,
           Taken(c, Added(c, copy[c].text), copy[c].etag)
    PROVE  /\ Sound(stored') /\ Agree(stored', Added(c, meant), uid')
           /\ Added(c, meant) \in Texts
<1>1. PICK g, e : g = copy[c].text /\ e = Edited[Dialect[c]]
  OBVIOUS
<1>2. PICK body, m : body = InsertAt(g, 2, e) /\ m = InsertAt(meant, 2, e)
  OBVIOUS
<1>3. Added(c, copy[c].text) = body /\ Added(c, meant) = m
  BY <1>1, <1>2 DEF Added
<1>4. PICK new \in NewUIDs : stored' = Normalised(body, new) /\ uid' = PutUID(body, new)
  BY <1>3 DEF Taken
<1>5. /\ stored # None /\ Sound(stored) /\ Agree(stored, meant, uid)
      /\ g \in Texts /\ copy[c].etag # None /\ meant \in Texts
  BY <1>1, GivenBack
<1>6. copy[c].etag = stored /\ Rejection(body) = "none"
  BY <1>3, <1>5 DEF Taken
<1>7. g = Text(c) /\ g \in {stored, ToV3(stored)}
  BY <1>1, <1>6, GivenBack
<1>8. e \in EmailLine /\ e \in Line /\ (Dialect[c] # "3.0" => PureV4(e))
      /\ new \in STRING \ {Absent}
  BY <1>1, Constants DEF Line
<1>9. /\ body \in Texts /\ m \in Texts /\ ToSet(body) = ToSet(g) \cup {e}
  BY <1>2, <1>5, <1>8, InsertedTyped
<1>10. Facts(body) = Facts(g) /\ Facts(m) = Facts(meant)
  BY <1>2, <1>5, <1>8, FactsInserted
<1>11. ValidatePhotoSize(g)
  <2>1. ValidatePhotoSize(body)
    BY <1>6, AcceptedIs
  <2>2. Facts(body).bigPhoto = ~ ValidatePhotoSize(body)
        /\ Facts(g).bigPhoto = ~ ValidatePhotoSize(g)
    BY FactsUsed
  <2>3. QED
    BY <1>10, <2>1, <2>2
<1>12. Says(g) = Says(stored) /\ PhotosKept(g, stored) /\ V!ToV4(Facts(g)) = Facts(stored)
  BY <1>5, <1>7, <1>11, GivenFacts
<1>13. Says(body) = Says(m)
  <2>1. Says(body) = [emails |-> <<Meaning(e)>> \o Says(g).emails,
                      others |-> Says(g).others]
    BY <1>2, <1>5, <1>8, SaysInserted
  <2>2. Says(m) = [emails |-> <<Meaning(e)>> \o Says(meant).emails,
                   others |-> Says(meant).others]
    BY <1>2, <1>5, <1>8, SaysInserted
  <2>3. Says(g) = Says(meant)
    BY <1>5, <1>12 DEF Agree
  <2>4. QED
    BY <2>1, <2>2, <2>3
<1>14. /\ Facts(stored') = Facts(stored)
       /\ uid' = IF UIDOf(stored) = Absent THEN new ELSE UIDOf(stored)
  BY <1>4, <1>5, <1>8, <1>9, <1>10, <1>12, StoredAgain
<1>15. Sound(stored')
  BY <1>4, <1>6, <1>8, <1>9, NormalisedSound
<1>16. Says(stored') = Says(m)
  BY <1>4, <1>8, <1>9, <1>13, NormalisedIs
<1>20. PhotosKept(stored', m)
  <2>1. PICK s, t : s = stored /\ t = stored'
    OBVIOUS
  <2>2. /\ t \in Seq(Line) /\ s \in Seq(Line) /\ g \in Seq(Line) /\ meant \in Seq(Line)
        /\ body \in Seq(Line) /\ m \in Seq(Line)
    BY <1>5, <1>9, <1>15, <2>1 DEF Sound, Texts
  <2>3. Photos(body) = Photos(g) /\ Photos(m) = Photos(meant)
    BY <1>2, <1>5, <1>8, SaysInserted
  <2>4. PhotosKept(g, s) /\ PhotosKept(s, meant) /\ PhotosKept(t, body)
    BY <1>4, <1>5, <1>8, <1>9, <1>12, <2>1, NormalisedIs DEF Agree
  <2>5. PhotosKept(g, meant)
    BY <2>2, <2>4, PhotosTwice
  <2>6. PhotosKept(body, m)
    BY <2>3, <2>5 DEF PhotosKept
  <2>7. PhotosKept(t, m)
    BY <2>2, <2>4, <2>6, PhotosTwice
  <2>8. QED
    BY <2>1, <2>7
<1>17. ASSUME Ver(meant) = "3.0", Exact(stored)
       PROVE  AllPureV4(stored')
  <2>1. CASE Dialect[c] # "3.0"
    <3>1. g = stored
      BY <1>7, <2>1 DEF Text
    <3>2. AllPureV4(stored)
      BY <1>5, <1>17 DEF Agree
    <3>3. AllPureV4(body)
      BY <1>8, <1>9, <2>1, <3>1, <3>2 DEF AllPureV4
    <3>4. QED
      BY <1>4, <1>8, <1>9, <3>3, NormalisedPure
  <2>2. CASE Dialect[c] = "3.0"
    <3>1. g = ToV3(stored)
      BY <1>7, <2>2 DEF Text
    <3>2. Ver(g) = "3.0"
      BY <1>5, <1>17, <3>1, GivenVersion
    <3>3. Ver(body) = "3.0"
      <4>1. Ver(body) = Facts(body).version /\ Ver(g) = Facts(g).version
        BY FactsUsed
      <4>2. QED
        BY <1>10, <3>2, <4>1
    <3>4. QED
      BY <1>4, <1>8, <1>9, <3>3, NormalisedPure
  <2>3. QED
    BY <2>1, <2>2
<1>18. Agree(stored', m, uid')
  BY <1>5, <1>10, <1>14, <1>16, <1>17, <1>20, AgreeStays
<1>19. QED
  BY <1>3, <1>9, <1>15, <1>18

LEMMA EditKeeps ==
    ASSUME IInv, NEW c \in Clients, Edit(c)
    PROVE  IInv'
<1>1. PICK body, etag : body = Added(c, copy[c].text) /\ etag = copy[c].etag
  OBVIOUS
<1>2. /\ copy[c] # None /\ Put(c, body, etag) /\ copy' = [copy EXCEPT ![c] = None]
      /\ tripped' = (tripped /\ answer'[c] # "stored")
      /\ edits < MaxEdits /\ edits' = edits + 1
      /\ meant' = IF answer'[c] = "stored" THEN Added(c, meant) ELSE meant
  BY <1>1 DEF Edit
<1>3. TypeOK /\ Copies
  BY DEF IInv
<1>4. answer' \in [Clients -> Answers] /\ (Taken(c, body, etag) \/ Refused(c, body, etag))
  BY <1>2, <1>3, PutIs
<1>5. stored # None /\ Sound(stored) /\ Agree(stored, meant, uid) /\ meant \in Texts
      /\ (tripped => Rested(stored))
  BY <1>2, GivenBack DEF IInv
<1>6. copy' \in [Clients -> {None} \cup [text : Texts, etag : Texts]] /\ edits' \in 0..MaxEdits
  BY <1>2, <1>3, Constants DEF TypeOK
<1>7. ASSUME stored' # None
      PROVE  Copies'
  <2> SUFFICES ASSUME NEW d \in Clients, copy'[d] # None
               PROVE  /\ stored' # None
                      /\ copy'[d].text = IF Dialect[d] = "3.0" THEN ToV3(copy'[d].etag)
                                         ELSE copy'[d].etag
    BY DEF Copies
  <2>1. copy'[d] = copy[d]
    BY <1>2, <1>3 DEF TypeOK
  <2>2. QED
    BY <1>3, <1>7, <2>1 DEF Copies
<1>8. CASE Taken(c, body, etag)
  <2>1. answer'[c] = "stored" /\ ~ tripped' /\ meant' = Added(c, meant)
    BY <1>2, <1>8 DEF Taken
  <2>2. Sound(stored') /\ Agree(stored', meant', uid') /\ meant' \in Texts
    BY <1>1, <1>2, <1>8, <2>1, EditTaken
  <2>3. stored' \in Texts /\ stored' # None /\ meant' # None
    BY <2>2, Constants DEF Sound
  <2>4. TypeOK'
    BY <1>4, <1>6, <2>2, <2>3 DEF TypeOK
  <2>5. QED
    BY <1>7, <2>1, <2>2, <2>3, <2>4 DEF IInv
<1>9. CASE Refused(c, body, etag)
  <2>1. stored' = stored /\ uid' = uid /\ answer'[c] # "stored"
    BY <1>9 DEF Refused
  <2>2. meant' = meant /\ (tripped' => tripped)
    BY <1>2, <2>1
  <2>3. TypeOK'
    BY <1>3, <1>4, <1>6, <2>1, <2>2 DEF TypeOK
  <2>4. QED
    BY <1>5, <1>7, <2>1, <2>2, <2>3 DEF IInv
<1>10. QED
  BY <1>4, <1>8, <1>9

LEMMA StutterKeeps ==
    ASSUME IInv, UNCHANGED vars
    PROVE  IInv'
<1>1. /\ stored' = stored /\ uid' = uid /\ copy' = copy /\ answer' = answer
      /\ edits' = edits /\ meant' = meant /\ tripped' = tripped
  BY DEF vars
<1>2. TypeOK' /\ Copies'
  BY <1>1 DEF IInv, TypeOK, Copies
<1>3. QED
  BY <1>1, <1>2 DEF IInv

(* No text is stored that a conversion to 4.0 would change again or that   *)
(* lacks a UID it has room for; however many clients of either dialect     *)
(* wrote it in turn, its facts, addresses and other lines are those that   *)
(* were meant, and so are the images that convertPhotoToV3 reads rightly   *)
(* and that are not renamed (contact.go:109-171, convert.go).              *)
THEOREM CardsInvariant == Spec => []IInv
<1>1. Init => IInv
  BY IInvInit
<1>2. IInv /\ [Next]_vars => IInv'
  <2> SUFFICES ASSUME IInv, [Next]_vars
               PROVE  IInv'
    OBVIOUS
  <2>1. CASE UNCHANGED vars
    BY <2>1, StutterKeeps
  <2>2. ASSUME NEW c \in Clients, Compose(c)
        PROVE  IInv'
    BY <2>2, ComposeKeeps
  <2>3. ASSUME NEW c \in Clients, Get(c)
        PROVE  IInv'
    BY <2>3, GetKeeps
  <2>4. ASSUME NEW c \in Clients, WriteBack(c)
        PROVE  IInv'
    BY <2>4, WriteBackKeeps
  <2>5. ASSUME NEW c \in Clients, Edit(c)
        PROVE  IInv'
    BY <2>5, EditKeeps
  <2>6. QED
    BY <2>1, <2>2, <2>3, <2>4, <2>5 DEF Next
<1>3. QED
  BY <1>1, <1>2, PTL DEF Spec

(* Through any number of conversions and edits by clients of both dialects *)
(* the stored text says what its authors meant: addresses with their types,*)
(* images, and all lines that are not rewritten, whatever lines clients    *)
(* write (contact.go:124, 145-151, convert.go).  Of a data URI that        *)
(* convertPhotoToV3 cuts in its data or takes for base64, and of a property*)
(* whose name only begins with PHOTO, just the place is kept.              *)
THEOREM MeaningAlwaysKept == Spec => []MeaningKept
<1>1. IInv => MeaningKept
  BY DEF IInv, Agree, MeaningKept
<1>2. QED
  BY <1>1, CardsInvariant, PTL

(* With an exact VERSION line the text a 3.0 client is given is 3.0 in its *)
(* VERSION, addresses and photos - but for a data URI that convertPhotoToV3*)
(* cannot split - and what is stored of a text composed as 3.0 is 4.0 in   *)
(* these and has no PROFILE.  Nothing is said of other lines, which pass   *)
(* unconverted (convert.go:8-50, 194-204).                                 *)
THEOREM DialectsAlwaysPure == Spec => []DialectsPure
<1>1. ASSUME IInv, stored # None, Facts(stored).exact
      PROVE  /\ ExtractProp(stored, "VERSION") = "4.0"
             /\ ExtractProp(ToV3(stored), "VERSION") = "3.0"
             /\ \A line \in ToSet(ToV3(stored)) : PureV3(line)
             /\ ExtractProp(meant, "VERSION") = "3.0"
                   => \A line \in ToSet(stored) : PureV4(line)
  <2>1. Sound(stored) /\ Agree(stored, meant, uid) /\ Exact(stored)
    BY <1>1, FactsUsed DEF IInv
  <2>2. stored \in Seq(Line) /\ Ver(stored) = "4.0" /\ Ver(ToV3(stored)) = "3.0"
    BY <2>1, GivenVersion DEF Sound, Texts
  <2>3. ToSet(ToV3(stored)) = {LineToV3(l) : l \in ToSet(stored)}
    <3>1. ToV3(stored) = Mapped(stored, H3)
      BY <2>2, TextIs DEF Ver
    <3>2. QED
      BY <2>2, <3>1, TextSet
  <2>4. \A line \in ToSet(ToV3(stored)) : PureV3(line)
    BY <2>2, <2>3, ToSetTyped, LineV3
  <2>5. Ver(meant) = "3.0" => AllPureV4(stored)
    BY <2>1 DEF Agree
  <2>6. QED
    BY <2>2, <2>4, <2>5 DEF Ver, AllPureV4
<1>2. IInv => DialectsPure
  BY <1>1 DEF DialectsPure
<1>3. QED
  BY <1>2, CardsInvariant, PTL

(* The facts that DavHandlers keeps of a text are those of the text that   *)
(* the code would keep (contact.go:123-133).                               *)
THEOREM FactsAlwaysAgree == Spec => []FactsAgree
<1>1. ASSUME IInv, stored # None
      PROVE  /\ Facts(stored) = PutFacts(Facts(meant), uid)
             /\ ~ AnyMisread(stored) => Facts(ToV3(stored)) = V!ToV3(Facts(stored))
  <2>1. Sound(stored) /\ Agree(stored, meant, uid)
    BY <1>1 DEF IInv
  <2>2. stored \in Seq(Line)
    BY <2>1 DEF Sound, Texts
  <2>3. QED
    BY <2>1, <2>2, FactsV3 DEF Agree
<1>2. IInv => FactsAgree
  BY <1>1 DEF FactsAgree, PutFacts
<1>3. QED
  BY <1>2, CardsInvariant, PTL

(* A 4.0 client that writes back what it was given changes nothing, a 3.0  *)
(* client at most once: the ETag comes to rest (contact.go:123-133,        *)
(* convert.go).                                                            *)
THEOREM TextsSettle == Spec => Settles
<1>1. ASSUME IInv, NEW c \in Clients, WriteBack(c), tripped \/ Dialect[c] = "4.0"
      PROVE  /\ stored' = stored
             /\ uid' = uid \/ ExtractProp(stored, "UID") = Absent
  <2>1. /\ copy[c] # None
        /\ Put(c, copy[c].text, copy[c].etag)
    BY <1>1 DEF WriteBack
  <2>2. TypeOK /\ stored # None /\ Sound(stored) /\ (tripped => Rested(stored))
    BY <1>1, <2>1, GivenBack DEF IInv
  <2>3. Taken(c, copy[c].text, copy[c].etag) \/ Refused(c, copy[c].text, copy[c].etag)
    BY <2>1, <2>2, PutIs
  <2>4. CASE Refused(c, copy[c].text, copy[c].etag)
    BY <2>4 DEF Refused
  <2>5. CASE Taken(c, copy[c].text, copy[c].etag)
    <3>1. stored' = ToV4(Text(c)) /\ (UIDOf(stored) # Absent => uid' = uid)
      BY <1>1, <2>1, <2>5, WriteBackTaken
    <3>2. stored' = stored
      <4>1. CASE Dialect[c] = "3.0"
        <5>1. Text(c) = ToV3(stored) /\ Rested(stored)
          BY <1>1, <2>2, <4>1 DEF Text
        <5>2. QED
          BY <2>2, <3>1, <5>1, RoundTrip
      <4>2. CASE Dialect[c] # "3.0"
        BY <2>2, <3>1, <4>2, SoundStays DEF Text
      <4>3. QED
        BY <4>1, <4>2
    <3>3. QED
      BY <3>1, <3>2 DEF UIDOf
  <2>6. QED
    BY <2>3, <2>4, <2>5
<1>2. IInv /\ [Next]_vars =>
        [\A c \in Clients : WriteBack(c) /\ (tripped \/ Dialect[c] = "4.0") =>
            /\ stored' = stored
            /\ uid' = uid \/ ExtractProp(stored, "UID") = Absent]_vars
  BY <1>1
<1>3. QED
  BY <1>2, CardsInvariant, PTL DEF Spec, Settles

(* A client that writes back what it would be given now is not refused,    *)
(* but for the two kinds of text that Cards names (contact.go:109-171,     *)
(* vcard.go:36, convert.go:188).                                           *)
THEOREM FreshIsAccepted == Spec => FreshAccepted
<1>1. ASSUME IInv, NEW c \in Clients, WriteBack(c), stored # None, copy[c] = Served(c)
      PROVE  \/ answer'[c] = "stored"
             \/ Dialect[c] = "3.0" /\ answer'[c] = "unprocessable" /\ ~ Facts(stored).hasN
             \/ Dialect[c] = "3.0" /\ answer'[c] = "too large" /\ AnyMisread(stored)
  <2>1. PICK g, e : g = copy[c].text /\ e = copy[c].etag
    OBVIOUS
  <2>2. copy[c] # None /\ Put(c, g, e)
    BY <1>1, <2>1 DEF WriteBack
  <2>3. g = Text(c) /\ e = stored
    BY <1>1, <2>1 DEF Served
  <2>4. TypeOK /\ Sound(stored)
    BY <1>1 DEF IInv
  <2>5. stored \in Seq(Line) /\ Rejection(stored) = "none"
    BY <2>4, AcceptedIs DEF Sound, Texts
  <2>6. Taken(c, g, e) \/ Refused(c, g, e)
    BY <2>2, <2>4, PutIs
  <2>7. CASE Taken(c, g, e)
    BY <2>7 DEF Taken
  <2>8. CASE Refused(c, g, e)
    <3>1. Rejection(g) # "none" /\ answer'[c] = Rejection(g)
      BY <2>3, <2>8 DEF Refused
    <3>2. Dialect[c] = "3.0" /\ g = ToV3(stored)
      BY <2>3, <2>5, <3>1 DEF Text
    <3>3. CASE answer'[c] = "unprocessable"
      <4>1. ~ Validate(g)
        BY <3>1, <3>3 DEF Rejection
      <4>2. ~ V!Validate(Facts(g)) /\ V!Validate(Facts(stored))
        BY <2>4, <4>1, ValidateIs DEF Sound
      <4>3. /\ Facts(g).version = V!ToV3(Facts(stored)).version
            /\ Facts(g).fn = Facts(stored).fn /\ Facts(g).hasN = Facts(stored).hasN
        BY <2>5, <3>2, FactsV3
      <4>4. V!ToV3(Facts(stored)).version \in {"3.0", Facts(stored).version}
        BY FactsAre DEF V!ToV3, V!ToVersion
      <4>5. ~ Facts(stored).hasN
        BY <4>2, <4>3, <4>4 DEF V!Validate
      <4>6. QED
        BY <3>2, <3>3, <4>5
    <3>4. CASE answer'[c] # "unprocessable"
      <4>1. answer'[c] = "too large" /\ ~ ValidatePhotoSize(g)
        BY <3>1, <3>4 DEF Rejection
      <4>2. ValidatePhotoSize(stored)
        BY <2>4 DEF Sound
      <4>3. AnyMisread(stored)
        BY <2>5, <3>2, <4>1, <4>2, FactsV3
      <4>4. QED
        BY <3>2, <4>1, <4>3
    <3>5. QED
      BY <3>3, <3>4
  <2>9. QED
    BY <2>6, <2>7, <2>8
<1>2. IInv /\ [Next]_vars =>
        [\A c \in Clients : WriteBack(c) /\ stored # None /\ copy[c] = Served(c) =>
            \/ answer'[c] = "stored"
            \/ Dialect[c] = "3.0" /\ answer'[c] = "unprocessable" /\ ~ Facts(stored).hasN
            \/ Dialect[c] = "3.0" /\ answer'[c] = "too large" /\ AnyMisread(stored)]_vars
  BY <1>1
<1>3. QED
  BY <1>2, CardsInvariant, PTL DEF Spec, FreshAccepted
=============================================================================
