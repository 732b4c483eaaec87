-------------------------- MODULE SubnetNatProofs --------------------------
(* Lemmas about lists: what FlattenSeq, MapSubnets and the choice of a     *)
(* first rule return, whatever the length of the list.                     *)
EXTENDS Integers, SubnetNat, SequenceTheorems, WellFoundedInduction, TLAPS

-----------------------------------------------------------------------------
(* Induction over the natural numbers, for a set.                          *)

\* The least number outside of the set would follow one that is in it.
LEMMA NatSetInduction ==
  ASSUME NEW S, 0 \in S, \A n \in Nat : n \in S => n + 1 \in S
  PROVE  Nat \subseteq S
  <1> DEFINE T == Nat \ S
  <1>1. SUFFICES ASSUME T # {} PROVE FALSE
    OBVIOUS
  <1>2. PICK x \in T : \A y \in T : ~(<<y, x>> \in OpToRel(<, Nat))
    BY <1>1, WFMin, NatLessThanWellFounded
  <1>3. \A y \in T : ~ (y < x)
    BY <1>2 DEF OpToRel
  <1>4. QED
    BY <1>3

\* The same, for the numbers up to n.
LEMMA UpTo ==
  ASSUME NEW n \in Nat, NEW S, 0 \in S, \A m \in 0 .. n : m < n /\ m \in S => m + 1 \in S
  PROVE  0 .. n \subseteq S
  <1> DEFINE T == S \cup {m \in Nat : m > n}
  <1>1. Nat \subseteq T
    <2>1. 0 \in T
      OBVIOUS
    <2>2. ASSUME NEW m \in Nat, m \in T PROVE m + 1 \in T
      BY <2>2
    <2> HIDE DEF T
    <2>3. QED
      BY <2>1, <2>2, NatSetInduction
  <1>2. QED
    BY <1>1

\* The same, from n down to 0.
LEMMA DownFrom ==
  ASSUME NEW n \in Nat, NEW S, n \in S, \A m \in 1 .. n : m \in S => m - 1 \in S
  PROVE  0 .. n \subseteq S
  <1> DEFINE T == {k \in 0 .. n : n - k \in S}
  <1>1. 0 .. n \subseteq T
    <2>1. 0 \in T
      OBVIOUS
    <2>2. ASSUME NEW k \in 0 .. n, k < n, k \in T PROVE k + 1 \in T
      <3>1. n - k \in 1 .. n /\ n - k \in S
        BY <2>2
      <3>2. (n - k) - 1 \in S
        BY <3>1
      <3>3. (n - k) - 1 = n - (k + 1) /\ k + 1 \in 0 .. n
        BY <2>2
      <3>4. QED
        BY <3>2, <3>3
    <2> HIDE DEF T
    <2>3. QED
      BY <2>1, <2>2, UpTo
  <1>2. ASSUME NEW m \in 0 .. n PROVE m \in S
    <2>1. n - m \in T
      BY <1>1
    <2>2. n - (n - m) = m
      OBVIOUS
    <2>3. QED
      BY <2>1, <2>2
  <1>3. QED
    BY <1>2

\* A set of natural numbers that is not empty has a least element.
LEMMA LeastOf ==
  ASSUME NEW I \in SUBSET Nat, I # {}
  PROVE  Min(I) \in I /\ \A j \in I : Min(I) <= j
  <1>1. PICK x \in I : \A y \in I : ~(<<y, x>> \in OpToRel(<, Nat))
    BY WFMin, NatLessThanWellFounded
  <1>2. \A y \in I : ~(y < x)
    BY <1>1 DEF OpToRel
  <1>3. \A y \in I : x <= y
    BY <1>2
  <1>4. QED
    BY <1>3 DEF Min

-----------------------------------------------------------------------------
(* FlattenSeq, one sequence after the other.                               *)

\* The recursive function it is defined by exists.
LEMMA FlattenExists ==
  ASSUME NEW s, NEW n \in Nat
  PROVE  \E g : g = [i \in 1 .. n |-> IF i = 1 THEN s[i] ELSE g[i - 1] \o s[i]]
  <1> DEFINE P(m) == \E g : g = [i \in 1 .. m |-> IF i = 1 THEN s[i] ELSE g[i - 1] \o s[i]]
             S == {m \in Nat : P(m)}
  <1>1. 0 \in S
    <2>1. [i \in 1 .. 0 |-> 0]
            = [i \in 1 .. 0 |-> IF i = 1 THEN s[i] ELSE [j \in 1 .. 0 |-> 0][i - 1] \o s[i]]
      OBVIOUS
    <2>2. QED
      BY <2>1
  <1>2. ASSUME NEW m \in Nat, m \in S PROVE m + 1 \in S
    <2>1. PICK g : g = [i \in 1 .. m |-> IF i = 1 THEN s[i] ELSE g[i - 1] \o s[i]]
      BY <1>2
    <2> DEFINE h == [i \in 1 .. m + 1 |->
                       IF i \in 1 .. m THEN g[i] ELSE IF i = 1 THEN s[i] ELSE g[i - 1] \o s[i]]
    <2>2. ASSUME NEW i \in 1 .. m + 1
          PROVE  h[i] = IF i = 1 THEN s[i] ELSE h[i - 1] \o s[i]
      <3>1. CASE i \in 1 .. m
        <4>1. h[i] = g[i]
          BY <3>1
        <4>2. g[i] = IF i = 1 THEN s[i] ELSE g[i - 1] \o s[i]
          BY <2>1, <3>1
        <4>3. i # 1 => h[i - 1] = g[i - 1]
          BY <3>1
        <4> HIDE DEF h
        <4>4. QED
          BY <4>1, <4>2, <4>3
      <3>2. CASE i = m + 1
        <4>1. h[i] = IF i = 1 THEN s[i] ELSE g[i - 1] \o s[i]
          BY <3>2
        <4>2. i # 1 => h[i - 1] = g[i - 1]
          BY <3>2
        <4> HIDE DEF h
        <4>3. QED
          BY <4>1, <4>2
      <3>3. QED
        BY <3>1, <3>2
    <2>3. h = [i \in 1 .. m + 1 |-> h[i]]
      OBVIOUS
    <2> HIDE DEF h
    <2>4. h = [i \in 1 .. m + 1 |-> IF i = 1 THEN s[i] ELSE h[i - 1] \o s[i]]
      BY <2>2, <2>3
    <2>5. P(m + 1)
      BY <2>4, Zenon
    <2> HIDE DEF P
    <2>6. QED
      BY <2>5
  <1> HIDE DEF S
  <1>3. Nat \subseteq S
    BY <1>1, <1>2, NatSetInduction
  <1>4. QED
    BY <1>3 DEF S

\* The lists put together so far, from the first one on.
LEMMA FlattenSteps ==
  ASSUME NEW S, NEW s \in Seq(Seq(S))
  PROVE  \E G \in [0 .. Len(s) -> Seq(S)] :
           /\ G[0] = <<>> /\ FlattenSeq(s) = G[Len(s)]
           /\ \A i \in 1 .. Len(s) : G[i] = G[i - 1] \o s[i]
  <1> DEFINE n == Len(s)
             f == CHOOSE g : g = [i \in 1 .. n |-> IF i = 1 THEN s[i] ELSE g[i - 1] \o s[i]]
             G == [i \in 0 .. n |-> IF i = 0 THEN <<>> ELSE f[i]]
  <1>1. n \in Nat /\ \A i \in 1 .. n : s[i] \in Seq(S)
    OBVIOUS
  <1>2. f = [i \in 1 .. n |-> IF i = 1 THEN s[i] ELSE f[i - 1] \o s[i]]
    BY <1>1, FlattenExists
  <1>3. FlattenSeq(s) = IF n = 0 THEN s ELSE f[n]
    BY DEF FlattenSeq
  <1> HIDE DEF f, n
  <1>4. /\ G[0] = <<>>
        /\ n # 0 => G[n] = f[n]
        /\ \A i \in 1 .. n : G[i] = IF i = 1 THEN s[i] ELSE G[i - 1] \o s[i]
    <2>1. G[0] = <<>> /\ \A i \in 1 .. n : G[i] = f[i]
      BY <1>1
    <2>2. \A i \in 1 .. n : f[i] = IF i = 1 THEN s[i] ELSE f[i - 1] \o s[i]
      BY <1>2
    <2>3. \A i \in 1 .. n : i # 1 => i - 1 \in 1 .. n
      BY <1>1
    <2> HIDE DEF G
    <2>4. QED
      BY <1>1, <2>1, <2>2, <2>3
  <1>5. DOMAIN G = 0 .. n /\ G = [i \in 0 .. n |-> G[i]]
    OBVIOUS
  <1> HIDE DEF G
  <1>6. ASSUME NEW i \in 1 .. n PROVE G[i] = G[i - 1] \o s[i]
    <2>1. CASE i = 1
      <3>1. G[i] = s[i] /\ G[i - 1] = <<>>
        BY <1>4, <2>1
      <3>2. <<>> \o s[i] = s[i]
        BY <1>1, ConcatEmptySeq
      <3>3. QED
        BY <3>1, <3>2
    <2>2. CASE i # 1
      BY <1>4, <2>2
    <2>3. QED
      BY <2>1, <2>2
  <1> DEFINE T == {i \in 0 .. n : G[i] \in Seq(S)}
  <1> HIDE DEF T
  <1>7. \A i \in 0 .. n : G[i] \in Seq(S)
    <2>1. 0 \in T
      <3>1. 0 \in 0 .. n /\ <<>> \in Seq(S)
        BY <1>1, EmptySeq
      <3>2. QED
        BY <1>4, <3>1, Zenon DEF T
    <2>2. ASSUME NEW m \in 0 .. n, m < n, m \in T PROVE m + 1 \in T
      <3>1. m + 1 \in 1 .. n /\ (m + 1) - 1 = m /\ m + 1 \in 0 .. n
        BY <1>1, <2>2
      <3>2. G[m + 1] = G[m] \o s[m + 1]
        BY <1>6, <3>1
      <3>3. G[m] \in Seq(S) /\ s[m + 1] \in Seq(S)
        BY <1>1, <2>2, <3>1, Zenon DEF T
      <3>4. G[m] \o s[m + 1] \in Seq(S)
        BY <3>3, ConcatProperties
      <3>5. QED
        BY <3>1, <3>2, <3>4, Zenon DEF T
    <2>3. 0 .. n \subseteq T
      BY <1>1, <2>1, <2>2, UpTo
    <2>4. QED
      BY <2>3, Zenon DEF T
  <1>8. G \in [0 .. n -> Seq(S)]
    BY <1>5, <1>7
  <1>9. FlattenSeq(s) = G[n]
    <2>1. CASE n = 0
      BY <1>3, <1>4, <2>1 DEF n
    <2>2. CASE n # 0
      BY <1>1, <1>3, <1>4, <2>2
    <2>3. QED
      BY <2>1, <2>2
  <1>10. QED
    BY <1>4, <1>6, <1>8, <1>9 DEF n

\* FlattenSeq returns a list of what the lists hold.
LEMMA FlattenType ==
  ASSUME NEW S, NEW s \in Seq(Seq(S))
  PROVE  FlattenSeq(s) \in Seq(S)
  <1>1. PICK G \in [0 .. Len(s) -> Seq(S)] : FlattenSeq(s) = G[Len(s)]
    BY FlattenSteps
  <1>2. QED
    BY <1>1

\* A concatenation holds what its parts hold.
LEMMA ConcatRange ==
  ASSUME NEW S, NEW s \in Seq(S), NEW t \in Seq(S)
  PROVE  ToSet(s \o t) = ToSet(s) \cup ToSet(t)
  <1>1. /\ s \o t \in Seq(S) /\ Len(s \o t) = Len(s) + Len(t)
        /\ \A i \in 1 .. Len(s) + Len(t) :
             (s \o t)[i] = IF i <= Len(s) THEN s[i] ELSE t[i - Len(s)]
    BY ConcatProperties
  <1>2. Len(s) \in Nat /\ Len(t) \in Nat
    OBVIOUS
  <1>3. /\ DOMAIN s = 1 .. Len(s) /\ DOMAIN t = 1 .. Len(t)
        /\ DOMAIN (s \o t) = 1 .. Len(s) + Len(t)
    BY <1>1, LenProperties
  <1>4. ASSUME NEW x \in ToSet(s \o t) PROVE x \in ToSet(s) \cup ToSet(t)
    <2>1. PICK i \in 1 .. Len(s) + Len(t) : x = (s \o t)[i]
      BY <1>3 DEF ToSet
    <2>2. CASE i <= Len(s)
      BY <1>1, <1>2, <1>3, <2>1, <2>2 DEF ToSet
    <2>3. CASE i > Len(s)
      <3>1. x = t[i - Len(s)] /\ i - Len(s) \in 1 .. Len(t)
        BY <1>1, <1>2, <2>1, <2>3
      <3>2. QED
        BY <1>3, <3>1 DEF ToSet
    <2>4. QED
      BY <1>2, <2>2, <2>3
  <1>5. ASSUME NEW x \in ToSet(s) PROVE x \in ToSet(s \o t)
    <2>1. PICK i \in 1 .. Len(s) : x = s[i]
      BY <1>3 DEF ToSet
    <2>2. i \in 1 .. Len(s) + Len(t) /\ x = (s \o t)[i]
      BY <1>1, <1>2, <2>1
    <2>3. QED
      BY <1>3, <2>2 DEF ToSet
  <1>6. ASSUME NEW x \in ToSet(t) PROVE x \in ToSet(s \o t)
    <2>1. PICK i \in 1 .. Len(t) : x = t[i]
      BY <1>3 DEF ToSet
    <2>2. /\ i + Len(s) \in 1 .. Len(s) + Len(t) /\ ~(i + Len(s) <= Len(s))
          /\ (i + Len(s)) - Len(s) = i
      BY <1>2, <2>1
    <2>3. x = (s \o t)[i + Len(s)]
      BY <1>1, <2>1, <2>2
    <2>4. QED
      BY <1>3, <2>2, <2>3 DEF ToSet
  <1>7. QED
    BY <1>4, <1>5, <1>6

\* FlattenSeq holds what the lists hold, no less and no more.
LEMMA FlattenRange ==
  ASSUME NEW S, NEW s \in Seq(Seq(S))
  PROVE  ToSet(FlattenSeq(s)) = UNION {ToSet(s[i]) : i \in 1 .. Len(s)}
  <1> DEFINE n == Len(s)
             U(m) == UNION {ToSet(s[i]) : i \in 1 .. m}
  <1>1. PICK G \in [0 .. n -> Seq(S)] :
          /\ G[0] = <<>> /\ FlattenSeq(s) = G[n]
          /\ \A i \in 1 .. n : G[i] = G[i - 1] \o s[i]
    BY FlattenSteps
  <1>2. n \in Nat /\ \A i \in 1 .. n : s[i] \in Seq(S)
    OBVIOUS
  <1> DEFINE T == {m \in 0 .. n : ToSet(G[m]) = U(m)}
  <1> HIDE DEF T
  <1>3. 0 \in T
    <2>1. ToSet(<<>>) = {}
      BY DEF ToSet
    <2>2. U(0) = {}
      OBVIOUS
    <2>3. QED
      BY <1>1, <1>2, <2>1, <2>2 DEF T
  <1>4. ASSUME NEW m \in 0 .. n, m < n, m \in T PROVE m + 1 \in T
    <2>1. m + 1 \in 1 .. n /\ (m + 1) - 1 = m /\ m + 1 \in 0 .. n
      BY <1>2, <1>4
    <2>2. G[m + 1] = G[m] \o s[m + 1] /\ G[m] \in Seq(S) /\ s[m + 1] \in Seq(S)
      BY <1>1, <1>2, <2>1
    <2>3. ToSet(G[m + 1]) = ToSet(G[m]) \cup ToSet(s[m + 1])
      BY <2>2, ConcatRange
    <2>4. U(m + 1) = U(m) \cup ToSet(s[m + 1])
      <3>1. 1 .. m + 1 = (1 .. m) \cup {m + 1}
        BY <2>1
      <3>2. QED
        BY <3>1
    <2>5. ToSet(G[m]) = U(m)
      BY <1>4 DEF T
    <2> HIDE DEF U
    <2>6. QED
      BY <2>1, <2>3, <2>4, <2>5 DEF T
  <1>5. 0 .. n \subseteq T
    BY <1>2, <1>3, <1>4, UpTo
  <1>6. n \in T
    BY <1>2, <1>5
  <1>7. QED
    BY <1>1, <1>6 DEF T

\* A list of one element is two lists only if one of them is empty.
LEMMA ConcatSingle ==
  ASSUME NEW S, NEW z
  PROVE  \A s, t \in Seq(S) :
           /\ s \o t = <<>> => s = <<>> /\ t = <<>>
           /\ s \o t = <<z>> => (s = <<>> /\ t = <<z>>) \/ (s = <<z>> /\ t = <<>>)
  <1> TAKE s, t \in Seq(S)
  <1>1. Len(s) \in Nat /\ Len(t) \in Nat
    OBVIOUS
  <1>2. s \o t = <<z>> => Len(s) + Len(t) = 1
    <2>1. Len(s \o t) = Len(s) + Len(t)
      BY ConcatProperties
    <2>2. QED
      BY <2>1
  <1>3. Len(s) = 0 => s = <<>> /\ s \o t = t
    <2>1. Len(s) = 0 => s = <<>>
      OBVIOUS
    <2>2. <<>> \o t = t
      BY ConcatEmptySeq
    <2>3. QED
      BY <2>1, <2>2
  <1>4. Len(t) = 0 => t = <<>> /\ s \o t = s
    <2>1. Len(t) = 0 => t = <<>>
      OBVIOUS
    <2>2. s \o <<>> = s
      BY ConcatEmptySeq
    <2>3. QED
      BY <2>1, <2>2
  <1>5. s \o t = <<>> => s = <<>> /\ t = <<>>
    BY ConcatEqualIffEmpty
  <1>6. s \o t = <<z>> => Len(s) = 0 \/ Len(t) = 0
    BY <1>1, <1>2
  <1>7. QED
    BY <1>3, <1>4, <1>5, <1>6

\* Lists that are one element together: each, and each list of the first of
\* them, has it or nothing.
LEMMA FlattenSingle ==
  ASSUME NEW S, NEW v \in Seq(Seq(S)), NEW z, FlattenSeq(v) = <<z>>
  PROVE  /\ \E G \in [0 .. Len(v) -> Seq(S)] :
              /\ G[0] = <<>> /\ <<z>> = G[Len(v)]
              /\ \A i \in 1 .. Len(v) : G[i] = G[i - 1] \o v[i]
              /\ \A i \in 0 .. Len(v) : G[i] \in {<<>>, <<z>>}
         /\ \A i \in 1 .. Len(v) : v[i] \in {<<>>, <<z>>}
  <1> DEFINE n == Len(v)
  <1>0. n \in Nat /\ \A i \in 1 .. n : v[i] \in Seq(S)
    OBVIOUS
  <1>c. \A s, t \in Seq(S) :
          /\ s \o t = <<>> => s = <<>> /\ t = <<>>
          /\ s \o t = <<z>> => (s = <<>> /\ t = <<z>>) \/ (s = <<z>> /\ t = <<>>)
    BY ConcatSingle
  <1>1. PICK G \in [0 .. n -> Seq(S)] :
          /\ G[0] = <<>> /\ <<z>> = G[n]
          /\ \A i \in 1 .. n : G[i] = G[i - 1] \o v[i]
    BY FlattenSteps
  <1> HIDE DEF n
  <1> DEFINE T == {i \in 0 .. n : G[i] \in {<<>>, <<z>>}}
  <1> HIDE DEF T
  <1>3. 0 .. n \subseteq T
    <2>1. n \in T
      BY <1>0, <1>1 DEF T
    <2>2. ASSUME NEW m \in 1 .. n, m \in T PROVE m - 1 \in T
      <3>1. m - 1 \in 0 .. n /\ m \in 0 .. n
        BY <1>0
      <3>2. G[m] \in {<<>>, <<z>>}
        BY <2>2 DEF T
      <3>3. G[m] = G[m - 1] \o v[m] /\ G[m - 1] \in Seq(S) /\ v[m] \in Seq(S)
        BY <1>0, <1>1, <3>1
      <3>4. G[m - 1] \in {<<>>, <<z>>}
        BY <1>c, <3>2, <3>3
      <3>5. QED
        BY <3>1, <3>4, Zenon DEF T
    <2>3. QED
      BY <1>0, <2>1, <2>2, DownFrom
  <1>4. ASSUME NEW i \in 1 .. n PROVE v[i] \in {<<>>, <<z>>}
    <2>1. i \in 0 .. n /\ i - 1 \in 0 .. n
      BY <1>0
    <2>2. G[i] \in {<<>>, <<z>>}
      BY <1>3, <2>1, Zenon DEF T
    <2>3. G[i] = G[i - 1] \o v[i] /\ G[i - 1] \in Seq(S) /\ v[i] \in Seq(S)
      BY <1>0, <1>1, <2>1
    <2>4. QED
      BY <1>c, <2>2, <2>3
  <1>5. \A i \in 0 .. n : G[i] \in {<<>>, <<z>>}
    BY <1>3, Zenon DEF T
  <1>6. QED
    BY <1>1, <1>4, <1>5 DEF n

\* Lists that are one element together, one of which has it: if that one is
\* replaced, they are its replacement.
LEMMA FlattenReplace ==
  ASSUME NEW S, NEW v \in Seq(Seq(S)), NEW w \in Seq(Seq(S)), NEW z, NEW new \in Seq(S),
         FlattenSeq(v) = <<z>>, Len(w) = Len(v),
         \A i \in 1 .. Len(v) : (v[i] = <<>> => w[i] = <<>>) /\ (v[i] = <<z>> => w[i] = new)
  PROVE  FlattenSeq(w) = new
  <1> DEFINE n == Len(v)
  <1>0. /\ n \in Nat /\ Len(w) = n
        /\ \A i \in 1 .. n : v[i] \in Seq(S) /\ w[i] \in Seq(S)
        /\ \A i \in 1 .. n : (v[i] = <<>> => w[i] = <<>>) /\ (v[i] = <<z>> => w[i] = new)
    OBVIOUS
  <1>c. \A s, t \in Seq(S) :
          /\ s \o t = <<>> => s = <<>> /\ t = <<>>
          /\ s \o t = <<z>> => (s = <<>> /\ t = <<z>>) \/ (s = <<z>> /\ t = <<>>)
    BY ConcatSingle
  <1>1. PICK G \in [0 .. n -> Seq(S)] :
          /\ G[0] = <<>> /\ <<z>> = G[n]
          /\ \A i \in 1 .. n : G[i] = G[i - 1] \o v[i]
          /\ \A i \in 0 .. n : G[i] \in {<<>>, <<z>>}
    BY FlattenSingle
  <1>2. PICK H \in [0 .. n -> Seq(S)] :
          /\ H[0] = <<>> /\ FlattenSeq(w) = H[n]
          /\ \A i \in 1 .. n : H[i] = H[i - 1] \o w[i]
    <2>1. Len(w) = n
      BY <1>0
    <2>2. \E H \in [0 .. Len(w) -> Seq(S)] :
            /\ H[0] = <<>> /\ FlattenSeq(w) = H[Len(w)]
            /\ \A i \in 1 .. Len(w) : H[i] = H[i - 1] \o w[i]
      BY FlattenSteps
    <2>3. QED
      BY <2>1, <2>2
  <1> HIDE DEF n
  <1> DEFINE U == {i \in 0 .. n : H[i] = IF G[i] = <<>> THEN <<>> ELSE new}
  <1> HIDE DEF U
  <1>4. 0 .. n \subseteq U
    <2>1. 0 \in U
      BY <1>0, <1>1, <1>2 DEF U
    <2>2. ASSUME NEW m \in 0 .. n, m < n, m \in U PROVE m + 1 \in U
      <3>1. m + 1 \in 1 .. n /\ m + 1 \in 0 .. n /\ (m + 1) - 1 = m
        BY <1>0, <2>2
      <3>2. /\ G[m + 1] = G[m] \o v[m + 1] /\ G[m] \in Seq(S) /\ v[m + 1] \in Seq(S)
            /\ H[m + 1] = H[m] \o w[m + 1] /\ H[m] \in Seq(S)
        BY <1>0, <1>1, <1>2, <3>1
      <3>3. G[m + 1] \in {<<>>, <<z>>}
        BY <1>1, <3>1
      <3>4. H[m] = IF G[m] = <<>> THEN <<>> ELSE new
        BY <2>2, Zenon DEF U
      <3>5. /\ v[m + 1] = <<>> => w[m + 1] = <<>>
            /\ v[m + 1] = <<z>> => w[m + 1] = new
        BY <1>0, <3>1
      <3>6. H[m + 1] = IF G[m + 1] = <<>> THEN <<>> ELSE new
        <4>0. <<z>> # <<>> /\ <<>> \in Seq(S) /\ <<>> \o new = new /\ new \o <<>> = new
              /\ <<>> \o <<>> = <<>>
          BY EmptySeq, ConcatEmptySeq
        <4>1. CASE G[m + 1] = <<>>
          <5>1. G[m] = <<>> /\ v[m + 1] = <<>>
            BY <1>c, <3>2, <4>1
          <5>2. QED
            BY <3>2, <3>4, <3>5, <4>0, <4>1, <5>1
        <4>2. CASE G[m + 1] = <<z>>
          <5>1. \/ G[m] = <<>> /\ v[m + 1] = <<z>>
                \/ G[m] = <<z>> /\ v[m + 1] = <<>>
            BY <1>c, <3>2, <4>2
          <5>2. QED
            BY <3>2, <3>4, <3>5, <4>0, <4>2, <5>1
        <4>3. QED
          BY <3>3, <4>1, <4>2
      <3>7. QED
        BY <3>1, <3>6, Zenon DEF U
    <2>3. QED
      BY <1>0, <2>1, <2>2, UpTo
  <1>5. n \in 0 .. n
    BY <1>0
  <1>6. H[n] = IF G[n] = <<>> THEN <<>> ELSE new
    BY <1>4, <1>5, Zenon DEF U
  <1>7. <<z>> # <<>>
    OBVIOUS
  <1>8. QED
    BY <1>1, <1>2, <1>6, <1>7

-----------------------------------------------------------------------------
(* MapSubnets, one rule after the other.                                   *)

\* M[n] is the list after n rules.
Mapping(nat, subnets, n, M) ==
  /\ M = [i \in 0 .. n |-> M[i]] /\ M[0] = subnets
  /\ \A i \in 1 .. n : M[i] = ReplaceAll(M[i - 1], nat[i].orig, nat[i].mapped)

\* The recursive function that MapSubnets is defined by exists.
LEMMA MapExists ==
  ASSUME NEW nat, NEW subnets, NEW n \in Nat
  PROVE  \E M : Mapping(nat, subnets, n, M)
  <1> DEFINE Step(l, i) == ReplaceAll(l, nat[i].orig, nat[i].mapped)
  <1> HIDE DEF Step
  <1> DEFINE P(m) == \E g : g = [i \in 0 .. m |-> IF i = 0 THEN subnets ELSE Step(g[i - 1], i)]
             S == {m \in Nat : P(m)}
  <1>1. 0 \in S
    <2> DEFINE h == [i \in 0 .. 0 |-> subnets]
    <2>1. h = [i \in 0 .. 0 |-> IF i = 0 THEN subnets ELSE Step(h[i - 1], i)]
      OBVIOUS
    <2> HIDE DEF h
    <2>2. P(0)
      BY <2>1, Zenon
    <2> HIDE DEF P
    <2>3. QED
      BY <2>2
  <1>2. ASSUME NEW m \in Nat, m \in S PROVE m + 1 \in S
    <2>1. PICK g : g = [i \in 0 .. m |-> IF i = 0 THEN subnets ELSE Step(g[i - 1], i)]
      BY <1>2
    <2> DEFINE h == [i \in 0 .. m + 1 |-> IF i \in 0 .. m THEN g[i] ELSE Step(g[m], i)]
    <2>2. ASSUME NEW i \in 0 .. m + 1
          PROVE  h[i] = IF i = 0 THEN subnets ELSE Step(h[i - 1], i)
      <3>1. CASE i \in 0 .. m
        <4>1. h[i] = g[i]
          BY <3>1
        <4>2. g[i] = IF i = 0 THEN subnets ELSE Step(g[i - 1], i)
          BY <2>1, <3>1
        <4>3. i # 0 => h[i - 1] = g[i - 1]
          BY <3>1
        <4> HIDE DEF h
        <4>4. QED
          BY <4>1, <4>2, <4>3
      <3>2. CASE i = m + 1
        <4>1. h[i] = Step(g[m], i)
          BY <3>2
        <4>2. h[m] = g[m] /\ i # 0 /\ i - 1 = m
          BY <3>2
        <4> HIDE DEF h
        <4>3. QED
          BY <4>1, <4>2
      <3>3. QED
        BY <3>1, <3>2
    <2>3. h = [i \in 0 .. m + 1 |-> h[i]]
      OBVIOUS
    <2> HIDE DEF h
    <2>4. h = [i \in 0 .. m + 1 |-> IF i = 0 THEN subnets ELSE Step(h[i - 1], i)]
      BY <2>2, <2>3
    <2>5. P(m + 1)
      BY <2>4, Zenon
    <2> HIDE DEF P
    <2>6. QED
      BY <2>5
  <1> HIDE DEF S
  <1>3. n \in S
    BY <1>1, <1>2, NatSetInduction
  <1>4. P(n)
    BY <1>3, Zenon DEF S
  <1>5. PICK g : g = [i \in 0 .. n |-> IF i = 0 THEN subnets ELSE Step(g[i - 1], i)]
    BY <1>4
  <1>6. g = [i \in 0 .. n |-> g[i]] /\ g[0] = subnets /\ \A i \in 1 .. n : g[i] = Step(g[i - 1], i)
    <2>1. \A i \in 1 .. n : i \in 0 .. n /\ i # 0
      OBVIOUS
    <2>2. QED
      BY <1>5, <2>1
  <1>7. QED
    BY <1>6 DEF Step, Mapping

\* The elements that ReplaceAll returns.
LEMMA ReplaceEach ==
  ASSUME NEW S, NEW s \in Seq(S), NEW old, NEW new \in S
  PROVE  /\ ReplaceAll(s, old, new) \in Seq(S)
         /\ Len(ReplaceAll(s, old, new)) = Len(s)
         /\ \A j \in 1 .. Len(s) : ReplaceAll(s, old, new)[j] = IF s[j] = old THEN new ELSE s[j]
  BY DEF ReplaceAll

\* Rules between members of S
RulesOf(S) == [orig : S, mapped : S]

\* The elements of a list of rules.
LEMMA RuleElements ==
  ASSUME NEW S, NEW nat \in Seq(RulesOf(S))
  PROVE  /\ Len(nat) \in Nat /\ DOMAIN nat = 1 .. Len(nat)
         /\ \A i \in 1 .. Len(nat) : nat[i].orig \in S /\ nat[i].mapped \in S
  <1>1. \A q \in RulesOf(S) : q.orig \in S /\ q.mapped \in S
    BY DEF RulesOf
  <1>2. QED
    BY <1>1

\* MapSubnets applies one rule after the other.
LEMMA MapSteps ==
  ASSUME NEW S, NEW nat \in Seq(RulesOf(S)), NEW s \in Seq(S)
  PROVE  \E M \in [0 .. Len(nat) -> Seq(S)] :
           Mapping(nat, s, Len(nat), M) /\ MapSubnets(nat, s) = M[Len(nat)]
  <1> DEFINE n == Len(nat)
             M == CHOOSE g : g = [i \in 0 .. n |->
                    IF i = 0 THEN s ELSE ReplaceAll(g[i - 1], nat[i].orig, nat[i].mapped)]
  <1>1. n \in Nat /\ \A i \in 1 .. n : nat[i].mapped \in S
    BY RuleElements
  <1>e. \E g : g = [i \in 0 .. n |->
                    IF i = 0 THEN s ELSE ReplaceAll(g[i - 1], nat[i].orig, nat[i].mapped)]
    <2>1. PICK g : Mapping(nat, s, n, g)
      BY <1>1, MapExists
    <2> HIDE DEF n
    <2>2. ASSUME NEW i \in 0 .. n
          PROVE  g[i] = IF i = 0 THEN s ELSE ReplaceAll(g[i - 1], nat[i].orig, nat[i].mapped)
      <3>1. CASE i = 0
        BY <2>1, <3>1 DEF Mapping
      <3>2. CASE i # 0
        <4>1. i \in 1 .. n
          BY <1>1, <3>2
        <4>2. QED
          BY <2>1, <3>2, <4>1 DEF Mapping
      <3>3. QED
        BY <3>1, <3>2
    <2>3. g = [i \in 0 .. n |-> g[i]]
      BY <2>1 DEF Mapping
    <2>4. QED
      BY <2>2, <2>3
  <1>2. M = [i \in 0 .. n |->
               IF i = 0 THEN s ELSE ReplaceAll(M[i - 1], nat[i].orig, nat[i].mapped)]
    BY <1>e, Zenon
  <1>3. MapSubnets(nat, s) = M[n]
    BY DEF MapSubnets
  <1> HIDE DEF M, n
  <1>4. DOMAIN M = 0 .. n /\ M = [i \in 0 .. n |-> M[i]] /\ M[0] = s
    BY <1>1, <1>2
  <1>5. ASSUME NEW i \in 1 .. n
        PROVE  M[i] = ReplaceAll(M[i - 1], nat[i].orig, nat[i].mapped)
    <2>1. i \in 0 .. n /\ i # 0
      BY <1>1
    <2>2. QED
      BY <1>2, <2>1
  <1> DEFINE T == {i \in 0 .. n : M[i] \in Seq(S)}
  <1> HIDE DEF T
  <1>6. 0 .. n \subseteq T
    <2>1. 0 \in T
      BY <1>1, <1>4 DEF T
    <2>2. ASSUME NEW m \in 0 .. n, m < n, m \in T PROVE m + 1 \in T
      <3>1. m + 1 \in 1 .. n /\ (m + 1) - 1 = m /\ m + 1 \in 0 .. n
        BY <1>1, <2>2
      <3>2. M[m + 1] = ReplaceAll(M[m], nat[m + 1].orig, nat[m + 1].mapped)
        BY <1>5, <3>1
      <3>3. M[m] \in Seq(S) /\ nat[m + 1].mapped \in S
        BY <1>1, <2>2, <3>1 DEF T
      <3>4. ReplaceAll(M[m], nat[m + 1].orig, nat[m + 1].mapped) \in Seq(S)
        BY <3>3, ReplaceEach
      <3>5. QED
        BY <3>1, <3>2, <3>4, Zenon DEF T
    <2>3. QED
      BY <1>1, <2>1, <2>2, UpTo
  <1>7. \A i \in 0 .. n : M[i] \in Seq(S)
    BY <1>6, Zenon DEF T
  <1>8. M \in [0 .. n -> Seq(S)]
    BY <1>4, <1>7
  <1>9. QED
    BY <1>3, <1>4, <1>5, <1>8 DEF n, Mapping

\* MapSubnets maps each subnet by itself: the route daemon, which maps one
\* list, and the VPN pod, which maps another, agree on a subnet of both.
LEMMA MapEach ==
  ASSUME NEW S, NEW nat \in Seq(RulesOf(S)), NEW s \in Seq(S)
  PROVE  /\ MapSubnets(nat, s) \in Seq(S) /\ Len(MapSubnets(nat, s)) = Len(s)
         /\ \A j \in 1 .. Len(s) : MapSubnets(nat, s)[j] = MapSubnets(nat, <<s[j]>>)[1]
  <1> DEFINE n == Len(nat)
  <1>0. n \in Nat /\ \A i \in 1 .. n : nat[i].mapped \in S
    BY RuleElements
  <1>m. PICK M \in [0 .. n -> Seq(S)] : Mapping(nat, s, n, M) /\ MapSubnets(nat, s) = M[n]
    BY MapSteps
  <1>1. /\ M[0] = s
        /\ \A i \in 1 .. n : M[i] = ReplaceAll(M[i - 1], nat[i].orig, nat[i].mapped)
    BY <1>m DEF Mapping
  <1> HIDE DEF n
  <1> DEFINE T == {i \in 0 .. n : Len(M[i]) = Len(s)}
  <1> HIDE DEF T
  <1>2. 0 .. n \subseteq T
    <2>1. 0 \in T
      BY <1>0, <1>1 DEF T
    <2>2. ASSUME NEW m \in 0 .. n, m < n, m \in T PROVE m + 1 \in T
      <3>1. m + 1 \in 1 .. n /\ (m + 1) - 1 = m /\ m + 1 \in 0 .. n
        BY <1>0, <2>2
      <3>2. M[m + 1] = ReplaceAll(M[m], nat[m + 1].orig, nat[m + 1].mapped)
        BY <1>1, <3>1
      <3>3. M[m] \in Seq(S) /\ nat[m + 1].mapped \in S
        BY <1>0, <1>1, <3>1
      <3>4. Len(M[m + 1]) = Len(M[m])
        BY <3>2, <3>3, ReplaceEach
      <3>5. QED
        BY <2>2, <3>1, <3>4 DEF T
    <2>3. QED
      BY <1>0, <2>1, <2>2, UpTo
  <1>3. \A i \in 0 .. n : Len(M[i]) = Len(s)
    BY <1>2 DEF T
  <1>4. ASSUME NEW j \in 1 .. Len(s)
        PROVE  MapSubnets(nat, s)[j] = MapSubnets(nat, <<s[j]>>)[1]
    <2>1. <<s[j]>> \in Seq(S) /\ Len(<<s[j]>>) = 1
      OBVIOUS
    <2>m. PICK N \in [0 .. n -> Seq(S)] :
            Mapping(nat, <<s[j]>>, n, N) /\ MapSubnets(nat, <<s[j]>>) = N[n]
      BY <2>1, MapSteps DEF n
    <2>2. /\ N[0] = <<s[j]>>
          /\ \A i \in 1 .. n : N[i] = ReplaceAll(N[i - 1], nat[i].orig, nat[i].mapped)
      BY <2>m DEF Mapping
    <2> DEFINE U == {i \in 0 .. n : Len(N[i]) = 1 /\ N[i][1] = M[i][j]}
    <2> HIDE DEF U
    <2>3. 0 .. n \subseteq U
      <3>1. 0 \in U
        <4>1. 0 \in 0 .. n /\ Len(N[0]) = 1 /\ N[0][1] = M[0][j]
          BY <1>0, <1>1, <2>1, <2>2
        <4>2. QED
          BY <4>1 DEF U
      <3>2. ASSUME NEW m \in 0 .. n, m < n, m \in U PROVE m + 1 \in U
        <4>1. m + 1 \in 1 .. n /\ (m + 1) - 1 = m /\ m + 1 \in 0 .. n
          BY <1>0, <3>2
        <4>2. /\ M[m + 1] = ReplaceAll(M[m], nat[m + 1].orig, nat[m + 1].mapped)
              /\ N[m + 1] = ReplaceAll(N[m], nat[m + 1].orig, nat[m + 1].mapped)
          BY <1>1, <2>2, <4>1
        <4>3. /\ M[m] \in Seq(S) /\ N[m] \in Seq(S) /\ nat[m + 1].mapped \in S
              /\ Len(M[m]) = Len(s)
          BY <1>0, <1>1, <1>3, <2>2, <4>1
        <4>4. Len(N[m]) = 1 /\ N[m][1] = M[m][j]
          BY <3>2 DEF U
        <4>5. M[m + 1][j] = IF M[m][j] = nat[m + 1].orig THEN nat[m + 1].mapped ELSE M[m][j]
          BY <4>2, <4>3, ReplaceEach
        <4>6. /\ Len(N[m + 1]) = 1
              /\ N[m + 1][1] = IF N[m][1] = nat[m + 1].orig THEN nat[m + 1].mapped ELSE N[m][1]
          <5>1. 1 \in 1 .. Len(N[m])
            BY <4>4
          <5>2. /\ Len(N[m + 1]) = Len(N[m])
                /\ \A k \in 1 .. Len(N[m]) :
                     N[m + 1][k] = IF N[m][k] = nat[m + 1].orig THEN nat[m + 1].mapped ELSE N[m][k]
            BY <4>2, <4>3, ReplaceEach
          <5>3. QED
            BY <4>4, <5>1, <5>2
        <4>7. QED
          BY <4>1, <4>4, <4>5, <4>6 DEF U
      <3>3. QED
        BY <1>0, <3>1, <3>2, UpTo
    <2>4. N[n][1] = M[n][j]
      BY <1>0, <2>3 DEF U
    <2>5. QED
      BY <1>m, <2>m, <2>4
  <1>5. MapSubnets(nat, s) \in Seq(S) /\ Len(MapSubnets(nat, s)) = Len(s)
    BY <1>0, <1>m, <1>3
  <1>6. QED
    BY <1>4, <1>5

\* Rules that do not chain or compete: a subnet is mapped by its rule, if it
\* has one.
LEMMA MapPlain ==
  ASSUME NEW S, NEW nat \in Seq(RulesOf(S)), NEW r \in S,
         \A i, j \in 1 .. Len(nat) : /\ nat[i].orig = nat[j].orig => nat[i] = nat[j]
                                     /\ nat[i].orig = r => nat[j].orig # nat[i].mapped
  PROVE  /\ \A i \in 1 .. Len(nat) : nat[i].orig = r => MapSubnets(nat, <<r>>)[1] = nat[i].mapped
         /\ (\A i \in 1 .. Len(nat) : nat[i].orig # r) => MapSubnets(nat, <<r>>)[1] = r
  <1> DEFINE n == Len(nat)
             Rule(i) == nat[i].orig = r
  <1>0. n \in Nat /\ \A i \in 1 .. n : nat[i].mapped \in S
    BY RuleElements
  <1>s. <<r>> \in Seq(S)
    OBVIOUS
  <1>1. PICK M \in [0 .. n -> Seq(S)] : Mapping(nat, <<r>>, n, M) /\ MapSubnets(nat, <<r>>) = M[n]
    BY <1>s, MapSteps
  <1>2. /\ M[0] = <<r>>
        /\ \A i \in 1 .. n : M[i] = ReplaceAll(M[i - 1], nat[i].orig, nat[i].mapped)
    BY <1>1 DEF Mapping
  <1>3. \A i, j \in 1 .. n : /\ nat[i].orig = nat[j].orig => nat[i] = nat[j]
                             /\ nat[i].orig = r => nat[j].orig # nat[i].mapped
    OBVIOUS
  <1> HIDE DEF n
  <1> DEFINE P(m) == /\ Len(M[m]) = 1
                     /\ \/ M[m][1] = r /\ \A i \in 1 .. m : nat[i].orig # r
                        \/ \E i \in 1 .. m : nat[i].orig = r /\ M[m][1] = nat[i].mapped
             T == {m \in 0 .. n : P(m)}
  <1> HIDE DEF T
  <1>4. 0 .. n \subseteq T
    <2>1. 0 \in T
      <3>1. P(0)
        BY <1>2
      <3> HIDE DEF P
      <3>2. QED
        BY <1>0, <3>1 DEF T
    <2>2. ASSUME NEW m \in 0 .. n, m < n, m \in T PROVE m + 1 \in T
      <3>1. m + 1 \in 1 .. n /\ (m + 1) - 1 = m /\ m + 1 \in 0 .. n /\ m \in Nat
        BY <1>0, <2>2
      <3>2. M[m + 1] = ReplaceAll(M[m], nat[m + 1].orig, nat[m + 1].mapped)
        BY <1>2, <3>1
      <3>3. M[m] \in Seq(S) /\ nat[m + 1].mapped \in S /\ P(m)
        BY <1>0, <2>2, <3>1 DEF T
      <3>4. /\ Len(M[m + 1]) = Len(M[m])
            /\ \A k \in 1 .. Len(M[m]) :
                 M[m + 1][k] = IF M[m][k] = nat[m + 1].orig THEN nat[m + 1].mapped ELSE M[m][k]
        BY <3>2, <3>3, ReplaceEach
      <3>5. /\ Len(M[m + 1]) = 1
            /\ M[m + 1][1] = IF M[m][1] = nat[m + 1].orig THEN nat[m + 1].mapped ELSE M[m][1]
        BY <3>3, <3>4
      <3>6. \A i \in 1 .. m + 1 : i \in 1 .. m \/ i = m + 1
        BY <3>1
      <3>7. \A i \in 1 .. m : i \in 1 .. m + 1 /\ i \in 1 .. n
        BY <3>1, <1>0
      <3>8. m + 1 \in 1 .. m + 1
        BY <3>1
      <3>9. P(m + 1)
        <4>1. CASE M[m][1] = r /\ \A i \in 1 .. m : nat[i].orig # r
          <5>1. CASE nat[m + 1].orig = r
            BY <3>5, <3>8, <4>1, <5>1
          <5>2. CASE nat[m + 1].orig # r
            BY <3>5, <3>6, <4>1, <5>2
          <5>3. QED
            BY <5>1, <5>2
        <4>2. ASSUME NEW i \in 1 .. m, nat[i].orig = r /\ M[m][1] = nat[i].mapped
              PROVE  P(m + 1)
          <5>1. nat[m + 1].orig # nat[i].mapped
            BY <1>3, <3>1, <3>7, <4>2
          <5>2. M[m + 1][1] = nat[i].mapped /\ i \in 1 .. m + 1
            BY <3>5, <3>7, <4>2, <5>1
          <5>3. QED
            BY <3>5, <4>2, <5>2
        <4>3. QED
          BY <3>3, <4>1, <4>2
      <3> HIDE DEF P
      <3>10. QED
        BY <3>1, <3>9 DEF T
    <2>3. QED
      BY <1>0, <2>1, <2>2, UpTo
  <1>5. P(n)
    BY <1>0, <1>4 DEF T
  <1>6. QED
    BY <1>1, <1>3, <1>5 DEF n

-----------------------------------------------------------------------------
(* The choice of a rule, by iptables and by OriginalSubnets.               *)

\* A set of numbers up to n that is not empty has a greatest element.
LEMMA GreatestOf ==
  ASSUME NEW n \in Nat, NEW I \in SUBSET (1 .. n), I # {}
  PROVE  Max(I) \in I
  <1> DEFINE J == {n - i : i \in I}
  <1>1. J \in SUBSET Nat /\ J # {}
    <2>1. \A i \in I : n - i \in Nat
      OBVIOUS
    <2>2. QED
      BY <2>1
  <1>2. Min(J) \in J /\ \A j \in J : Min(J) <= j
    BY <1>1, LeastOf, Zenon
  <1>3. PICK x \in I : Min(J) = n - x
    BY <1>2
  <1>4. \A y \in I : n - x <= n - y
    BY <1>2, <1>3
  <1>5. \A y \in I : x >= y
    BY <1>4
  <1>6. QED
    BY <1>5 DEF Max

\* A packet leaves a chain with the address that all rules that match it
\* agree on, or with its own if there is none.
LEMMA MatchFound ==
  ASSUME NEW rules, Len(rules) \in Nat, DOMAIN rules = 1 .. Len(rules), NEW chain, NEW packet
  PROVE  LET i == FirstMatch(rules, chain, packet) IN
         \/ i = 0 /\ \A rule \in ToSet(rules) : ~(rule.chain = chain /\ Matches(rule, packet))
         \/ /\ i # 0 /\ rules[i] \in ToSet(rules)
            /\ rules[i].chain = chain /\ Matches(rules[i], packet)
  <1> DEFINE I == {i \in 1 .. Len(rules) : rules[i].chain = chain /\ Matches(rules[i], packet)}
  <1>1. FirstMatch(rules, chain, packet) = IF I # {} THEN Min(I) ELSE 0
    BY DEF FirstMatch, SelectInSeq
  <1>2. CASE I = {}
    <2>1. \A rule \in ToSet(rules) : ~(rule.chain = chain /\ Matches(rule, packet))
      BY <1>2 DEF ToSet
    <2>2. QED
      BY <1>1, <1>2, <2>1
  <1>3. CASE I # {}
    <2>1. I \in SUBSET Nat
      OBVIOUS
    <2>2. Min(I) \in I
      BY <1>3, <2>1, LeastOf, Zenon
    <2>3. \A i \in I : /\ i # 0 /\ rules[i] \in ToSet(rules)
                      /\ rules[i].chain = chain /\ Matches(rules[i], packet)
      BY DEF ToSet
    <2> HIDE DEF I
    <2>4. QED
      BY <1>1, <1>3, <2>2, <2>3
  <1>4. QED
    BY <1>2, <1>3

\* So it is for the destination, before routing.
LEMMA PreroutedTo ==
  ASSUME NEW rules, Len(rules) \in Nat, DOMAIN rules = 1 .. Len(rules),
         NEW src, NEW dst, NEW to,
         \A rule \in ToSet(rules) :
           rule.chain = "PREROUTING" /\ Matches(rule, [src |-> src, dst |-> dst]) => rule.to = to,
         to = dst \/ \E rule \in ToSet(rules) :
           rule.chain = "PREROUTING" /\ Matches(rule, [src |-> src, dst |-> dst])
  PROVE  Prerouted(rules, [src |-> src, dst |-> dst]) = [src |-> src, dst |-> to]
  <1> DEFINE packet == [src |-> src, dst |-> dst]
             i == FirstMatch(rules, "PREROUTING", packet)
  <1>1. \/ i = 0 /\ \A rule \in ToSet(rules) : ~(rule.chain = "PREROUTING" /\ Matches(rule, packet))
        \/ /\ i # 0 /\ rules[i] \in ToSet(rules)
           /\ rules[i].chain = "PREROUTING" /\ Matches(rules[i], packet)
    BY MatchFound
  <1>2. Prerouted(rules, packet) = IF i = 0 THEN packet ELSE [packet EXCEPT !.dst = rules[i].to]
    BY DEF Prerouted
  <1> HIDE DEF i
  <1>3. CASE i = 0
    BY <1>1, <1>2, <1>3
  <1>4. CASE i # 0
    <2>1. rules[i].to = to
      BY <1>1, <1>4
    <2>2. QED
      BY <1>2, <1>4, <2>1
  <1>5. QED
    BY <1>3, <1>4

\* So it is for the source, after routing.
LEMMA PostroutedTo ==
  ASSUME NEW rules, Len(rules) \in Nat, DOMAIN rules = 1 .. Len(rules),
         NEW src, NEW dst, NEW to,
         \A rule \in ToSet(rules) :
           rule.chain = "POSTROUTING" /\ Matches(rule, [src |-> src, dst |-> dst]) => rule.to = to,
         to = src \/ \E rule \in ToSet(rules) :
           rule.chain = "POSTROUTING" /\ Matches(rule, [src |-> src, dst |-> dst])
  PROVE  Postrouted(rules, [src |-> src, dst |-> dst]) = [src |-> to, dst |-> dst]
  <1> DEFINE packet == [src |-> src, dst |-> dst]
             i == FirstMatch(rules, "POSTROUTING", packet)
  <1>1. \/ i = 0 /\ \A rule \in ToSet(rules) : ~(rule.chain = "POSTROUTING" /\ Matches(rule, packet))
        \/ /\ i # 0 /\ rules[i] \in ToSet(rules)
           /\ rules[i].chain = "POSTROUTING" /\ Matches(rules[i], packet)
    BY MatchFound
  <1>2. Postrouted(rules, packet) = IF i = 0 THEN packet ELSE [packet EXCEPT !.src = rules[i].to]
    BY DEF Postrouted
  <1> HIDE DEF i
  <1>3. CASE i = 0
    BY <1>1, <1>2, <1>3
  <1>4. CASE i # 0
    <2>1. rules[i].to = to
      BY <1>1, <1>4
    <2>2. QED
      BY <1>2, <1>4, <2>1
  <1>5. QED
    BY <1>3, <1>4

-----------------------------------------------------------------------------
(* The iptables rules that are made.                                       *)

\* Rules of iptables between members of S
IpTablesRules(S) == [chain : {"PREROUTING", "POSTROUTING"}, src : S, dst : S, to : S]

\* Rules made for one subject, or the other way round
Forth(q, s) == IpTablesRule("POSTROUTING", q.orig, s, q.mapped)
Back(q, s) == IpTablesRule("PREROUTING", s, q.mapped, q.orig)
OneWay(q) == Size[q.orig] # 1 /\ Size[q.mapped] = 1

\* A rule gives one rule of iptables, or two.
LEMMA SubnetRulesSet ==
  ASSUME NEW S, NEW q \in RulesOf(S), NEW s \in S
  PROVE  /\ SubnetRules(q, s) \in Seq(IpTablesRules(S))
         /\ \A rule : rule \in ToSet(SubnetRules(q, s)) <=>
                        rule = Forth(q, s) \/ (rule = Back(q, s) /\ ~OneWay(q))
  <1>1. q.orig \in S /\ q.mapped \in S
    BY DEF RulesOf
  <1>2. Forth(q, s) \in IpTablesRules(S) /\ Back(q, s) \in IpTablesRules(S)
    BY <1>1 DEF Forth, Back, IpTablesRule, IpTablesRules
  <1>3. SubnetRules(q, s) = IF OneWay(q) THEN <<Forth(q, s)>> ELSE <<Forth(q, s), Back(q, s)>>
    BY DEF SubnetRules, Forth, Back, OneWay
  <1>4. CASE OneWay(q)
    <2>1. DOMAIN <<Forth(q, s)>> = {1}
      OBVIOUS
    <2>2. QED
      BY <1>2, <1>3, <1>4, <2>1 DEF ToSet
  <1>5. CASE ~OneWay(q)
    <2>1. DOMAIN <<Forth(q, s), Back(q, s)>> = {1, 2}
      OBVIOUS
    <2>2. QED
      BY <1>2, <1>3, <1>5, <2>1 DEF ToSet
  <1>6. QED
    BY <1>4, <1>5

\* ConfigureSubnetNAT: the rules are those of each pair of a rule and a subject.
LEMMA ConfigureSet ==
  ASSUME NEW S, NEW nat \in Seq(RulesOf(S)), NEW subjects \in Seq(S)
  PROVE  /\ ConfigureSubnetNAT(nat, subjects) \in Seq(IpTablesRules(S))
         /\ \A rule : rule \in ToSet(ConfigureSubnetNAT(nat, subjects)) <=>
              \E q \in ToSet(nat), s \in ToSet(subjects) :
                rule = Forth(q, s) \/ (rule = Back(q, s) /\ ~OneWay(q))
  <1> DEFINE R == IpTablesRules(S)
             Lists(s) == [j \in DOMAIN nat |-> SubnetRules(nat[j], s)]
             All == [i \in DOMAIN subjects |-> FlattenSeq(Lists(subjects[i]))]
  <1>1. /\ Len(nat) \in Nat /\ DOMAIN nat = 1 .. Len(nat)
        /\ \A j \in 1 .. Len(nat) : nat[j] \in RulesOf(S)
    OBVIOUS
  <1>2. /\ Len(subjects) \in Nat /\ DOMAIN subjects = 1 .. Len(subjects)
        /\ \A i \in 1 .. Len(subjects) : subjects[i] \in S
    OBVIOUS
  <1> HIDE DEF R
  <1>3. ASSUME NEW s \in S
        PROVE  /\ FlattenSeq(Lists(s)) \in Seq(R)
               /\ ToSet(FlattenSeq(Lists(s))) = UNION {ToSet(SubnetRules(nat[j], s)) : j \in 1 .. Len(nat)}
    <2>1. \A j \in 1 .. Len(nat) : SubnetRules(nat[j], s) \in Seq(R)
      BY <1>1, SubnetRulesSet DEF R
    <2>2. /\ Lists(s) \in Seq(Seq(R)) /\ Len(Lists(s)) = Len(nat)
          /\ \A j \in 1 .. Len(nat) : Lists(s)[j] = SubnetRules(nat[j], s)
      BY <1>1, <2>1
    <2> HIDE DEF Lists
    <2>3. FlattenSeq(Lists(s)) \in Seq(R)
      BY <2>2, FlattenType
    <2>4. ToSet(FlattenSeq(Lists(s))) = UNION {ToSet(Lists(s)[j]) : j \in 1 .. Len(Lists(s))}
      BY <2>2, FlattenRange
    <2>5. QED
      BY <2>2, <2>3, <2>4
  <1>4. /\ All \in Seq(Seq(R)) /\ Len(All) = Len(subjects)
        /\ \A i \in 1 .. Len(subjects) : All[i] = FlattenSeq(Lists(subjects[i]))
    <2>1. \A i \in 1 .. Len(subjects) : FlattenSeq(Lists(subjects[i])) \in Seq(R)
      BY <1>2, <1>3
    <2> HIDE DEF Lists
    <2>2. QED
      BY <1>2, <2>1
  <1>5. ConfigureSubnetNAT(nat, subjects) = FlattenSeq(All)
    BY DEF ConfigureSubnetNAT
  <1> HIDE DEF All, Lists
  <1>6. FlattenSeq(All) \in Seq(R)
    BY <1>4, FlattenType
  <1>7. ToSet(FlattenSeq(All)) = UNION {ToSet(All[i]) : i \in 1 .. Len(All)}
    BY <1>4, FlattenRange
  <1>8. ASSUME NEW rule
        PROVE  rule \in ToSet(FlattenSeq(All)) <=>
                 \E i \in 1 .. Len(subjects), j \in 1 .. Len(nat) :
                   rule \in ToSet(SubnetRules(nat[j], subjects[i]))
    <2>1. rule \in ToSet(FlattenSeq(All)) <=>
            \E i \in 1 .. Len(subjects) : rule \in ToSet(All[i])
      BY <1>4, <1>7
    <2>2. ASSUME NEW i \in 1 .. Len(subjects)
          PROVE  rule \in ToSet(All[i]) <=>
                   \E j \in 1 .. Len(nat) : rule \in ToSet(SubnetRules(nat[j], subjects[i]))
      <3>1. ToSet(All[i]) = UNION {ToSet(SubnetRules(nat[j], subjects[i])) : j \in 1 .. Len(nat)}
        BY <1>2, <1>3, <1>4
      <3>2. QED
        BY <3>1
    <2>3. QED
      BY <2>1, <2>2, Zenon
  <1>9. ASSUME NEW rule
        PROVE  rule \in ToSet(FlattenSeq(All)) <=>
                 \E i \in 1 .. Len(subjects), j \in 1 .. Len(nat) :
                   \/ rule = Forth(nat[j], subjects[i])
                   \/ rule = Back(nat[j], subjects[i]) /\ ~OneWay(nat[j])
    BY <1>1, <1>2, <1>8, SubnetRulesSet
  <1>10. /\ \A q : q \in ToSet(nat) <=> \E j \in 1 .. Len(nat) : q = nat[j]
         /\ \A s : s \in ToSet(subjects) <=> \E i \in 1 .. Len(subjects) : s = subjects[i]
    BY <1>1, <1>2 DEF ToSet
  <1>11. ConfigureSubnetNAT(nat, subjects) \in Seq(IpTablesRules(S))
    BY <1>5, <1>6 DEF R
  <1>12. ASSUME NEW rule
         PROVE  rule \in ToSet(FlattenSeq(All)) <=>
                  \E q \in ToSet(nat), s \in ToSet(subjects) :
                    rule = Forth(q, s) \/ (rule = Back(q, s) /\ ~OneWay(q))
    <2> DEFINE Made(q, s) == rule = Forth(q, s) \/ (rule = Back(q, s) /\ ~OneWay(q))
    <2>1. rule \in ToSet(FlattenSeq(All)) <=>
            \E i \in 1 .. Len(subjects), j \in 1 .. Len(nat) : Made(nat[j], subjects[i])
      BY <1>9
    <2> HIDE DEF Made
    <2>2. (\E i \in 1 .. Len(subjects), j \in 1 .. Len(nat) : Made(nat[j], subjects[i]))
            <=> \E q \in ToSet(nat), s \in ToSet(subjects) : Made(q, s)
      <3>1. ASSUME NEW i \in 1 .. Len(subjects), NEW j \in 1 .. Len(nat),
                   Made(nat[j], subjects[i])
            PROVE  \E q \in ToSet(nat), s \in ToSet(subjects) : Made(q, s)
        <4>1. nat[j] \in ToSet(nat) /\ subjects[i] \in ToSet(subjects)
          BY <1>10
        <4>2. QED
          BY <3>1, <4>1
      <3>2. ASSUME NEW q \in ToSet(nat), NEW s \in ToSet(subjects), Made(q, s)
            PROVE  \E i \in 1 .. Len(subjects), j \in 1 .. Len(nat) : Made(nat[j], subjects[i])
        <4>1. PICK j \in 1 .. Len(nat) : q = nat[j]
          BY <1>10
        <4>2. PICK i \in 1 .. Len(subjects) : s = subjects[i]
          BY <1>10
        <4>3. QED
          BY <3>2, <4>1, <4>2
      <3>3. QED
        BY <3>1, <3>2
    <2>3. QED
      BY <2>1, <2>2 DEF Made
  <1>13. QED
    BY <1>5, <1>11, <1>12

\* ConfigureSingleSourceIP: rules for traffic from everywhere, to the one address.
LEMMA SingleSet ==
  ASSUME NEW S, Everywhere \in S, NEW left \in Seq(S), NEW right \in Seq(S)
  PROVE  /\ ConfigureSingleSourceIP(left, right) \in Seq(IpTablesRules(S))
         /\ \A rule \in ToSet(ConfigureSingleSourceIP(left, right)) :
              rule.chain = "POSTROUTING" /\ Len(left) = 1 /\ rule.to = left[1]
  <1> DEFINE made == [i \in DOMAIN right |-> IpTablesRule("POSTROUTING", Everywhere, right[i], left[1])]
  <1>1. /\ Len(right) \in Nat /\ DOMAIN right = 1 .. Len(right)
        /\ \A i \in 1 .. Len(right) : right[i] \in S
    OBVIOUS
  <1>2. CASE ConfigureSingleSourceIP(left, right) = made /\ Len(left) = 1
    <2>1. left[1] \in S
      <3>1. 1 \in 1 .. Len(left)
        BY <1>2
      <3>2. QED
        BY <3>1, ElementOfSeq
    <2>2. \A i \in 1 .. Len(right) :
            IpTablesRule("POSTROUTING", Everywhere, right[i], left[1]) \in IpTablesRules(S)
      BY <1>1, <2>1 DEF IpTablesRule, IpTablesRules
    <2>3. made \in Seq(IpTablesRules(S))
      BY <1>1, <2>2
    <2>4. \A rule \in ToSet(made) : rule.chain = "POSTROUTING" /\ rule.to = left[1]
      BY <1>1 DEF ToSet, IpTablesRule
    <2>5. QED
      BY <1>2, <2>3, <2>4
  <1>3. CASE ConfigureSingleSourceIP(left, right) = <<>>
    BY <1>3 DEF ToSet
  <1>4. QED
    BY <1>2, <1>3 DEF ConfigureSingleSourceIP

\* OriginalSubnets returns a list of subnets.
LEMMA OriginalType ==
  ASSUME NEW S, NEW nat \in Seq(RulesOf(S)), NEW left \in Seq(S)
  PROVE  OriginalSubnets(nat, left) \in Seq(S)
  <1> DEFINE Listed(rule) == Contains(left, rule.mapped)
             lists == [i \in DOMAIN nat |-> IF Listed(nat[i]) THEN <<>> ELSE <<nat[i].orig>>]
             last == SelectLastInSeq(nat, Listed)
             rest == IF last = 0 THEN left ELSE ReplaceAll(left, nat[last].mapped, nat[last].orig)
  <1>1. /\ Len(nat) \in Nat /\ DOMAIN nat = 1 .. Len(nat)
        /\ \A i \in 1 .. Len(nat) : nat[i].orig \in S
    BY RuleElements
  <1>2. FlattenSeq(lists) \in Seq(S)
    <2>1. \A i \in 1 .. Len(nat) : (IF Listed(nat[i]) THEN <<>> ELSE <<nat[i].orig>>) \in Seq(S)
      BY <1>1
    <2> HIDE DEF Listed
    <2>2. lists \in Seq(Seq(S))
      BY <1>1, <2>1
    <2> HIDE DEF lists
    <2>3. QED
      BY <2>2, FlattenType
  <1>3. rest \in Seq(S)
    <2> DEFINE I == {i \in 1 .. Len(nat) : Listed(nat[i])}
    <2>1. last = IF I # {} THEN Max(I) ELSE 0
      BY DEF SelectLastInSeq
    <2>2. I # {} => Max(I) \in I
      BY <1>1, GreatestOf
    <2>3. last = 0 \/ last \in 1 .. Len(nat)
      BY <2>1, <2>2
    <2> HIDE DEF last
    <2>4. last = 0 \/ nat[last].orig \in S
      BY <1>1, <2>3
    <2>5. QED
      BY <2>4, ReplaceEach
  <1>4. OriginalSubnets(nat, left) = FlattenSeq(lists) \o rest
    BY DEF OriginalSubnets
  <1> HIDE DEF lists, rest
  <1>5. QED
    BY <1>2, <1>3, <1>4, ConcatProperties

\* With one rule, to a subnet of the list, that one is translated back.
LEMMA OriginalSet ==
  ASSUME NEW S, NEW q \in RulesOf(S), NEW left \in Seq(S), q.mapped \in ToSet(left)
  PROVE  ToSet(OriginalSubnets(<<q>>, left)) =
           {IF l = q.mapped THEN q.orig ELSE l : l \in ToSet(left)}
  <1> DEFINE Listed(rule) == Contains(left, rule.mapped)
             lists == [i \in DOMAIN <<q>> |-> IF Listed(<<q>>[i]) THEN <<>> ELSE <<<<q>>[i].orig>>]
             last == SelectLastInSeq(<<q>>, Listed)
             rest == IF last = 0 THEN left ELSE ReplaceAll(left, <<q>>[last].mapped, <<q>>[last].orig)
  <1>1. Listed(q)
    <2>1. DOMAIN left = 1 .. Len(left)
      OBVIOUS
    <2>2. QED
      BY <2>1 DEF ToSet, Contains
  <1>2. lists = <<<<>>>>
    <2>1. DOMAIN <<q>> = 1 .. 1 /\ <<q>>[1] = q
      OBVIOUS
    <2> HIDE DEF Listed
    <2>2. QED
      BY <1>1, <2>1
  <1>3. FlattenSeq(<<<<>>>>) = <<>>
    <2> DEFINE e == <<<<>>>>
    <2>1. e \in Seq(Seq(S)) /\ Len(e) = 1 /\ e[1] = <<>>
      OBVIOUS
    <2> HIDE DEF e
    <2>2. PICK G \in [0 .. Len(e) -> Seq(S)] :
            /\ G[0] = <<>> /\ FlattenSeq(e) = G[Len(e)]
            /\ \A i \in 1 .. Len(e) : G[i] = G[i - 1] \o e[i]
      BY <2>1, FlattenSteps
    <2>3. 1 \in 1 .. Len(e) /\ 1 - 1 = 0
      BY <2>1
    <2>4. G[1] = G[0] \o <<>> /\ FlattenSeq(e) = G[1]
      BY <2>1, <2>2, <2>3
    <2>5. <<>> \o <<>> = <<>>
      BY EmptySeq, ConcatEmptySeq
    <2>6. QED
      BY <2>2, <2>4, <2>5 DEF e
  <1>4. last = 1
    <2> DEFINE I == {i \in 1 .. Len(<<q>>) : Listed(<<q>>[i])}
    <2>1. last = IF I # {} THEN Max(I) ELSE 0
      BY DEF SelectLastInSeq
    <2>2. Len(<<q>>) = 1 /\ <<q>>[1] = q
      OBVIOUS
    <2>3. I = {1}
      <3> HIDE DEF Listed
      <3>1. QED
        BY <1>1, <2>2
    <2>4. Max({1}) = 1
      <3>1. {1} \in SUBSET (1 .. 1)
        OBVIOUS
      <3>2. QED
        BY <3>1, GreatestOf
    <2>5. QED
      BY <2>1, <2>3, <2>4
  <1>5. OriginalSubnets(<<q>>, left) = FlattenSeq(lists) \o rest
    BY DEF OriginalSubnets
  <1> DEFINE swapped == ReplaceAll(left, q.mapped, q.orig)
  <1>6. rest = swapped
    BY <1>4
  <1> HIDE DEF rest, lists, last
  <1>7. /\ swapped \in Seq(S) /\ Len(swapped) = Len(left)
        /\ \A j \in 1 .. Len(left) : swapped[j] = IF left[j] = q.mapped THEN q.orig ELSE left[j]
    <2>1. q.orig \in S
      BY DEF RulesOf
    <2>2. QED
      BY <2>1, ReplaceEach
  <1> HIDE DEF swapped
  <1>8. OriginalSubnets(<<q>>, left) = swapped
    BY <1>2, <1>3, <1>5, <1>6, <1>7, ConcatEmptySeq
  <1>9. DOMAIN swapped = 1 .. Len(left) /\ DOMAIN left = 1 .. Len(left)
    BY <1>7
  <1>10. QED
    BY <1>7, <1>8, <1>9 DEF ToSet
=============================================================================
