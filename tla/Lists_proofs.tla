---------------------------- MODULE Lists_proofs ----------------------------
(* What the functions of Lists return, for sequences of any length.         *)
(* Induction goes over a set: the numbers, or the sequences, that have the  *)
(* property in question.                                                    *)
EXTENDS Lists, SequenceTheorems, WellFoundedInduction, TLAPS

-----------------------------------------------------------------------------
(* Induction.                                                               *)

\* A set that has 0 and every successor of its numbers has them all.
LEMMA NatInduces ==
    ASSUME NEW P, 0 \in P, \A n \in Nat : n \in P => n + 1 \in P
    PROVE  Nat \subseteq P
<1> SUFFICES ASSUME NEW m \in Nat, m \notin P PROVE FALSE
    OBVIOUS
<1>1. IsWellFoundedOn(OpToRel(<, Nat), Nat)
    BY NatLessThanWellFounded
<1>2. PICK n \in Nat \ P : \A k \in Nat \ P : <<k, n>> \notin OpToRel(<, Nat)
    BY <1>1, WFMin
<1>3. n \in Nat /\ n \notin P
    BY <1>2
<1>4. n # 0 /\ n - 1 \in Nat /\ n - 1 < n /\ (n - 1) + 1 = n
    BY <1>3
<1>5. <<n - 1, n>> \in OpToRel(<, Nat)
    BY <1>2, <1>4 DEF OpToRel
<1>6. n - 1 \in P
    BY <1>2, <1>4, <1>5
<1> QED BY <1>3, <1>4, <1>6

\* A set that has the empty sequence and, with a sequence, every longer by one
\* has them all.
LEMMA SeqInduces ==
    ASSUME NEW S, NEW P, <<>> \in P,
           \A s \in Seq(S), x \in S : s \in P => Append(s, x) \in P
    PROVE  Seq(S) \subseteq P
<1> DEFINE Lengths == {n \in Nat : \A s \in Seq(S) : Len(s) = n => s \in P}
<1>1. 0 \in Lengths
    BY EmptySeq
<1>2. ASSUME NEW n \in Nat, n \in Lengths
      PROVE  n + 1 \in Lengths
  <2>1. ASSUME NEW s \in Seq(S), Len(s) = n + 1
        PROVE  s \in P
    <3>1. s # <<>>
        BY <2>1
    <3>2. PICK t \in Seq(S), x \in S : s = Append(t, x)
        BY <3>1, SequenceEmptyOrAppend
    <3>3. Len(t) = n
        BY <2>1, <3>2, AppendProperties, LenProperties
    <3>4. t \in P
        BY <1>2, <3>3
    <3> QED BY <3>2, <3>4
  <2> QED BY <2>1
<1>3. Nat \subseteq Lengths
  <2> HIDE DEF Lengths
  <2> QED BY <1>1, <1>2, NatInduces
<1>4. ASSUME NEW s \in Seq(S) PROVE s \in P
    BY <1>3, LenProperties
<1> QED BY <1>4

\* A function of 0..m that starts in S and stays in S from each number to the
\* next is in S everywhere.
LEMMA StepsStay ==
    ASSUME NEW S, NEW m \in Nat, NEW f, f[0] \in S,
           \A n \in 1..m : f[n - 1] \in S => f[n] \in S
    PROVE  \A n \in 0..m : f[n] \in S
<1> DEFINE P == {n \in Nat : n <= m => f[n] \in S}
<1>1. 0 \in P
    OBVIOUS
<1>2. ASSUME NEW n \in Nat, n \in P PROVE n + 1 \in P
  <2> SUFFICES ASSUME n + 1 <= m PROVE f[n + 1] \in S
      OBVIOUS
  <2>1. n + 1 \in 1..m /\ (n + 1) - 1 = n /\ f[n] \in S
      BY <1>2
  <2> QED BY <2>1
<1>3. Nat \subseteq P
  <2> HIDE DEF P
  <2> QED BY <1>1, <1>2, NatInduces
<1> QED BY <1>3

\* The function of 0..m that starts at b and goes on by the function step.
IsRecursion(f, m, b, step) ==
    f = [n \in 0..m |-> IF n = 0 THEN b ELSE step[<<n, f[n - 1]>>]]

\* There is one, as far as step goes on within S.
LEMMA RecursionExists ==
    ASSUME NEW S, NEW b \in S, NEW m \in Nat, NEW step \in [(1..m) \X S -> S]
    PROVE  \E f \in [0..m -> S] : IsRecursion(f, m, b, step)
<1> DEFINE Rec(f, k) == f = [n \in 0..k |-> IF n = 0 THEN b ELSE step[<<n, f[n - 1]>>]]
           P == {k \in Nat : k <= m => \E f \in [0..k -> S] : Rec(f, k)}
<1>1. 0 \in P
  <2> DEFINE f == [n \in 0..0 |-> b]
  <2>1. f \in [0..0 -> S] /\ Rec(f, 0)
      OBVIOUS
  <2> QED BY <2>1
<1>2. ASSUME NEW k \in Nat, k \in P PROVE k + 1 \in P
  <2> SUFFICES ASSUME k + 1 <= m
               PROVE  \E f \in [0..k+1 -> S] : Rec(f, k + 1)
      OBVIOUS
  <2>1. PICK f \in [0..k -> S] : Rec(f, k)
      BY <1>2
  <2> DEFINE v == step[<<k + 1, f[k]>>]
             g == [n \in 0..k+1 |-> IF n = k + 1 THEN v ELSE f[n]]
             e(n) == IF n = 0 THEN b ELSE step[<<n, g[n - 1]>>]
  <2>2. k + 1 \in 1..m /\ k \in 0..k /\ f[k] \in S
      BY <2>1
  <2>3. v \in S
      BY <2>2
  <2>4. (\A n \in 0..k : g[n] = f[n]) /\ g[k + 1] = v
      OBVIOUS
  <2>5. g \in [0..k+1 -> S]
    <3> HIDE DEF v
    <3> QED BY <2>1, <2>3
  <2> HIDE DEF g, v
  <2>6. ASSUME NEW n \in 0..k+1 PROVE g[n] = e(n)
    <3>1. CASE n = k + 1
      <4>1. n # 0 /\ n - 1 = k /\ g[n - 1] = f[k]
          BY <2>4, <3>1
      <4> QED BY <2>4, <3>1, <4>1 DEF v
    <3>2. CASE n = 0
      <4>1. 0 \in 0..k
          OBVIOUS
      <4>2. f[0] = b
          BY <2>1, <4>1
      <4>3. g[0] = b
          BY <2>4, <4>1, <4>2
      <4> QED BY <3>2, <4>3
    <3>3. CASE n # 0 /\ n # k + 1
      <4>1. n \in 0..k /\ n - 1 \in 0..k
          BY <3>3
      <4>2. f[n] = step[<<n, f[n - 1]>>]
          BY <2>1, <3>3, <4>1
      <4> QED BY <2>4, <3>3, <4>1, <4>2
    <3> QED BY <3>1, <3>2, <3>3
  <2>7. g = [n \in 0..k+1 |-> e(n)]
      BY <2>5, <2>6
  <2> QED BY <2>5, <2>7
<1>3. Nat \subseteq P
  <2> HIDE DEF P
  <2> QED BY <1>1, <1>2, NatInduces
<1>4. PICK f \in [0..m -> S] : Rec(f, m)
    BY <1>3
<1>5. IsRecursion(f, m, b, step)
    BY <1>4 DEF IsRecursion
<1> QED BY <1>5

-----------------------------------------------------------------------------
(* The newest elements.                                                     *)

\* The newest n elements: how many there are, and which.
LEMMA NewestProperties ==
    ASSUME NEW S, NEW s \in Seq(S), NEW n \in Nat
    PROVE  /\ Newest(s, n) \in Seq(S)
           /\ Len(Newest(s, n)) = IF Len(s) <= n THEN Len(s) ELSE n
           /\ \A k \in 1..Len(Newest(s, n)) :
                  Newest(s, n)[k] = s[Len(s) - Len(Newest(s, n)) + k]
<1>1. Len(s) \in Nat /\ \A k \in 1..Len(s) : s[k] \in S
    BY LenProperties, ElementOfSeq
<1>2. CASE Len(s) <= n
    BY <1>1, <1>2 DEF Newest
<1>3. CASE ~(Len(s) <= n)
    <2> DEFINE m == Len(s) - n + 1
    <2>1. m \in Int /\ m \in 1..Len(s) + 1 /\ Len(s) \in Int
        BY <1>1, <1>3
    <2>2. \A i \in m..Len(s) : s[i] \in S
        BY <1>1, <2>1
    <2>3. /\ SubSeq(s, m, Len(s)) \in Seq(S)
          /\ Len(SubSeq(s, m, Len(s))) = IF m <= Len(s) THEN Len(s) - m + 1 ELSE 0
          /\ \A i \in 1..Len(s) - m + 1 : SubSeq(s, m, Len(s))[i] = s[m + i - 1]
        BY <2>1, <2>2, SubSeqProperties
    <2>4. Newest(s, n) = SubSeq(s, m, Len(s))
        BY <1>3 DEF Newest
    <2>5. Len(SubSeq(s, m, Len(s))) = n
        BY <1>1, <1>3, <2>3
    <2>6. \A k \in 1..n : SubSeq(s, m, Len(s))[k] = s[Len(s) - n + k]
        <3> SUFFICES ASSUME NEW k \in 1..n
                     PROVE  SubSeq(s, m, Len(s))[k] = s[Len(s) - n + k]
            OBVIOUS
        <3>1. Len(s) - m + 1 = n /\ m + k - 1 = Len(s) - n + k
            BY <1>1
        <3> QED BY <2>3, <3>1
    <2> QED BY <1>3, <2>3, <2>4, <2>5, <2>6
<1> QED BY <1>2, <1>3

-----------------------------------------------------------------------------
(* Filtering.                                                               *)

\* The prefixes of s without the elements of gone.
Keeps(s, gone, kept) ==
    /\ kept[0] = <<>>
    /\ \A n \in 1..Len(s) :
           kept[n] = IF s[n] \in gone THEN kept[n - 1] ELSE Append(kept[n - 1], s[n])

\* The function that Without reads its result from.
IsKept(s, gone, kept) ==
    kept = [n \in 0..Len(s) |->
                IF n = 0 THEN <<>>
                ELSE IF s[n] \in gone THEN kept[n - 1] ELSE Append(kept[n - 1], s[n])]

LEMMA KeptExists ==
    ASSUME NEW S, NEW s \in Seq(S), NEW gone
    PROVE  \E kept : IsKept(s, gone, kept)
<1> DEFINE m == Len(s)
           step == [p \in (1..m) \X Seq(S) |->
                       IF s[p[1]] \in gone THEN p[2] ELSE Append(p[2], s[p[1]])]
<1>1. m \in Nat /\ <<>> \in Seq(S)
    BY LenProperties, EmptySeq
<1>2. \A n \in 1..m, t \in Seq(S) : Append(t, s[n]) \in Seq(S)
    BY ElementOfSeq, AppendProperties
<1>3. step \in [(1..m) \X Seq(S) -> Seq(S)]
    BY <1>2
<1>4. \A n \in 1..m, t \in Seq(S) :
          step[<<n, t>>] = IF s[n] \in gone THEN t ELSE Append(t, s[n])
    OBVIOUS
<1> HIDE DEF m, step
<1>5. PICK f \in [0..m -> Seq(S)] : IsRecursion(f, m, <<>>, step)
    BY <1>1, <1>3, RecursionExists
<1> DEFINE e(n) == IF n = 0 THEN <<>>
                   ELSE IF s[n] \in gone THEN f[n - 1] ELSE Append(f[n - 1], s[n])
<1>6. ASSUME NEW n \in 0..m PROVE f[n] = e(n)
  <2>1. CASE n = 0
      BY <1>5, <2>1 DEF IsRecursion
  <2>2. CASE n # 0
    <3>1. n \in 1..m /\ n - 1 \in 0..m
        BY <1>1, <2>2
    <3>2. f[n] = step[<<n, f[n - 1]>>]
        BY <1>5, <2>2 DEF IsRecursion
    <3> QED BY <1>4, <2>2, <3>1, <3>2
  <2> QED BY <2>1, <2>2
<1>7. f = [n \in 0..m |-> e(n)]
    BY <1>6
<1> QED BY <1>7 DEF IsKept, m

LEMMA WithoutIsKept ==
    ASSUME NEW S, NEW s \in Seq(S), NEW gone
    PROVE  \E kept : Keeps(s, gone, kept) /\ Without(s, gone) = kept[Len(s)]
<1> DEFINE kept == CHOOSE f : IsKept(s, gone, f)
<1>1. Without(s, gone) = kept[Len(s)]
    BY DEF Without, IsKept
<1>2. IsKept(s, gone, kept)
    BY KeptExists
<1> HIDE DEF kept
<1>5. Len(s) \in Nat
    BY LenProperties
<1>6. Keeps(s, gone, kept)
  <2>1. \A n \in 0..Len(s) : kept[n] = IF n = 0 THEN <<>>
            ELSE IF s[n] \in gone THEN kept[n - 1] ELSE Append(kept[n - 1], s[n])
      BY <1>2 DEF IsKept
  <2> QED BY <2>1, <1>5 DEF Keeps
<1> QED BY <1>1, <1>6

\* What is kept of a prefix depends on nothing behind it.
LEMMA KeptOfPrefix ==
    ASSUME NEW s, NEW t, NEW gone, NEW f, NEW g, NEW m \in Nat,
           Len(s) \in Nat, Len(t) \in Nat, m <= Len(s), m <= Len(t),
           \A n \in 1..m : s[n] = t[n], Keeps(s, gone, f), Keeps(t, gone, g)
    PROVE  f[m] = g[m]
<1> DEFINE Same == {n \in Nat : n <= m => f[n] = g[n]}
<1>1. 0 \in Same
    BY DEF Keeps
<1>2. ASSUME NEW n \in Nat, n \in Same PROVE n + 1 \in Same
  <2> SUFFICES ASSUME n + 1 <= m PROVE f[n + 1] = g[n + 1]
      OBVIOUS
  <2>1. n + 1 \in 1..Len(s) /\ n + 1 \in 1..Len(t) /\ n + 1 \in 1..m /\ (n + 1) - 1 = n
      OBVIOUS
  <2>2. f[n] = g[n]
      BY <1>2
  <2> QED BY <2>1, <2>2 DEF Keeps
<1>3. Nat \subseteq Same
  <2> HIDE DEF Same
  <2> QED BY <1>1, <1>2, NatInduces
<1> QED BY <1>3

LEMMA WithoutEmpty == ASSUME NEW gone PROVE Without(<<>>, gone) = <<>>
<1>1. PICK kept : Keeps(<<>>, gone, kept) /\ Without(<<>>, gone) = kept[Len(<<>>)]
  <2>1. <<>> \in Seq({})
      BY EmptySeq
  <2> QED BY <2>1, WithoutIsKept
<1> QED BY <1>1, EmptySeq DEF Keeps

LEMMA WithoutAppend ==
    ASSUME NEW S, NEW s \in Seq(S), NEW x \in S, NEW gone
    PROVE  Without(Append(s, x), gone) = IF x \in gone THEN Without(s, gone)
                                         ELSE Append(Without(s, gone), x)
<1> DEFINE t == Append(s, x)
<1>1. /\ t \in Seq(S) /\ Len(t) = Len(s) + 1 /\ t[Len(t)] = x /\ Len(s) \in Nat
      /\ \A n \in 1..Len(s) : t[n] = s[n]
    BY AppendProperties, LenProperties
<1> HIDE DEF t
<1>2. PICK f : Keeps(s, gone, f) /\ Without(s, gone) = f[Len(s)]
    BY WithoutIsKept
<1>3. PICK g : Keeps(t, gone, g) /\ Without(t, gone) = g[Len(t)]
    BY <1>1, WithoutIsKept
<1>4. f[Len(s)] = g[Len(s)]
  <2>1. Len(t) \in Nat /\ Len(s) <= Len(s) /\ Len(s) <= Len(t)
      BY <1>1
  <2> QED BY <1>1, <1>2, <1>3, <2>1, KeptOfPrefix
<1>5. Len(t) \in 1..Len(t) /\ Len(t) - 1 = Len(s)
    BY <1>1
<1>6. g[Len(t)] = IF x \in gone THEN g[Len(s)] ELSE Append(g[Len(s)], x)
    BY <1>1, <1>3, <1>5 DEF Keeps
<1> QED BY <1>2, <1>3, <1>4, <1>6 DEF t

-----------------------------------------------------------------------------
(* The elements of what is appended, kept and filtered.                     *)

LEMMA ElementsEmpty == Elements(<<>>) = {}
BY EmptySeq DEF Elements

LEMMA ElementsTyped ==
    ASSUME NEW S, NEW s \in Seq(S)
    PROVE  /\ Elements(s) \subseteq S
           /\ \A k \in 1..Len(s) : s[k] \in Elements(s)
           /\ \A x \in Elements(s) : \E k \in 1..Len(s) : x = s[k]
<1>1. \A k \in 1..Len(s) : s[k] \in S
    BY ElementOfSeq
<1> QED BY <1>1 DEF Elements

LEMMA ElementsAppend ==
    ASSUME NEW S, NEW s \in Seq(S), NEW x \in S
    PROVE  Elements(Append(s, x)) = Elements(s) \cup {x}
<1> DEFINE t == Append(s, x)
<1>1. /\ Len(t) = Len(s) + 1 /\ t[Len(s) + 1] = x /\ Len(s) \in Nat
      /\ \A k \in 1..Len(s) : t[k] = s[k]
    BY AppendProperties, LenProperties
<1> HIDE DEF t
<1>2. ASSUME NEW y \in Elements(t) PROVE y \in Elements(s) \cup {x}
  <2>1. PICK k \in 1..Len(t) : y = t[k]
      BY <1>2 DEF Elements
  <2>2. k = Len(s) + 1 \/ k \in 1..Len(s)
      BY <1>1, <2>1
  <2> QED BY <1>1, <2>1, <2>2 DEF Elements
<1>3. ASSUME NEW y \in Elements(s) PROVE y \in Elements(t)
  <2>1. PICK k \in 1..Len(s) : y = s[k]
      BY <1>3 DEF Elements
  <2>2. k \in 1..Len(t) /\ y = t[k]
      BY <1>1, <2>1
  <2> QED BY <2>2 DEF Elements
<1>4. x \in Elements(t)
  <2>1. Len(s) + 1 \in 1..Len(t)
      BY <1>1
  <2> QED BY <1>1, <2>1 DEF Elements
<1> QED BY <1>2, <1>3, <1>4 DEF t

LEMMA ElementsPrepend ==
    ASSUME NEW S, NEW s \in Seq(S), NEW x \in S
    PROVE  <<x>> \o s \in Seq(S) /\ Elements(<<x>> \o s) = {x} \cup Elements(s)
<1>1. <<x>> \in Seq(S) /\ Len(<<x>>) = 1 /\ Len(s) \in Nat
    BY LenProperties
<1> DEFINE t == <<x>> \o s
<1>2. /\ t \in Seq(S) /\ Len(t) = 1 + Len(s)
      /\ \A k \in 1..Len(<<x>>) + Len(s) :
             t[k] = IF k <= Len(<<x>>) THEN <<x>>[k] ELSE s[k - Len(<<x>>)]
    BY <1>1, ConcatProperties
<1>3. t[1] = x /\ \A k \in 1..Len(s) : t[k + 1] = s[k]
  <2> HIDE DEF t
  <2>1. 1 \in 1..Len(<<x>>) + Len(s) /\ <<x>>[1] = x
      BY <1>1
  <2>2. \A k \in 1..Len(s) : k + 1 \in 1..Len(<<x>>) + Len(s) /\ ~(k + 1 <= Len(<<x>>))
                             /\ (k + 1) - Len(<<x>>) = k
      BY <1>1
  <2> QED BY <1>1, <1>2, <2>1, <2>2
<1> HIDE DEF t
<1>4. \A k \in 1..Len(t) : k = 1 \/ (k - 1 \in 1..Len(s) /\ (k - 1) + 1 = k)
    BY <1>1, <1>2
<1>5. \A k \in 1..Len(s) : k + 1 \in 1..Len(t)
    BY <1>1, <1>2
<1>6. 1 \in 1..Len(t)
    BY <1>1, <1>2
<1>7. Elements(t) = {x} \cup Elements(s)
  <2>1. ASSUME NEW y \in Elements(t) PROVE y \in {x} \cup Elements(s)
    <3>1. PICK k \in 1..Len(t) : y = t[k]
        BY <2>1 DEF Elements
    <3>2. CASE k = 1
        BY <1>3, <3>1, <3>2
    <3>3. CASE k # 1
      <4>1. k - 1 \in 1..Len(s) /\ y = s[k - 1]
          BY <1>3, <1>4, <3>1, <3>3
      <4> QED BY <4>1 DEF Elements
    <3> QED BY <3>2, <3>3
  <2>2. ASSUME NEW y \in Elements(s) PROVE y \in Elements(t)
    <3>1. PICK k \in 1..Len(s) : y = s[k]
        BY <2>2 DEF Elements
    <3>2. k + 1 \in 1..Len(t) /\ y = t[k + 1]
        BY <1>3, <1>5, <3>1
    <3> QED BY <3>2 DEF Elements
  <2>3. x \in Elements(t)
      BY <1>3, <1>6 DEF Elements
  <2> QED BY <2>1, <2>2, <2>3
<1> QED BY <1>2, <1>7 DEF t

LEMMA ElementsNewest ==
    ASSUME NEW S, NEW s \in Seq(S), NEW n \in Nat
    PROVE  Elements(Newest(s, n)) \subseteq Elements(s)
<1>1. Len(s) \in Nat
    BY LenProperties
<1> DEFINE t == Newest(s, n)
<1>2. /\ Len(t) = IF Len(s) <= n THEN Len(s) ELSE n
      /\ \A k \in 1..Len(t) : t[k] = s[Len(s) - Len(t) + k]
    BY NewestProperties
<1> HIDE DEF t
<1>3. \A k \in 1..Len(t) : Len(s) - Len(t) + k \in 1..Len(s)
    BY <1>1, <1>2
<1>4. Elements(t) \subseteq Elements(s)
    BY <1>2, <1>3 DEF Elements
<1> QED BY <1>4 DEF t

\* Filtering takes out what it is told to, and nothing else.
LEMMA WithoutElements ==
    ASSUME NEW S, NEW s \in Seq(S), NEW gone
    PROVE  /\ Without(s, gone) \in Seq(S)
           /\ Elements(Without(s, gone)) = Elements(s) \ gone
<1> DEFINE P == {t \in Seq(S) : /\ Without(t, gone) \in Seq(S)
                                /\ Elements(Without(t, gone)) = Elements(t) \ gone}
<1>1. <<>> \in P
    BY WithoutEmpty, ElementsEmpty, EmptySeq
<1>2. ASSUME NEW t \in Seq(S), NEW x \in S, t \in P
      PROVE  Append(t, x) \in P
  <2>1. Append(t, x) \in Seq(S) /\ Elements(Append(t, x)) = Elements(t) \cup {x}
      BY AppendProperties, ElementsAppend
  <2>2. Without(t, gone) \in Seq(S) /\ Elements(Without(t, gone)) = Elements(t) \ gone
      BY <1>2
  <2>3. Append(Without(t, gone), x) \in Seq(S)
        /\ Elements(Append(Without(t, gone), x)) = (Elements(t) \ gone) \cup {x}
      BY <2>2, AppendProperties, ElementsAppend
  <2>4. Without(Append(t, x), gone) = IF x \in gone THEN Without(t, gone)
                                       ELSE Append(Without(t, gone), x)
      BY WithoutAppend
  <2>5. CASE x \in gone
      BY <2>1, <2>2, <2>4, <2>5
  <2>6. CASE x \notin gone
    <3>1. (Elements(t) \ gone) \cup {x} = (Elements(t) \cup {x}) \ gone
        BY <2>6
    <3> QED BY <2>1, <2>3, <2>4, <2>6, <3>1
  <2> QED BY <2>5, <2>6
<1>3. Seq(S) \subseteq P
  <2> HIDE DEF P
  <2> QED BY <1>1, <1>2, SeqInduces
<1> QED BY <1>3

\* A list that has nothing of what is filtered out stays as it is.
LEMMA WithoutNothing ==
    ASSUME NEW S, NEW s \in Seq(S), NEW gone, Elements(s) \cap gone = {}
    PROVE  Without(s, gone) = s
<1> DEFINE P == {t \in Seq(S) : Elements(t) \cap gone = {} => Without(t, gone) = t}
<1>1. <<>> \in P
    BY WithoutEmpty, EmptySeq
<1>2. ASSUME NEW t \in Seq(S), NEW x \in S, t \in P
      PROVE  Append(t, x) \in P
  <2>1. Append(t, x) \in Seq(S) /\ Elements(Append(t, x)) = Elements(t) \cup {x}
      BY AppendProperties, ElementsAppend
  <2>2. Elements(t) \cap gone = {} => Without(t, gone) = t
      BY <1>2
  <2>3. Without(Append(t, x), gone) = IF x \in gone THEN Without(t, gone)
                                       ELSE Append(Without(t, gone), x)
      BY WithoutAppend
  <2>4. Elements(Append(t, x)) \cap gone = {} => x \notin gone /\ Elements(t) \cap gone = {}
      BY <2>1
  <2> QED BY <2>1, <2>2, <2>3, <2>4
<1>3. Seq(S) \subseteq P
  <2> HIDE DEF P
  <2> QED BY <1>1, <1>2, SeqInduces
<1> QED BY <1>3
=============================================================================
