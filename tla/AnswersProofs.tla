----------------------------- MODULE AnswersProofs -----------------------------
(***************************************************************************)
(* Proofs about what is answered: the walks of Walks, and the reads of     *)
(* Reads with the abstract GuardedRead that each of them implements.       *)
(***************************************************************************)
EXTENDS Walks, Reads, FiniteSetTheorems, SequenceTheorems, WellFoundedInduction, TLAPS

(***************************************************************************)
(* Induction, in the form of a least counterexample: the order on finite   *)
(* sets is well-founded, and of a set of numbers the shortest 0 .. n is    *)
(* the least.                                                              *)
(***************************************************************************)
LEMMA SmallestSet ==
    ASSUME NEW Set, NEW F \in SUBSET FiniteSubsetsOf(Set), F # {}
    PROVE  \E U \in F : \A V \in F : V \subseteq U => V = U
<1>1. PICK U \in F : \A V \in F : <<V, U>> \notin StrictSubsetOrdering(Set)
  BY FS_StrictSubsetOrderingWellFounded, WFMin
<1>. QED
  BY <1>1 DEF StrictSubsetOrdering, FiniteSubsetsOf

LEMMA LeastNumber ==
    ASSUME NEW ns \in SUBSET Nat, ns # {}
    PROVE  \E n \in ns : \A m \in ns : n <= m
<1>. DEFINE F == {0 .. n : n \in ns}
<1>1. F \in SUBSET FiniteSubsetsOf(Nat)
  <2>1. \A n \in ns : IsFiniteSet(0 .. n) /\ 0 .. n \subseteq Nat
    BY FS_Interval
  <2>. QED
    BY <2>1 DEF FiniteSubsetsOf
<1>2. F # {}
  OBVIOUS
<1>. HIDE DEF F
<1>3. PICK U \in F : \A V \in F : V \subseteq U => V = U
  BY <1>1, <1>2, SmallestSet
<1>4. PICK n \in ns : U = 0 .. n
  BY <1>3 DEF F
<1>5. ASSUME NEW m \in ns, m < n  PROVE FALSE
  <2>1. 0 .. m \in F /\ 0 .. m \subseteq 0 .. n
    BY <1>5 DEF F
  <2>2. n \in 0 .. n /\ n \notin 0 .. m
    BY <1>5
  <2>. QED
    BY <1>3, <1>4, <2>1, <2>2
<1>. QED
  BY <1>5

LEMMA Induction ==
    ASSUME NEW Good, 0 \in Good, \A n \in Nat : n \in Good => n + 1 \in Good
    PROVE  Nat \subseteq Good
<1>. SUFFICES ASSUME Nat \ Good # {} PROVE FALSE
  OBVIOUS
<1>1. PICK n \in Nat \ Good : \A m \in Nat \ Good : n <= m
  BY LeastNumber
<1>2. n - 1 \in Nat /\ n - 1 \in Good
  BY <1>1
<1>. QED
  BY <1>1, <1>2

(***************************************************************************)
(* What a recursive definition defines: if each value is in D, and follows *)
(* from its place and the value before it, there is such a function.       *)
(***************************************************************************)
Iterates(f, n, a, F) == f[0] = a /\ \A i \in 1 .. n : f[i] = F[<<i, f[i - 1]>>]

LEMMA Iteration ==
    ASSUME NEW n \in Nat, NEW D, NEW a \in D, NEW F,
           \A i \in 1 .. n, x \in D : F[<<i, x>>] \in D
    PROVE  \E f \in [0 .. n -> D] : Iterates(f, n, a, F)
<1>. DEFINE Good == {k \in Nat : k <= n => \E f \in [0 .. k -> D] : Iterates(f, k, a, F)}
<1>1. 0 \in Good
  <2>1. [i \in 0 .. 0 |-> a] \in [0 .. 0 -> D] /\ Iterates([i \in 0 .. 0 |-> a], 0, a, F)
    BY DEF Iterates
  <2>. QED
    BY <2>1
<1>2. ASSUME NEW k \in Nat, k \in Good  PROVE k + 1 \in Good
  <2>. SUFFICES ASSUME k + 1 <= n
                PROVE  \E f \in [0 .. k + 1 -> D] : Iterates(f, k + 1, a, F)
    OBVIOUS
  <2>1. PICK f \in [0 .. k -> D] : Iterates(f, k, a, F)
    BY <1>2
  <2>. DEFINE g == [i \in 0 .. k + 1 |-> IF i = k + 1 THEN F[<<k + 1, f[k]>>] ELSE f[i]]
  <2>2. F[<<k + 1, f[k]>>] \in D
    OBVIOUS
  <2>3. g \in [0 .. k + 1 -> D]
    BY <2>2
  <2>4. Iterates(g, k + 1, a, F)
    <3>1. g[0] = a
      BY <2>1 DEF Iterates
    <3>2. ASSUME NEW i \in 1 .. k + 1  PROVE g[i] = F[<<i, g[i - 1]>>]
      <4>1. CASE i = k + 1
        <5>1. g[k + 1] = F[<<k + 1, f[k]>>] /\ g[k] = f[k] /\ i - 1 = k
          BY <4>1
        <5>. QED
          BY <4>1, <5>1
      <4>2. CASE i \in 1 .. k
        BY <2>1, <4>2 DEF Iterates
      <4>. QED
        BY <4>1, <4>2
    <3>. QED
      BY <3>1, <3>2 DEF Iterates
  <2>. HIDE DEF g
  <2>. QED
    BY <2>3, <2>4
<1>. HIDE DEF Good
<1>3. n \in Good
  BY <1>1, <1>2, Induction
<1>. QED
  BY <1>3 DEF Good

(***************************************************************************)
(* Only keeps an order and splits where its sequence does.                 *)
(***************************************************************************)
Passed(s, these) ==
    LET only[i \in 0 .. Len(s)] ==
            IF i = 0 THEN <<>>
            ELSE IF s[i] \in these THEN Append(only[i - 1], s[i]) ELSE only[i - 1]
    IN  only

LEMMA PassedEquation ==
    ASSUME NEW Set, NEW s \in Seq(Set), NEW these
    PROVE  /\ Only(s, these) = Passed(s, these)[Len(s)]
           /\ Passed(s, these) \in [0 .. Len(s) -> Seq(Set)]
           /\ Passed(s, these)[0] = <<>>
           /\ \A i \in 1 .. Len(s) :
                 Passed(s, these)[i] = IF s[i] \in these THEN Append(Passed(s, these)[i - 1], s[i])
                                     ELSE Passed(s, these)[i - 1]
<1>. DEFINE IsSo(f) == f = [i \in 0 .. Len(s) |->
                           IF i = 0 THEN <<>>
                           ELSE IF s[i] \in these THEN Append(f[i - 1], s[i]) ELSE f[i - 1]]
            F == [p \in (1 .. Len(s)) \X Seq(Set) |->
                    IF s[p[1]] \in these THEN Append(p[2], s[p[1]]) ELSE p[2]]
<1>1. \A i \in 1 .. Len(s), x \in Seq(Set) : F[<<i, x>>] \in Seq(Set)
  OBVIOUS
<1>2. <<>> \in Seq(Set) /\ Len(s) \in Nat
  OBVIOUS
<1>. HIDE DEF F
<1>3. PICK f \in [0 .. Len(s) -> Seq(Set)] : Iterates(f, Len(s), <<>>, F)
  BY <1>1, <1>2, Iteration
<1>4. \A i \in 1 .. Len(s) : f[i] = IF s[i] \in these THEN Append(f[i - 1], s[i]) ELSE f[i - 1]
  <2>. TAKE i \in 1 .. Len(s)
  <2>0. Len(s) \in Nat
    BY <1>2
  <2>1. i - 1 \in 0 .. Len(s) 
    BY <2>0
  <2>2. f[i - 1] \in Seq(Set) 
    BY <2>1
  <2>3. f[i] = F[<<i, f[i - 1]>>]
    BY <1>3 DEF Iterates
  <2>. QED
    BY <2>2, <2>3 DEF F
<1>5. IsSo(f)
  <2>1. f[0] = <<>> /\ DOMAIN f = 0 .. Len(s) /\ f = [i \in DOMAIN f |-> f[i]]
    BY <1>3 DEF Iterates
  <2>2. \A i \in 0 .. Len(s) :
          f[i] = IF i = 0 THEN <<>>
                 ELSE IF s[i] \in these THEN Append(f[i - 1], s[i]) ELSE f[i - 1]
    <3>. TAKE i \in 0 .. Len(s)
    <3>1. i = 0 \/ i \in 1 .. Len(s)
      BY <1>2
    <3>. QED
      BY <1>4, <2>1, <3>1
  <2>. QED
    BY <2>1, <2>2
<1>6. IsSo(Passed(s, these))
  BY <1>5 DEF Passed
<1>. DEFINE g == Passed(s, these)
<1>7. /\ g[0] = <<>>
      /\ \A i \in 1 .. Len(s) : g[i] = IF s[i] \in these THEN Append(g[i - 1], s[i]) ELSE g[i - 1]
      /\ DOMAIN g = 0 .. Len(s)
  <2>1. \A i \in 0 .. Len(s) :
          g[i] = IF i = 0 THEN <<>>
                 ELSE IF s[i] \in these THEN Append(g[i - 1], s[i]) ELSE g[i - 1]
    BY <1>6
  <2>2. DOMAIN g = 0 .. Len(s)
    BY <1>6
  <2>. HIDE DEF g
  <2>3. 0 \in 0 .. Len(s) /\ \A i \in 1 .. Len(s) : i \in 0 .. Len(s) /\ i # 0
    BY <1>2
  <2>. QED
    BY <2>1, <2>2, <2>3
<1>. HIDE DEF g
<1>8. \A i \in 0 .. Len(s) : g[i] \in Seq(Set)
  <2>. DEFINE Good == {i \in Nat : i <= Len(s) => g[i] \in Seq(Set)}
  <2>1. 0 \in Good
    BY <1>2, <1>7
  <2>2. ASSUME NEW n \in Nat, n \in Good  PROVE n + 1 \in Good
    <3>. SUFFICES ASSUME n + 1 <= Len(s) PROVE g[n + 1] \in Seq(Set)
      OBVIOUS
    <3>1. n + 1 \in 1 .. Len(s) /\ g[n] \in Seq(Set) /\ s[n + 1] \in Set /\ (n + 1) - 1 = n
      BY <2>2, <1>2
    <3>2. g[n + 1] = IF s[n + 1] \in these THEN Append(g[n], s[n + 1]) ELSE g[n]
      BY <3>1, <1>7
    <3>. QED
      BY <3>1, <3>2
  <2>. HIDE DEF Good
  <2>3. Nat \subseteq Good
    BY <2>1, <2>2, Induction
  <2>. QED
    BY <2>3, <1>2 DEF Good
<1>9. g \in [0 .. Len(s) -> Seq(Set)]
  BY <1>6, <1>8 DEF g
<1>10. Only(s, these) = g[Len(s)]
  BY DEF Only, Passed, g
<1>. QED
  BY <1>7, <1>9, <1>10 DEF g

OnlySplits(s, t, these) == Only(s \o t, these) = Only(s, these) \o Only(t, these)

LEMMA OnlyOfConcat ==
    ASSUME NEW Set, NEW s \in Seq(Set), NEW t \in Seq(Set), NEW these
    PROVE  Only(s, these) \in Seq(Set) /\ OnlySplits(s, t, these)
<1>4. \A v \in Seq(Set) :
         /\ Only(v, these) = Passed(v, these)[Len(v)] /\ Passed(v, these)[0] = <<>>
         /\ \A i \in 1 .. Len(v) :
               Passed(v, these)[i] = IF v[i] \in these THEN Append(Passed(v, these)[i - 1], v[i])
                                     ELSE Passed(v, these)[i - 1]
  BY PassedEquation
<1>. SUFFICES ASSUME NEW u \in Seq(Set), u = s \o t
              PROVE  Only(s, these) \in Seq(Set) /\ Only(u, these) = Only(s, these) \o Only(t, these)
  BY ConcatProperties DEF OnlySplits
<1>. DEFINE join(x, y) == x \o y
            a == Passed(s, these)
            b == Passed(t, these)
            c == Passed(u, these)
            m == Len(s)
            n == Len(t)
<1>j. \A x \in Seq(Set) : /\ join(x, <<>>) = x
                        /\ \A y \in Seq(Set), e \in Set : Append(join(x, y), e) = join(x, Append(y, e))
  <2>1. \A x \in Seq(Set) : x \o <<>> = x
    BY ConcatEmptySeq
  <2>2. ASSUME NEW x \in Seq(Set), NEW y \in Seq(Set), NEW e \in Set
        PROVE  Append(x \o y, e) = x \o Append(y, e)
    <3>1. Append(y, e) = y \o <<e>> /\ Append(x \o y, e) = (x \o y) \o <<e>>
      BY AppendIsConcat, ConcatProperties
    <3>2. (x \o y) \o <<e>> = x \o (y \o <<e>>)
      <4>0. <<e>> \in Seq(Set)
        OBVIOUS
      <4>1. PICK z \in Seq(Set) : z = <<e>>
        BY <4>0, Zenon
      <4>2. (x \o y) \o z = x \o (y \o z)
        BY ConcatAssociative
      <4>. QED
        BY <4>1, <4>2, Zenon
    <3>. QED
      BY <3>1, <3>2, Zenon
  <2>. QED
    BY <2>1, <2>2
<1>1. /\ m \in Nat /\ n \in Nat /\ Len(u) = m + n
      /\ \A i \in 1 .. m : u[i] = s[i]
      /\ \A i \in 1 .. n : u[m + i] = t[i] /\ t[i] \in Set
  OBVIOUS
<1>2. /\ Only(s, these) = a[m] /\ a \in [0 .. m -> Seq(Set)] /\ a[0] = <<>>
      /\ \A i \in 1 .. m : a[i] = IF s[i] \in these THEN Append(a[i - 1], s[i]) ELSE a[i - 1]
  BY PassedEquation
<1>3. /\ Only(t, these) = b[n] /\ b \in [0 .. n -> Seq(Set)] /\ b[0] = <<>>
      /\ \A i \in 1 .. n : b[i] = IF t[i] \in these THEN Append(b[i - 1], t[i]) ELSE b[i - 1]
  BY PassedEquation
<1>. HIDE DEF a, b, c, m, n, join
<1>5. \A i \in 0 .. m : c[i] = a[i]
  <2>. DEFINE Good == {i \in Nat : i <= m => c[i] = a[i]}
  <2>1. 0 \in Good
    BY <1>2, <1>4 DEF c
  <2>2. ASSUME NEW i \in Nat, i \in Good  PROVE i + 1 \in Good
    <3>. SUFFICES ASSUME i + 1 <= m PROVE c[i + 1] = a[i + 1]
      OBVIOUS
    <3>1. i + 1 \in 1 .. m /\ i + 1 \in 1 .. Len(u) /\ (i + 1) - 1 = i /\ i <= m
      BY <1>1
    <3>2. c[i] = a[i] /\ u[i + 1] = s[i + 1]
      BY <2>2, <3>1, <1>1
    <3>3. c[i + 1] = IF u[i + 1] \in these THEN Append(c[i], u[i + 1]) ELSE c[i]
      BY <3>1, <1>4 DEF c
    <3>4. a[i + 1] = IF s[i + 1] \in these THEN Append(a[i], s[i + 1]) ELSE a[i]
      BY <3>1, <1>2
    <3>. QED
      BY <3>2, <3>3, <3>4
  <2>. HIDE DEF Good
  <2>3. Nat \subseteq Good
    BY <2>1, <2>2, Induction
  <2>. QED
    BY <2>3, <1>1 DEF Good
<1>6. \A i \in 0 .. n : c[m + i] = join(a[m], b[i])
  <2>. DEFINE Good == {i \in Nat : i <= n => c[m + i] = join(a[m], b[i])}
  <2>0. a[m] \in Seq(Set)
    BY <1>1, <1>2
  <2>1. 0 \in Good
    <3>0. m \in 0 .. m /\ m + 0 = m
      BY <1>1
    <3>1. c[m] = a[m]
      BY <3>0, <1>5
    <3>. QED
      BY <3>0, <3>1, <2>0, <1>j, <1>3
  <2>2. ASSUME NEW i \in Nat, i \in Good  PROVE i + 1 \in Good
    <3>. SUFFICES ASSUME i + 1 <= n PROVE c[m + (i + 1)] = join(a[m], b[i + 1])
      OBVIOUS
    <3>1. /\ i + 1 \in 1 .. n /\ i \in 0 .. n /\ (i + 1) - 1 = i
          /\ m + (i + 1) \in 1 .. Len(u) /\ (m + (i + 1)) - 1 = m + i
      BY <1>1
    <3>2. c[m + i] = join(a[m], b[i])
      BY <2>2, <3>1
    <3>2a. u[m + (i + 1)] = t[i + 1] /\ t[i + 1] \in Set
      BY <3>1, <1>1
    <3>3. c[m + (i + 1)] = IF u[m + (i + 1)] \in these THEN Append(c[m + i], u[m + (i + 1)])
                           ELSE c[m + i]
      BY <3>1, <1>4 DEF c
    <3>4. b[i + 1] = IF t[i + 1] \in these THEN Append(b[i], t[i + 1]) ELSE b[i]
      BY <3>1, <1>3
    <3>5. b[i] \in Seq(Set)
      BY <3>1, <1>3
    <3>6. Append(join(a[m], b[i]), t[i + 1]) = join(a[m], Append(b[i], t[i + 1]))
      BY <2>0, <3>2a, <3>5, <1>j
    <3>. QED
      BY <3>2, <3>2a, <3>3, <3>4, <3>6
  <2>. HIDE DEF Good
  <2>3. Nat \subseteq Good
    BY <2>1, <2>2, Induction
  <2>. QED
    BY <2>3, <1>1 DEF Good
<1>7. c[Len(u)] = join(a[m], b[n]) /\ a[m] \in Seq(Set)
  BY <1>1, <1>2, <1>6
<1>. QED
  BY <1>2, <1>3, <1>4, <1>7 DEF join, c

(***************************************************************************)
(* The messages above the anchor.                                          *)
(***************************************************************************)
Mapped == to \in [Ids -> Ids \cup {None}]

Up(k) ==
    LET up[j \in 0..k] ==
            IF j = 0 THEN Anchor ELSE IF up[j - 1] = None THEN None ELSE to[up[j - 1]]
    IN  up

LEMMA UpEquation ==
    ASSUME NEW k \in Nat, Mapped
    PROVE  /\ Above(k) = Up(k)[k]
           /\ Up(k) \in [0 .. k -> Ids \cup {None}]
           /\ Up(k)[0] = Anchor
           /\ \A j \in 1 .. k :
                 Up(k)[j] = IF Up(k)[j - 1] = None THEN None ELSE to[Up(k)[j - 1]]
<1>. DEFINE D == Ids \cup {None}
            F == [p \in (1 .. k) \X D |-> IF p[2] = None THEN None ELSE to[p[2]]]
            IsSo(f) == f = [j \in 0 .. k |->
                           IF j = 0 THEN Anchor
                           ELSE IF f[j - 1] = None THEN None ELSE to[f[j - 1]]]
<1>1. Anchor \in D /\ \A i \in 1 .. k, x \in D : F[<<i, x>>] = (IF x = None THEN None ELSE to[x])
  BY ThreadAssumption
<1>2. \A i \in 1 .. k, x \in D : F[<<i, x>>] \in D
  BY <1>1 DEF Mapped
<1>. HIDE DEF D, F
<1>3. PICK f \in [0 .. k -> D] : Iterates(f, k, Anchor, F)
  BY <1>1, <1>2, Iteration
<1>4. IsSo(f)
  <2>1. f[0] = Anchor /\ f = [j \in 0 .. k |-> f[j]]
    BY <1>3 DEF Iterates
  <2>2. ASSUME NEW j \in 1 .. k
        PROVE  f[j] = IF f[j - 1] = None THEN None ELSE to[f[j - 1]]
    <3>1. f[j - 1] \in D /\ f[j] = F[<<j, f[j - 1]>>]
      BY <1>3 DEF Iterates
    <3>. QED
      BY <3>1, <1>1
  <2>3. \A j \in 0 .. k : f[j] = IF j = 0 THEN Anchor
                                 ELSE IF f[j - 1] = None THEN None ELSE to[f[j - 1]]
    <3>. TAKE j \in 0 .. k
    <3>1. j = 0 \/ j \in 1 .. k
      OBVIOUS
    <3>. QED
      BY <2>1, <2>2, <3>1
  <2>. QED
    BY <2>1, <2>3
<1>5. IsSo(Up(k))
  BY <1>4 DEF Up
<1>6. /\ DOMAIN Up(k) = 0 .. k
      /\ \A j \in 0 .. k : Up(k)[j] = IF j = 0 THEN Anchor
                                    ELSE IF Up(k)[j - 1] = None THEN None ELSE to[Up(k)[j - 1]]
  BY <1>5
<1>. DEFINE g == Up(k)
<1>. HIDE DEF g
<1>7. /\ g[0] = Anchor
      /\ \A j \in 1 .. k : g[j] = IF g[j - 1] = None THEN None ELSE to[g[j - 1]]
  <2>1. 0 \in 0 .. k /\ \A j \in 1 .. k : j \in 0 .. k /\ j # 0
    OBVIOUS
  <2>. QED
    BY <1>6, <2>1 DEF g
<1>8. \A j \in 0 .. k : g[j] \in D
  <2>. DEFINE Good == {j \in Nat : j <= k => g[j] \in D}
  <2>1. 0 \in Good
    BY <1>1, <1>7
  <2>2. ASSUME NEW j \in Nat, j \in Good  PROVE j + 1 \in Good
    <3>. SUFFICES ASSUME j + 1 <= k PROVE g[j + 1] \in D
      OBVIOUS
    <3>1. j + 1 \in 1 .. k /\ g[j] \in D /\ (j + 1) - 1 = j
      BY <2>2
    <3>2. g[j + 1] = IF g[j] = None THEN None ELSE to[g[j]]
      BY <3>1, <1>7
    <3>. QED
      BY <3>1, <3>2 DEF Mapped, D
  <2>. HIDE DEF Good
  <2>3. Nat \subseteq Good
    BY <2>1, <2>2, Induction
  <2>. QED
    BY <2>3 DEF Good
<1>9. g \in [0 .. k -> D]
  <2>1. g = [j \in 0 .. k |-> g[j]]
    BY <1>5, <1>6 DEF g
  <2>. QED
    BY <1>8, <2>1
<1>10. Above(k) = Up(k)[k]
  BY DEF Above, Up
<1>. QED
  BY <1>7, <1>9, <1>10 DEF g, D

LEMMA UpAgrees ==
    ASSUME NEW k \in Nat, NEW n \in Nat, k <= n, Mapped
    PROVE  Up(n)[k] = Above(k)
<1>. DEFINE f == Up(k)
            g == Up(n)
            Good == {j \in Nat : j <= k => g[j] = f[j]}
<1>1. /\ f[0] = Anchor /\ g[0] = Anchor
      /\ \A j \in 1 .. k : f[j] = IF f[j - 1] = None THEN None ELSE to[f[j - 1]]
      /\ \A j \in 1 .. n : g[j] = IF g[j - 1] = None THEN None ELSE to[g[j - 1]]
  BY UpEquation
<1>. HIDE DEF f, g
<1>2. 0 \in Good
  BY <1>1
<1>3. ASSUME NEW j \in Nat, j \in Good  PROVE j + 1 \in Good
  <2>. SUFFICES ASSUME j + 1 <= k PROVE g[j + 1] = f[j + 1]
    OBVIOUS
  <2>1. j + 1 \in 1 .. k /\ j + 1 \in 1 .. n /\ (j + 1) - 1 = j /\ g[j] = f[j]
    BY <1>3
  <2>. QED
    BY <1>1, <2>1
<1>. HIDE DEF Good
<1>4. Nat \subseteq Good
  BY <1>2, <1>3, Induction
<1>5. g[k] = f[k]
  BY <1>4 DEF Good
<1>. QED
  BY <1>5, UpEquation DEF f, g

LEMMA AboveEquation ==
    ASSUME Mapped
    PROVE  /\ Above(0) = Anchor
           /\ \A k \in Nat :
                 /\ Above(k) \in Ids \cup {None}
                 /\ Above(k + 1) = IF Above(k) = None THEN None ELSE to[Above(k)]
<1>1. Above(0) = Anchor
  BY UpEquation
<1>2. ASSUME NEW k \in Nat  PROVE Above(k) \in Ids \cup {None}
  BY UpEquation
<1>3. ASSUME NEW k \in Nat
      PROVE  Above(k + 1) = IF Above(k) = None THEN None ELSE to[Above(k)]
  <2>1. k + 1 \in Nat /\ k + 1 \in 1 .. k + 1 /\ (k + 1) - 1 = k /\ k <= k + 1
    OBVIOUS
  <2>2. Up(k + 1)[k + 1] = IF Up(k + 1)[k] = None THEN None ELSE to[Up(k + 1)[k]]
    BY <2>1, UpEquation
  <2>3. Up(k + 1)[k] = Above(k) /\ Up(k + 1)[k + 1] = Above(k + 1)
    BY <2>1, UpAgrees
  <2>. QED
    BY <2>2, <2>3
<1>. QED
  BY <1>1, <1>2, <1>3

(***************************************************************************)
(* One segment: ancestorSegment, then linkedAncestors.                     *)
(***************************************************************************)
Stored == Mapped /\ here \subseteq Ids

Reached(start, followed, maxDepth) ==
    LET reached[depth \in 0..maxDepth] ==
            IF depth = 0 THEN {start} \cap Within
            ELSE reached[depth - 1] \cup (Parents(reached[depth - 1], followed) \cap Within)
    IN  reached

\* $graphLookup finds nothing that is not in the conversation.
LEMMA GraphLookupWithin ==
    ASSUME NEW start, NEW followed, NEW maxDepth \in Nat
    PROVE  graphLookup(start, followed, maxDepth) \subseteq Within
<1>. DEFINE D == SUBSET Within
            F == [p \in (1 .. maxDepth) \X D |-> p[2] \cup (Parents(p[2], followed) \cap Within)]
            IsSo(f) == f = [i \in 0 .. maxDepth |->
                           IF i = 0 THEN {start} \cap Within
                           ELSE f[i - 1] \cup (Parents(f[i - 1], followed) \cap Within)]
            a == {start} \cap Within
<1>1. /\ a \in D
      /\ \A i \in 1 .. maxDepth, x \in D : F[<<i, x>>] = x \cup (Parents(x, followed) \cap Within)
  OBVIOUS
<1>2. \A i \in 1 .. maxDepth, x \in D : F[<<i, x>>] \in D
  BY <1>1
<1>. HIDE DEF D, F
<1>3. PICK f \in [0 .. maxDepth -> D] : Iterates(f, maxDepth, a, F)
  BY <1>1, <1>2, Iteration
<1>4. IsSo(f)
  <2>1. f[0] = a /\ f = [i \in 0 .. maxDepth |-> f[i]]
    BY <1>3 DEF Iterates
  <2>2. ASSUME NEW i \in 1 .. maxDepth
        PROVE  f[i] = f[i - 1] \cup (Parents(f[i - 1], followed) \cap Within)
    <3>1. f[i - 1] \in D /\ f[i] = F[<<i, f[i - 1]>>]
      BY <1>3 DEF Iterates
    <3>. QED
      BY <3>1, <1>1
  <2>3. \A i \in 0 .. maxDepth : f[i] = IF i = 0 THEN a
                 ELSE f[i - 1] \cup (Parents(f[i - 1], followed) \cap Within)
    <3>. TAKE i \in 0 .. maxDepth
    <3>1. i = 0 \/ i \in 1 .. maxDepth
      OBVIOUS
    <3>. QED
      BY <2>1, <2>2, <3>1
  <2>. QED
    BY <2>1, <2>3
<1>. DEFINE g == Reached(start, followed, maxDepth)
<1>5. IsSo(g)
  BY <1>4 DEF Reached
<1>6. \A i \in 0 .. maxDepth : g[i] = IF i = 0 THEN {start} \cap Within
                 ELSE g[i - 1] \cup (Parents(g[i - 1], followed) \cap Within)
  BY <1>5
<1>. HIDE DEF g
<1>7. g[maxDepth] \subseteq Within
  <2>. DEFINE Good == {i \in Nat : i <= maxDepth => g[i] \subseteq Within}
  <2>1. 0 \in Good
    <3>0. 0 \in 0 .. maxDepth
      OBVIOUS
    <3>1. g[0] = {start} \cap Within
      BY <3>0, <1>6
    <3>2. g[0] \subseteq Within
      BY <3>1
    <3>. QED
      BY <3>2
  <2>2. ASSUME NEW i \in Nat, i \in Good  PROVE i + 1 \in Good
    <3>. SUFFICES ASSUME i + 1 <= maxDepth PROVE g[i + 1] \subseteq Within
      OBVIOUS
    <3>1. i + 1 \in 0 .. maxDepth /\ i + 1 # 0 /\ (i + 1) - 1 = i /\ g[i] \subseteq Within
      BY <2>2
    <3>2. g[i + 1] = g[i] \cup (Parents(g[i], followed) \cap Within)
      BY <3>1, <1>6
    <3>. QED
      BY <3>1, <3>2
  <2>. HIDE DEF Good
  <2>3. Nat \subseteq Good
    BY <2>1, <2>2, Induction
  <2>. QED
    BY <2>3 DEF Good
<1>. QED
  BY <1>7 DEF graphLookup, Reached, g

\* The first message of a segment is looked for by itself: what the
\* traversals find, or where they end, has no say in it.
LEMMA SegmentFinds ==
    ASSUME NEW start, NEW budget \in Nat \ {0}
    PROVE  /\ ancestorSegment(start, budget) \subseteq Within
           /\ start \in ancestorSegment(start, budget) <=> start \in Within
<1>1. CASE start \notin Within
  BY <1>1 DEF ancestorSegment
<1>2. CASE start \in Within /\ budget = 1
  BY <1>2 DEF ancestorSegment
<1>3. CASE start \in Within /\ budget # 1
  <2>1. budget - 2 \in Nat
    BY <1>3
  <2>2. TwoTraversals(start, budget) \subseteq Within
    BY <2>1, GraphLookupWithin DEF TwoTraversals
  <2>. QED
    BY <1>3, <2>2 DEF ancestorSegment
<1>. QED
  BY <1>1, <1>2, <1>3

At(found, start, budget) ==
    LET at[k \in 0..budget] ==
            IF k = 0 THEN start
            ELSE IF at[k - 1] \in found THEN to[at[k - 1]] ELSE None
    IN  at

FollowsFrom(at, found, start, budget) ==
    \A k \in 0 .. budget :
       at[k] = IF k = 0 THEN start ELSE IF at[k - 1] \in found THEN to[at[k - 1]] ELSE None

LEMMA AtEquation ==
    ASSUME NEW found \in SUBSET Ids, NEW start \in Ids \cup {None}, NEW budget \in Nat, Mapped
    PROVE  FollowsFrom(At(found, start, budget), found, start, budget)
<1>. DEFINE D == Ids \cup {None}
            F == [p \in (1 .. budget) \X D |-> IF p[2] \in found THEN to[p[2]] ELSE None]
            IsSo(f) == f = [k \in 0 .. budget |->
                           IF k = 0 THEN start
                           ELSE IF f[k - 1] \in found THEN to[f[k - 1]] ELSE None]
<1>1. \A i \in 1 .. budget, x \in D : F[<<i, x>>] = (IF x \in found THEN to[x] ELSE None)
  OBVIOUS
<1>2. \A i \in 1 .. budget, x \in D : F[<<i, x>>] \in D
  BY <1>1 DEF Mapped
<1>. HIDE DEF D, F
<1>2a. start \in D
  BY DEF D
<1>3. PICK f \in [0 .. budget -> D] : Iterates(f, budget, start, F)
  BY <1>2, <1>2a, Iteration
<1>4. IsSo(f)
  <2>1. f[0] = start /\ f = [k \in 0 .. budget |-> f[k]]
    BY <1>3 DEF Iterates
  <2>2. ASSUME NEW k \in 1 .. budget
        PROVE  f[k] = IF f[k - 1] \in found THEN to[f[k - 1]] ELSE None
    <3>1. f[k - 1] \in D /\ f[k] = F[<<k, f[k - 1]>>]
      BY <1>3 DEF Iterates
    <3>. QED
      BY <3>1, <1>1
  <2>3. \A k \in 0 .. budget : f[k] = IF k = 0 THEN start
                                     ELSE IF f[k - 1] \in found THEN to[f[k - 1]] ELSE None
    <3>. TAKE k \in 0 .. budget
    <3>1. k = 0 \/ k \in 1 .. budget
      OBVIOUS
    <3>. QED
      BY <2>1, <2>2, <3>1
  <2>. QED
    BY <2>1, <2>3
<1>. DEFINE g == At(found, start, budget)
<1>5. IsSo(g)
  BY <1>4 DEF At
<1>6. \A k \in 0 .. budget : g[k] = IF k = 0 THEN start
                                   ELSE IF g[k - 1] \in found THEN to[g[k - 1]] ELSE None
  BY <1>5
<1>. QED
  BY <1>6 DEF FollowsFrom

\* The links of a chain are those of the conversation from its start on, and
\* what comes next is where the first that is not would be.
LEMMA ChainFollows ==
    ASSUME NEW found \in SUBSET Ids, NEW start \in Ids \cup {None}, NEW budget \in Nat, Mapped
    PROVE  LET at == At(found, start, budget)
               chain == linkedAncestors(found, start, budget)
           IN  \E used \in 0 .. budget :
                  /\ chain.links = [k \in 1 .. used |-> at[k - 1]]
                  /\ chain.next = at[used]
                  /\ \A k \in 1 .. used : at[k - 1] \in found
                  /\ used < budget => at[used] \notin found
<1>. DEFINE at == At(found, start, budget)
<1>1. \A k \in 0 .. budget : at[k] = IF k = 0 THEN start
                                   ELSE IF at[k - 1] \in found THEN to[at[k - 1]] ELSE None
  <2>1. FollowsFrom(at, found, start, budget)
    BY AtEquation
  <2>. QED
    BY <2>1 DEF FollowsFrom
<1>. DEFINE used == Cardinality({k \in 1 .. budget : at[k - 1] \in found})
<1>2. linkedAncestors(found, start, budget) =
         [links |-> [k \in 1 .. used |-> at[k - 1]], next |-> at[used]]
  BY DEF linkedAncestors, At
<1>. HIDE DEF at
<1>. DEFINE ends == {k \in Nat : k <= budget /\ (k < budget => at[k] \notin found)}
<1>3. PICK n \in ends : \A m \in ends : n <= m
  <2>1. budget \in ends
    OBVIOUS
  <2>2. ends \in SUBSET Nat
    OBVIOUS
  <2>. HIDE DEF ends
  <2>. QED
    BY <2>1, <2>2, LeastNumber
<1>4. n \in 0 .. budget /\ (n < budget => at[n] \notin found)
  BY <1>3
<1>5. ASSUME NEW k \in 1 .. n  PROVE at[k - 1] \in found
  <2>1. k - 1 \in Nat /\ k - 1 < n /\ k - 1 < budget
    BY <1>4
  <2>2. k - 1 \notin ends
    BY <2>1, <1>3
  <2>. QED
    BY <2>1, <2>2
<1>6. ASSUME NEW k \in n + 1 .. budget  PROVE at[k - 1] \notin found
  <2>. DEFINE Good == {i \in Nat : n + i < budget => at[n + i] \notin found}
  <2>1. 0 \in Good
    BY <1>4
  <2>2. ASSUME NEW i \in Nat, i \in Good  PROVE i + 1 \in Good
    <3>. SUFFICES ASSUME n + (i + 1) < budget PROVE at[n + (i + 1)] \notin found
      OBVIOUS
    <3>1. n + (i + 1) \in 0 .. budget /\ n + (i + 1) # 0 /\ (n + (i + 1)) - 1 = n + i /\ n + i < budget
      BY <1>4
    <3>2. at[n + i] \notin found
      BY <2>2, <3>1
    <3>3. at[n + (i + 1)] = None
      BY <3>1, <3>2, <1>1
    <3>. QED
      BY <3>3, ThreadAssumption
  <2>. HIDE DEF Good
  <2>3. Nat \subseteq Good
    BY <2>1, <2>2, Induction
  <2>4. (k - 1) - n \in Nat /\ n + ((k - 1) - n) = k - 1 /\ k - 1 < budget
    BY <1>4
  <2>5. (k - 1) - n \in Good
    BY <2>3, <2>4
  <2>. QED
    BY <2>4, <2>5 DEF Good
<1>7. used = n
  <2>1. {k \in 1 .. budget : at[k - 1] \in found} = 1 .. n
    BY <1>4, <1>5, <1>6
  <2>2. Cardinality(1 .. n) = n
    BY <1>4, FS_Interval
  <2>. QED
    BY <2>1, <2>2
<1>. HIDE DEF used
<1>8. /\ linkedAncestors(found, start, budget).links = [k \in 1 .. n |-> at[k - 1]]
      /\ linkedAncestors(found, start, budget).next = at[n]
  BY <1>2, <1>7
<1>. QED
  BY <1>4, <1>5, <1>8 DEF at

\* A segment that starts at a message above the anchor is the next part of its
\* lineage, all of it in the conversation.
LEMMA SegmentContinues ==
    ASSUME Stored, NEW h \in Nat, NEW budget \in Nat \ {0}
    PROVE  LET found == ancestorSegment(Above(h + 1), budget)
               chain == linkedAncestors(found, Above(h + 1), budget)
           IN  \E used \in 0 .. budget :
                  /\ chain.links = [k \in 1 .. used |-> Above(h + k)]
                  /\ chain.next = Above(h + used + 1)
                  /\ \A k \in 1 .. used : Above(h + k) \in Within
                  /\ used = 0 => chain.next \notin Within
<1>. DEFINE start == Above(h + 1)
            found == ancestorSegment(start, budget)
            chain == linkedAncestors(found, start, budget)
            at == At(found, start, budget)
<1>0. /\ h + 1 \in Nat
      /\ Mapped /\ here \subseteq Ids /\ Within \subseteq Ids
  BY DEF Stored, Within
<1>1. start \in Ids \cup {None}
  BY <1>0, AboveEquation
<1>2. found \subseteq Within /\ (start \in found <=> start \in Within)
  BY SegmentFinds
<1>3. \A k \in 0 .. budget : at[k] = IF k = 0 THEN start
                                   ELSE IF at[k - 1] \in found THEN to[at[k - 1]] ELSE None
  <2>1. found \in SUBSET Ids
    BY <1>0, <1>2
  <2>. HIDE DEF found, start
  <2>. QED
    BY <1>0, <1>1, <2>1, AtEquation DEF FollowsFrom
<1>4. PICK used \in 0 .. budget :
         /\ chain.links = [k \in 1 .. used |-> at[k - 1]]
         /\ chain.next = at[used]
         /\ \A k \in 1 .. used : at[k - 1] \in found
         /\ used < budget => at[used] \notin found
  <2>1. found \in SUBSET Ids
    BY <1>0, <1>2
  <2>. HIDE DEF found, start
  <2>. QED
    BY <1>0, <1>1, <2>1, ChainFollows
<1>. HIDE DEF start, found, chain, at
<1>5. \A k \in 0 .. used : at[k] = Above(h + k + 1)
  <2>. DEFINE Good == {k \in Nat : k <= used => at[k] = Above(h + k + 1)}
  <2>1. 0 \in Good
    <3>1. 0 \in 0 .. budget /\ h + 0 + 1 = h + 1
      OBVIOUS
    <3>. QED
      BY <3>1, <1>3 DEF start
  <2>2. ASSUME NEW k \in Nat, k \in Good  PROVE k + 1 \in Good
    <3>. SUFFICES ASSUME k + 1 <= used PROVE at[k + 1] = Above(h + (k + 1) + 1)
      OBVIOUS
    <3>1. /\ k + 1 \in 0 .. budget /\ k + 1 # 0 /\ k + 1 \in 1 .. used /\ (k + 1) - 1 = k
          /\ h + k + 1 \in Nat /\ h + (k + 1) + 1 = (h + k + 1) + 1
      OBVIOUS
    <3>2. at[k] = Above(h + k + 1)
      BY <2>2, <3>1
    <3>2a. at[k] \in found
      BY <3>1, <1>4
    <3>3. at[k + 1] = to[at[k]]
      BY <3>1, <3>2a, <1>3
    <3>4. at[k] # None
      BY <3>2a, <1>0, <1>2, ThreadAssumption
    <3>5. Above((h + k + 1) + 1) = to[Above(h + k + 1)]
      BY <3>1, <3>2, <3>4, <1>0, AboveEquation
    <3>. QED
      BY <3>1, <3>2, <3>3, <3>5
  <2>. HIDE DEF Good
  <2>3. Nat \subseteq Good
    BY <2>1, <2>2, Induction
  <2>. QED
    BY <2>3 DEF Good
<1>6. \A k \in 1 .. used : at[k - 1] = Above(h + k)
  <2>. TAKE k \in 1 .. used
  <2>1. k - 1 \in 0 .. used /\ h + (k - 1) + 1 = h + k
    OBVIOUS
  <2>. QED
    BY <2>1, <1>5
<1>7. chain.links = [k \in 1 .. used |-> Above(h + k)]
  BY <1>4, <1>6
<1>8. chain.next = Above(h + used + 1)
  BY <1>4, <1>5
<1>9. \A k \in 1 .. used : Above(h + k) \in Within
  BY <1>2, <1>4, <1>6
<1>10. used = 0 => chain.next \notin Within
  <2>. SUFFICES ASSUME used = 0 PROVE chain.next \notin Within
    OBVIOUS
  <2>1. at[0] \notin found /\ chain.next = at[0]
    BY <1>4
  <2>2. 0 \in 0 .. budget
    OBVIOUS
  <2>3. at[0] = start
    BY <1>3, <2>2
  <2>. QED
    BY <1>2, <2>1, <2>3
<1>. QED
  BY <1>7, <1>8, <1>9, <1>10 DEF start, found, chain

(***************************************************************************)
(* The walk up a thread.  Between two segments the walk stands at the      *)
(* first message above those it has listed, and that is all it needs to    *)
(* know of what was read: the messages in between were of the conversation *)
(* when they were read, and nothing enters it later.                       *)
(***************************************************************************)
Surroundings ==
    /\ Stored /\ gone \subseteq deleted
    /\ limit \in Nat \ {0} /\ hops \in 0 .. limit
    /\ pc \in {"anchor", "walk", "found", "missing", "failed"}

Listed ==
    /\ \A k \in 1 .. hops : Above(k) \in here \ gone
    /\ nearestFirst = Readable(Lineage)

Position ==
    /\ pc = "anchor" => hops = 0
    /\ pc = "walk" => parent = Above(hops + 1)
    /\ pc \in {"walk", "found"} => Anchor \in here \ gone
    /\ StopsForCause

ThreadInv == Surroundings /\ Listed /\ Position

LEMMA OnlyOfNone == Only(<<>>, text) = <<>>
<1>1. \A s \in Seq(Ids) : Only(s, text) = Passed(s, text)[Len(s)] /\ Passed(s, text)[0] = <<>>
  BY PassedEquation
<1>2. <<>> \in Seq(Ids) /\ Len(<<>>) = 0
  OBVIOUS
<1>3. Only(<<>>, text) = Passed(<<>>, text)[0] /\ Passed(<<>>, text)[0] = <<>>
  BY <1>1, <1>2, Zenon
<1>. QED
  BY <1>3, Zenon

LEMMA ThreadStarts == Init => ThreadInv
<1>. SUFFICES ASSUME Init PROVE ThreadInv
  OBVIOUS
<1>1. Surroundings
  BY ThreadAssumption DEF Init, Surroundings, Stored, Mapped
<1>2. Listed
  <2>1. Lineage = <<>>
    BY DEF Init, Lineage
  <2>2. nearestFirst = Readable(Lineage)
    BY <2>1, OnlyOfNone DEF Readable, Init
  <2>. QED
    BY <2>2 DEF Init, Listed
<1>3. Position
  BY DEF Init, Position, StopsForCause
<1>. QED
  BY <1>1, <1>2, <1>3 DEF ThreadInv

\* What the invariant says of a thread stands while nothing of it is stored
\* anew: Listed depends on no more.
LEMMA ListedStays ==
    ASSUME Listed, UNCHANGED <<data, hops, nearestFirst, gone>>
    PROVE  Listed'
<1>1. \A k : Above(k)' = Above(k)
  BY DEF Above, data
<1>2. Lineage' = Lineage
  BY <1>1 DEF Lineage
<1>3. Readable(Lineage)' = Readable(Lineage)
  BY <1>2 DEF Readable, data
<1>. QED
  BY <1>1, <1>3 DEF Listed, data

LEMMA FindAnchorKeeps == ThreadInv /\ FindAnchor => ThreadInv'
<1>. SUFFICES ASSUME ThreadInv, FindAnchor PROVE ThreadInv'
  OBVIOUS
<1>1. Surroundings'
  BY DEF ThreadInv, FindAnchor, Surroundings, Stored, Mapped, data
<1>2. Listed'
  BY ListedStays DEF ThreadInv, FindAnchor
<1>3. Position'
  <2>1. CASE Anchor \in Within \cap text
    <3>1. /\ pc' = "walk" /\ parent' = to[Anchor] /\ hops' = 0 /\ hops = 0
          /\ Anchor \in here \ gone /\ here' = here /\ gone' = gone /\ to' = to
      BY <2>1 DEF FindAnchor, data, Within, ThreadInv, Position, Surroundings
    <3>2. Above(1) = to[Anchor]
      <4>1. Mapped /\ Anchor # None /\ 0 + 1 = 1
        BY ThreadAssumption DEF ThreadInv, Surroundings, Stored
      <4>2. Above(0) = Anchor /\ Above(0 + 1) = IF Above(0) = None THEN None ELSE to[Above(0)]
        BY <4>1, AboveEquation
      <4>. QED
        BY <4>1, <4>2
    <3>3. Above(1)' = Above(1) /\ hops' + 1 = 1
      BY <3>1 DEF Above
    <3>4. parent' = Above(hops + 1)'
      BY <3>1, <3>2, <3>3
    <3>. QED
      BY <3>1, <3>4 DEF Position, StopsForCause
  <2>2. CASE Anchor \notin Within \cap text
    BY <2>2 DEF FindAnchor, Position, StopsForCause
  <2>. QED
    BY <2>1, <2>2
<1>. QED
  BY <1>1, <1>2, <1>3 DEF ThreadInv

LEMMA SegmentKeeps == ThreadInv /\ Segment => ThreadInv'
<1>. SUFFICES ASSUME ThreadInv, Segment PROVE ThreadInv'
  OBVIOUS
<1>. DEFINE found == ancestorSegment(Above(hops + 1), Budget)
            chain == linkedAncestors(found, Above(hops + 1), Budget)
<1>1. /\ Stored /\ gone \subseteq deleted /\ limit \in Nat \ {0} /\ hops \in Nat /\ hops < limit
      /\ Budget \in Nat \ {0} /\ hops + Budget = limit
      /\ pc = "walk" /\ parent = Above(hops + 1) /\ Anchor \in here \ gone
      /\ \A k \in 1 .. hops : Above(k) \in here \ gone
      /\ nearestFirst = Only(Lineage, text)
  BY DEF ThreadInv, Surroundings, Listed, Position, Segment, Budget, Readable
<1>2. PICK used \in 0 .. Budget :
         /\ chain.links = [k \in 1 .. used |-> Above(hops + k)]
         /\ chain.next = Above(hops + used + 1)
         /\ \A k \in 1 .. used : Above(hops + k) \in Within
         /\ used = 0 => chain.next \notin Within
  BY <1>1, SegmentContinues
<1>3. /\ nearestFirst' = nearestFirst \o Only(chain.links, text)
      /\ hops' = hops + Len(chain.links)
      /\ parent' = chain.next
      /\ pc' = IF chain.links = <<>> THEN "found" ELSE "walk"
      /\ UNCHANGED <<to, bare, here, text, limit, deleted, gone>>
  BY <1>1 DEF Segment, Extend, AfterSegment, Readable, data
<1>. HIDE DEF found, chain
<1>4. Len(chain.links) = used /\ hops' = hops + used /\ hops' \in 0 .. limit
  <2>1. Len(chain.links) = used
    BY <1>2
  <2>. QED
    BY <2>1, <1>1, <1>3
<1>5. \A k : Above(k)' = Above(k)
  BY <1>3 DEF Above
<1>6. Surroundings'
  BY <1>1, <1>3, <1>4 DEF Surroundings, Stored, Mapped
<1>7. \A k \in 1 .. hops + used : Above(k) \in here \ gone
  <2>. TAKE k \in 1 .. hops + used
  <2>1. CASE k <= hops
    BY <2>1, <1>1
  <2>2. CASE k > hops
    <3>1. k - hops \in 1 .. used /\ hops + (k - hops) = k
      BY <2>2, <1>1
    <3>2. Above(k) \in Within
      BY <3>1, <1>2
    <3>. QED
      BY <3>2, <1>1 DEF Within
  <2>. QED
    BY <1>1, <2>1, <2>2
<1>8. nearestFirst' = Readable(Lineage)'
  <2>. DEFINE Set == here \ gone
              longer == [k \in 1 .. hops + used |-> Above(k)]
  <2>1. Lineage \in Seq(Set) /\ chain.links \in Seq(Set)
    <3>1. Lineage \in Seq(Set)
      BY <1>1 DEF Lineage
    <3>2. \A k \in 1 .. used : Above(hops + k) \in Set
      BY <1>1, <1>7
    <3>. QED
      BY <3>1, <3>2, <1>2
  <2>2. Lineage' = longer
    BY <1>4, <1>5 DEF Lineage
  <2>3. longer = Lineage \o chain.links
    <3>1. Len(Lineage) = hops
      BY <1>1 DEF Lineage
    <3>2. Lineage \o chain.links =
             [k \in 1 .. hops + used |-> IF k <= hops THEN Lineage[k] ELSE chain.links[k - hops]]
      BY <2>1, <3>1, <1>4
    <3>3. \A k \in 1 .. hops + used :
             Above(k) = IF k <= hops THEN Lineage[k] ELSE chain.links[k - hops]
      <4>. TAKE k \in 1 .. hops + used
      <4>1. CASE k <= hops
        BY <4>1, <1>1 DEF Lineage
      <4>2. CASE k > hops
        <5>1. k - hops \in 1 .. used /\ hops + (k - hops) = k /\ ~ k <= hops
          BY <4>2, <1>1
        <5>. QED
          BY <5>1, <1>2
      <4>. QED
        BY <1>1, <4>1, <4>2
    <3>. QED
      BY <3>2, <3>3
  <2>4. Only(Lineage \o chain.links, text) = Only(Lineage, text) \o Only(chain.links, text)
    <3>. HIDE DEF Set
    <3>1. OnlySplits(Lineage, chain.links, text)
      BY <2>1, OnlyOfConcat
    <3>. QED
      BY <3>1 DEF OnlySplits
  <2>. QED
    BY <2>2, <2>3, <2>4, <1>1, <1>3 DEF Readable
<1>9. Listed'
  BY <1>3, <1>4, <1>5, <1>7, <1>8 DEF Listed
<1>10. Position'
  <2>1. chain.links = <<>> => used = 0
    BY <1>4
  <2>2. hops + used + 1 = hops' + 1
    BY <1>1, <1>4
  <2>3. parent' = Above(hops + 1)'
    BY <2>2, <1>2, <1>3, <1>5
  <2>4. Within' = Within
    BY <1>3 DEF Within
  <2>5. pc' = "found" => parent' \notin Within'
    BY <2>1, <2>4, <1>2, <1>3
  <2>. QED
    BY <2>3, <2>5, <1>1, <1>3 DEF Position, StopsForCause
<1>. QED
  BY <1>6, <1>9, <1>10 DEF ThreadInv

LEMMA WalkEndsKeeps == ThreadInv /\ WalkEnds => ThreadInv'
<1>. SUFFICES ASSUME ThreadInv, WalkEnds PROVE ThreadInv'
  OBVIOUS
<1>1. Surroundings'
  BY DEF ThreadInv, WalkEnds, Surroundings, Stored, Mapped, data, walk
<1>2. Listed'
  BY ListedStays DEF ThreadInv, WalkEnds, walk
<1>3. Position'
  <2>1. parent = None \/ hops = limit
    BY DEF ThreadInv, Surroundings, WalkEnds
  <2>. QED
    BY <2>1 DEF ThreadInv, WalkEnds, Position, StopsForCause, Truncated, data, walk
<1>. QED
  BY <1>1, <1>2, <1>3 DEF ThreadInv

LEMMA FailsKeeps == ThreadInv /\ Fails => ThreadInv'
<1>. SUFFICES ASSUME ThreadInv, Fails PROVE ThreadInv'
  OBVIOUS
<1>1. Surroundings'
  BY DEF ThreadInv, Fails, Surroundings, Stored, Mapped, data, walk
<1>2. Listed'
  BY ListedStays DEF ThreadInv, Fails, walk
<1>3. Position'
  BY DEF Fails, Position, StopsForCause
<1>. QED
  BY <1>1, <1>2, <1>3 DEF ThreadInv

LEMMA DeleteKeeps == ThreadInv /\ Delete => ThreadInv'
<1>. SUFFICES ASSUME ThreadInv, Delete PROVE ThreadInv'
  OBVIOUS
<1>1. Surroundings'
  BY DEF ThreadInv, Delete, Surroundings, Stored, Mapped, data, walk
<1>2. Listed'
  BY ListedStays DEF ThreadInv, Delete, walk
<1>3. \A k : Above(k)' = Above(k)
  BY DEF Above, Delete, data
<1>4. Position'
  <2>1. hops' = hops /\ parent' = parent /\ pc' = pc /\ here' = here /\ gone' = gone /\ pc # "found"
    BY DEF Delete, data, walk
  <2>2. Above(hops + 1)' = Above(hops + 1)
    BY <1>3, <2>1 DEF Above, Delete, data
  <2>. QED
    BY <2>1, <2>2 DEF ThreadInv, Position, StopsForCause
<1>. QED
  BY <1>1, <1>2, <1>4 DEF ThreadInv

LEMMA ThreadKeeps == ThreadInv /\ [Next]_vars => ThreadInv'
<1>. SUFFICES ASSUME ThreadInv, [Next]_vars PROVE ThreadInv'
  OBVIOUS
<1>1. CASE UNCHANGED vars
  <2>1. Surroundings'
    BY <1>1 DEF ThreadInv, Surroundings, Stored, Mapped, data, walk, vars
  <2>2. Listed'
    BY <1>1, ListedStays DEF ThreadInv, walk, vars
  <2>3. Above(hops + 1)' = Above(hops + 1)
    BY <1>1 DEF Above, data, walk, vars
  <2>4. Position'
    BY <1>1, <2>3 DEF ThreadInv, Position, StopsForCause, Truncated, Within, data, walk, vars
  <2>. QED
    BY <2>1, <2>2, <2>4 DEF ThreadInv
<1>. QED
  BY <1>1, FindAnchorKeeps, SegmentKeeps, WalkEndsKeeps, FailsKeeps, DeleteKeeps DEF Next

LEMMA ThreadKeepsTheLine == ThreadInv => OneLineage
<1>. SUFFICES ASSUME ThreadInv PROVE OneLineage
  OBVIOUS
<1>1. /\ hops \in Nat /\ hops <= limit
      /\ \A k \in 1 .. hops : Above(k) \in here \ gone /\ Above(k) # None
      /\ nearestFirst = Readable(Lineage)
      /\ pc = "walk" => parent = Above(hops + 1)
      /\ pc = "found" => Anchor \in here \ gone
  BY ThreadAssumption DEF ThreadInv, Surroundings, Stored, Listed, Position
<1>2. nearestFirst \in Seq(here \ gone)
  <2>. DEFINE Set == here \ gone
  <2>1. Lineage \in Seq(Set)
    BY <1>1 DEF Lineage
  <2>. HIDE DEF Set
  <2>2. Only(Lineage, text) \in Seq(Set)
    BY <2>1, OnlyOfConcat
  <2>. QED
    BY <2>2, <1>1 DEF Set, Readable
<1>3. ASSUME pc = "found", NEW i \in DOMAIN Messages  PROVE Messages[i] \in here \ gone
  <2>1. Reverse(nearestFirst) \in Seq(here \ gone)
    BY <1>2 DEF Reverse
  <2>2. Messages \in Seq(here \ gone)
    BY <2>1, <1>1, <1>3 DEF Messages
  <2>. QED
    BY <2>2, <1>3
<1>. QED
  BY <1>1, <1>3 DEF OneLineage

(***************************************************************************)
(* The walk up a realm's parents.  What the name says of a parent is what  *)
(* was stored when its child was read, whatever is stored now.             *)
(***************************************************************************)
RealmInv ==
    /\ name \in Seq(Realms) /\ read \in Seq(Realms \cup {None}) /\ Len(read) = Len(name)
    /\ next \in Realms \cup {None} /\ over \in BOOLEAN
    /\ parents \in R!Parents
    /\ name = <<>> => next \in {Asked, None}
    /\ name # <<>> => Last(name) = Asked /\ (over \/ read[1] = next)
    /\ over => next = None
    /\ \A i \in 2 .. Len(name) : read[i] = name[i - 1]

LEMMA RealmAssumption == Asked \in Realms /\ None \notin Realms
BY WalksAssumption DEF R!RealmNameAssumption

LEMMA NothingNamed ==
    <<>> \in Seq(Realms) /\ <<>> \in Seq(Realms \cup {None}) /\ Len(<<>>) = 0 /\ 2 .. 0 = {}
OBVIOUS

LEMMA RealmStarts == R!Init => RealmInv
<1>. SUFFICES ASSUME R!Init PROVE RealmInv
  OBVIOUS
<1>1. /\ name = <<>> /\ read = <<>> /\ next = Asked /\ over = FALSE /\ Len(<<>>) = 0
      /\ parents \in R!Parents
  BY DEF R!Init
<1>. QED
  BY <1>1, NothingNamed, RealmAssumption DEF RealmInv

LEMMA RealmAsks == RealmInv /\ R!Ask => RealmInv'
<1>. SUFFICES ASSUME RealmInv, R!Ask PROVE RealmInv'
  OBVIOUS
<1>1. /\ next \in DOMAIN parents /\ parents' = parents /\ over' = over
      /\ name' = <<next>> \o name /\ read' = <<parents[next]>> \o read /\ next' = parents[next]
      /\ name \in Seq(Realms) /\ read \in Seq(Realms \cup {None}) /\ Len(read) = Len(name)
      /\ parents \in R!Parents /\ over \in BOOLEAN
  BY DEF R!Ask, RealmInv
<1>2. next \in Realms /\ parents[next] \in Realms \cup {None}
  BY <1>1 DEF R!Parents
<1>3. /\ name' \in Seq(Realms) /\ read' \in Seq(Realms \cup {None})
      /\ Len(name') = Len(name) + 1 /\ Len(read') = Len(name) + 1 /\ Len(name) \in Nat
      /\ name'[1] = next /\ read'[1] = parents[next]
      /\ \A i \in 2 .. Len(name) + 1 : name'[i] = name[i - 1] /\ read'[i] = read[i - 1]
  BY <1>1, <1>2
<1>4. Last(name') = Asked
  <2>1. CASE name = <<>>
    BY <2>1, <1>2, <1>3, RealmAssumption DEF Last, RealmInv
  <2>2. CASE name # <<>>
    BY <2>2, <1>1, <1>3 DEF Last, RealmInv
  <2>. QED
    BY <2>1, <2>2
<1>5. ASSUME NEW i \in 2 .. Len(name')  PROVE read'[i] = name'[i - 1]
  <2>1. read'[i] = read[i - 1]
    BY <1>3
  <2>2. CASE i = 2
    <3>1. name # <<>> /\ ~ over
      BY <2>2, <1>2, <1>3, RealmAssumption DEF RealmInv
    <3>. QED
      BY <3>1, <2>1, <2>2, <1>3 DEF RealmInv
  <2>3. CASE i # 2
    <3>1. i - 1 \in 2 .. Len(name) /\ name'[i - 1] = name[(i - 1) - 1]
      BY <2>3, <1>3
    <3>. QED
      BY <3>1, <2>1 DEF RealmInv
  <2>. QED
    BY <2>2, <2>3
<1>6. over' => next' = None
  BY <1>1, <1>2, RealmAssumption DEF RealmInv
<1>7. name' # <<>>
  BY <1>3
<1>. QED
  BY <1>1, <1>2, <1>3, <1>4, <1>5, <1>6, <1>7 DEF RealmInv

LEMMA RealmKeeps == RealmInv /\ [R!Next]_realm => RealmInv'
<1>. SUFFICES ASSUME RealmInv, [R!Next]_realm PROVE RealmInv'
  OBVIOUS
<1>1. CASE R!Stop
  BY <1>1 DEF RealmInv, R!Stop
<1>2. CASE R!Reparent
  BY <1>2 DEF RealmInv, R!Reparent
<1>3. CASE UNCHANGED realm
  BY <1>3 DEF RealmInv, realm
<1>. QED
  BY RealmAsks, <1>1, <1>2, <1>3 DEF R!Next, R!NoRow, R!Fails

LEMMA RealmNamesTheLine == RealmInv => R!ParentsFirst
<1>. SUFFICES ASSUME RealmInv PROVE R!ParentsFirst
  OBVIOUS
<1>1. name # <<>> => Last(name) = Asked /\ (over \/ read[1] = next)
  BY DEF RealmInv
<1>2. \A i \in 2 .. Len(name) : read[i] = name[i - 1]
  BY DEF RealmInv
<1>. QED
  BY <1>1, <1>2 DEF R!ParentsFirst, Last

-----------------------------------------------------------------------------
LEMMA WalksStart == WalksInit => ThreadInv /\ RealmInv
<1>. SUFFICES ASSUME WalksInit PROVE ThreadInv /\ RealmInv
  OBVIOUS
<1>1. NoThread => ThreadInv
  <2>. SUFFICES ASSUME NoThread PROVE ThreadInv
    OBVIOUS
  <2>1. Surroundings
    BY DEF NoThread, Surroundings, Stored, Mapped
  <2>2. Lineage = <<>>
    BY DEF NoThread, Lineage
  <2>3. nearestFirst = Readable(Lineage)
    BY <2>2, OnlyOfNone DEF Readable, NoThread
  <2>4. Listed
    BY <2>3 DEF NoThread, Listed
  <2>5. Position
    BY DEF NoThread, Position, StopsForCause
  <2>. QED
    BY <2>1, <2>4, <2>5 DEF ThreadInv
<1>2. NoRealm => RealmInv
  <2>. SUFFICES ASSUME NoRealm PROVE RealmInv
    OBVIOUS
  <2>1. parents \in R!Parents
    <3>1. <<>> \in [{} -> Realms \cup {None}]
      OBVIOUS
    <3>. QED
      BY <3>1 DEF NoRealm, R!Parents
  <2>. QED
    BY <2>1, NothingNamed, RealmAssumption DEF NoRealm, RealmInv
<1>. QED
  BY <1>1, <1>2, ThreadStarts, RealmStarts DEF WalksInit

LEMMA WalksKeep ==
    ThreadInv /\ RealmInv /\ [WalksNext]_<<task, vars, realm, typed, calendar>>
        => ThreadInv' /\ RealmInv'
<1>. SUFFICES ASSUME ThreadInv, RealmInv, [WalksNext]_<<task, vars, realm, typed, calendar>>
              PROVE  ThreadInv' /\ RealmInv'
  OBVIOUS
<1>1. [Next]_vars /\ [R!Next]_realm
  BY DEF WalksNext
<1>. QED
  BY <1>1, ThreadKeeps, RealmKeeps

\* A thread is one lineage and a realm's name one line of parents, however
\* many round trips either took and whatever was deleted or moved in between.
THEOREM WalksKeepTheLine == WalksSpec => []KeepsTheLine
<1>1. ThreadInv /\ RealmInv => KeepsTheLine
  BY ThreadKeepsTheLine, RealmNamesTheLine DEF KeepsTheLine
<1>. QED
  BY <1>1, WalksStart, WalksKeep, PTL DEF WalksSpec

\* No boundary between segments, or between the two shapes of a link, ends a
\* walk: only the limit, the root or a message that is not there does.
THEOREM WalksStopForCause == WalksSpec => []StopsForCause
<1>1. ThreadInv => StopsForCause
  BY DEF ThreadInv, Position
<1>. QED
  BY <1>1, WalksStart, WalksKeep, PTL DEF WalksSpec

(***************************************************************************)
(* What a definition that goes on further up defines.                      *)
(***************************************************************************)
LEMMA Smallest ==
    ASSUME NEW ns \in SUBSET Nat, ns # {}
    PROVE  T!Min(ns) \in ns /\ \A m \in ns : T!Min(ns) <= m
<1>1. \E n \in ns : \A m \in ns : n <= m
  BY LeastNumber
<1>. QED
  BY <1>1 DEF T!Min

LEMMA Largest ==
    ASSUME NEW n \in Nat, NEW ns \in SUBSET (0 .. n), ns # {}
    PROVE  T!Max(ns) \in ns /\ \A m \in ns : m <= T!Max(ns)
<1>. DEFINE short == {n - m : m \in ns}
<1>1. short \in SUBSET Nat /\ short # {}
  OBVIOUS
<1>2. PICK k \in short : \A m \in short : k <= m
  BY <1>1, LeastNumber
<1>3. PICK largest \in ns : k = n - largest
  BY <1>2
<1>4. \A m \in ns : m <= largest
  <2>. TAKE m \in ns
  <2>1. n - m \in short
    OBVIOUS
  <2>. QED
    BY <1>2, <1>3, <2>1
<1>5. \E x \in ns : \A y \in ns : x >= y
  BY <1>4
<1>. HIDE DEF short
<1>6. T!Max(ns) \in ns /\ \A y \in ns : T!Max(ns) >= y
  BY <1>5 DEF T!Max
<1>. QED
  BY <1>6

\* Induction from the end of a text to its beginning.
LEMMA Downward ==
    ASSUME NEW n \in Nat, NEW Good,
           \A i \in 1 .. n : (\A j \in i + 1 .. n : j \in Good) => i \in Good
    PROVE  1 .. n \subseteq Good
<1>. SUFFICES ASSUME (1 .. n) \ Good # {} PROVE FALSE
  OBVIOUS
<1>1. (1 .. n) \ Good \in SUBSET (0 .. n)
  OBVIOUS
<1>2. PICK i \in (1 .. n) \ Good : \A m \in (1 .. n) \ Good : m <= i
  BY <1>1, Largest
<1>. QED
  BY <1>2

\* f at a place is what F makes of f at the place hop leads up to.
Jumped(f, n, m, d, hop, F) ==
    \A i \in 1 .. m : f[i] = IF i > n THEN d ELSE F[<<i, f[hop[i]]>>]

LEMMA Jumps ==
    ASSUME NEW n \in Nat, NEW m \in Nat, n <= m, NEW D, NEW d \in D,
           NEW hop \in [1 .. n -> 1 .. m], \A i \in 1 .. n : i < hop[i],
           NEW F, \A i \in 1 .. n, x \in D : F[<<i, x>>] \in D
    PROVE  \E f \in [1 .. m -> D] : Jumped(f, n, m, d, hop, F)
<1>. DEFINE So(f, i) == f[i] = IF i > n THEN d ELSE F[<<i, f[hop[i]]>>]
            Good == {k \in Nat : k <= n =>
                        \E f \in [1 .. m -> D] : \A i \in 1 .. m : i > n - k => So(f, i)}
<1>1. 0 \in Good
  <2>. DEFINE g == [i \in 1 .. m |-> d]
  <2>1. g \in [1 .. m -> D] /\ \A i \in 1 .. m : g[i] = d
    OBVIOUS
  <2>. HIDE DEF g
  <2>2. \A i \in 1 .. m : i > n - 0 => So(g, i)
    BY <2>1
  <2>. QED
    BY <2>1, <2>2
<1>2. ASSUME NEW k \in Nat, k \in Good  PROVE k + 1 \in Good
  <2>. SUFFICES ASSUME k + 1 <= n
                PROVE  \E f \in [1 .. m -> D] : \A i \in 1 .. m : i > n - (k + 1) => So(f, i)
    OBVIOUS
  <2>1. PICK f \in [1 .. m -> D] : \A i \in 1 .. m : i > n - k => So(f, i)
    BY <1>2
  <2>2. n - k \in 1 .. n /\ n - k \in 1 .. m
    OBVIOUS
  <2>3. hop[n - k] \in 1 .. m /\ n - k < hop[n - k]
    BY <2>2
  <2>. DEFINE v == F[<<n - k, f[hop[n - k]]>>]
              g == [f EXCEPT ![n - k] = v]
  <2>4. v \in D
    BY <2>2, <2>3
  <2>. HIDE DEF v
  <2>5. g \in [1 .. m -> D] /\ g[n - k] = v /\ \A i \in 1 .. m : i > n - k => g[i] = f[i]
    BY <2>2, <2>4
  <2>. HIDE DEF g
  <2>6. ASSUME NEW i \in 1 .. m, i > n - (k + 1)  PROVE So(g, i)
    <3>1. CASE i = n - k
      <4>1. g[hop[i]] = f[hop[i]]
        BY <2>3, <2>5, <3>1
      <4>2. ~(i > n)
        BY <3>1
      <4>. QED
        BY <2>5, <3>1, <4>1, <4>2 DEF v
    <3>2. CASE i > n - k
      <4>1. So(f, i) /\ g[i] = f[i]
        BY <2>1, <2>5, <3>2
      <4>2. CASE i > n
        BY <4>1, <4>2
      <4>3. CASE i <= n
        <5>1. hop[i] \in 1 .. m /\ i < hop[i]
          BY <4>3
        <5>2. g[hop[i]] = f[hop[i]]
          BY <2>5, <3>2, <5>1
        <5>. QED
          BY <4>1, <4>3, <5>2
      <4>. QED
        BY <4>2, <4>3
    <3>. QED
      BY <2>6, <3>1, <3>2
  <2>. QED
    BY <2>5, <2>6
<1>. HIDE DEF Good
<1>3. n \in Good
  BY <1>1, <1>2, Induction
<1>4. PICK f \in [1 .. m -> D] : \A i \in 1 .. m : i > n - n => So(f, i)
  BY <1>3 DEF Good
<1>5. \A i \in 1 .. m : So(f, i)
  BY <1>4
<1>. QED
  BY <1>5 DEF Jumped

(***************************************************************************)
(* What is stored of a text.  A tag goes from its bracket to the one that  *)
(* closes it, whichever way it is looked for; and what is left has no      *)
(* bracket that begins one.                                                *)
(***************************************************************************)
Verbatim(t, i) == t[i] # "<" \/ T!EmptyTag(t, i)

LEMMA TagEnds ==
    ASSUME NEW C, NEW t \in Seq(C), NEW i \in 1 .. Len(t)
    PROVE  /\ T!TagEnd(t, i) \in i + 1 .. Len(t) + 1
           /\ \A j \in i + 1 .. T!TagEnd(t, i) - 1 : t[j] # ">"
           /\ T!TagEnd(t, i) <= Len(t) => t[T!TagEnd(t, i)] = ">"
<1>. DEFINE close == {j \in i + 1 .. Len(t) : t[j] = ">"}
<1>1. T!TagEnd(t, i) = IF close = {} THEN Len(t) + 1 ELSE T!Min(close)
  BY DEF T!TagEnd
<1>2. CASE close = {}
  BY <1>1, <1>2
<1>3. CASE close # {}
  <2>1. close \in SUBSET Nat
    OBVIOUS
  <2>2. T!Min(close) \in close /\ \A m \in close : T!Min(close) <= m
    BY <1>3, <2>1, Smallest
  <2>3. PICK least \in close : T!TagEnd(t, i) = least /\ \A m \in close : least <= m
    BY <1>1, <1>3, <2>2
  <2>4. ASSUME NEW j \in i + 1 .. least - 1  PROVE t[j] # ">"
    <3>1. j \in i + 1 .. Len(t) /\ j \notin close
      BY <2>3
    <3>. QED
      BY <3>1
  <2>. QED
    BY <2>3, <2>4
<1>. QED
  BY <1>2, <1>3

LEMMA TagMatches ==
    ASSUME NEW C, NEW t \in Seq(C), NEW i \in 1 .. Len(t)
    PROVE  T!TagMatch(t, i) = IF Verbatim(t, i) THEN 0
                              ELSE IF T!TagEnd(t, i) > Len(t) THEN Len(t) ELSE T!TagEnd(t, i)
<1>. DEFINE close == T!TagEnd(t, i)
            ends(body) == {e \in body .. Len(t) : /\ \A j \in body .. e : t[j] # ">"
                                                  /\ e = Len(t) \/ t[e + 1] = ">"}
            slashed == IF i < Len(t) /\ t[i + 1] = "/" THEN ends(i + 2) ELSE {}
            every == IF slashed # {} THEN slashed ELSE ends(i + 1)
<1>1. T!TagMatch(t, i) = IF t[i] # "<" \/ every = {} THEN 0
                         ELSE IF T!Max(every) = Len(t) THEN Len(t) ELSE T!Max(every) + 1
  BY DEF T!TagMatch
<1>2. /\ close \in i + 1 .. Len(t) + 1
      /\ \A j \in i + 1 .. close - 1 : t[j] # ">"
      /\ close <= Len(t) => t[close] = ">"
  BY TagEnds
<1>. HIDE DEF close
<1>3. ASSUME NEW body \in {i + 1, i + 2}, body < close
      PROVE  ends(body) = {close - 1}
  <2>1. close - 1 \in ends(body)
    BY <1>2, <1>3
  <2>2. ASSUME NEW e \in ends(body)  PROVE e = close - 1
    <3>1. ~(close <= e)
      BY <1>2, <1>3
    <3>2. ~(e < close - 1)
      BY <1>2, <1>3
    <3>. QED
      BY <1>2, <3>1, <3>2
  <2>. QED
    BY <2>1, <2>2
<1>4. ASSUME NEW body \in {i + 1, i + 2}, body = close
      PROVE  ends(body) = {}
  BY <1>2, <1>4
<1>5. slashed = {} \/ slashed = {close - 1}
  <2>1. CASE i < Len(t) /\ t[i + 1] = "/"
    <3>1. close # i + 1
      BY <1>2, <2>1
    <3>2. CASE i + 2 < close
      BY <1>3, <2>1, <3>2
    <3>3. CASE i + 2 = close
      BY <1>4, <2>1, <3>3
    <3>. QED
      BY <1>2, <3>1, <3>2, <3>3
  <2>2. CASE ~(i < Len(t) /\ t[i + 1] = "/")
    BY <2>2
  <2>. QED
    BY <2>1, <2>2
<1>6. close = i + 1 => slashed = {}
  <2>. SUFFICES ASSUME close = i + 1  PROVE slashed = {}
    OBVIOUS
  <2>1. ~(i < Len(t) /\ t[i + 1] = "/")
    BY <1>2
  <2>. QED
    BY <2>1
<1>7. every = IF close = i + 1 THEN {} ELSE {close - 1}
  <2>1. CASE close = i + 1
    BY <1>4, <1>6, <2>1
  <2>2. CASE close # i + 1
    <3>1. ends(i + 1) = {close - 1}
      BY <1>2, <1>3, <2>2
    <3>. QED
      BY <1>5, <2>2, <3>1
  <2>. QED
    BY <2>1, <2>2
<1>. HIDE DEF ends, slashed, every
<1>8. Verbatim(t, i) <=> t[i] # "<" \/ close = i + 1
  BY DEF Verbatim, T!EmptyTag, close
<1>9. CASE Verbatim(t, i)
  BY <1>1, <1>7, <1>8, <1>9
<1>10. CASE ~Verbatim(t, i)
  <2>1. every = {close - 1} /\ close - 1 \in 0 .. Len(t)
    BY <1>2, <1>7, <1>8, <1>10
  <2>2. T!Max(every) = close - 1
    <3>1. every \in SUBSET (0 .. Len(t)) /\ every # {} /\ Len(t) \in Nat
      BY <2>1
    <3>2. T!Max(every) \in every
      BY <3>1, Largest
    <3>. QED
      BY <2>1, <3>2
  <2>3. T!TagMatch(t, i) = IF close - 1 = Len(t) THEN Len(t) ELSE close - 1 + 1
    BY <1>1, <1>8, <1>10, <2>1, <2>2
  <2>4. T!TagMatch(t, i) = IF close > Len(t) THEN Len(t) ELSE close
    BY <1>2, <2>3
  <2>. QED
    BY <1>10, <2>4 DEF close
<1>. QED
  BY <1>9, <1>10

Strip(t) ==
    LET from[i \in 1 .. Len(t) + 2] ==
            IF i > Len(t) THEN <<>>
            ELSE IF t[i] # "<" \/ T!EmptyTag(t, i) THEN <<t[i]>> \o from[i + 1]
            ELSE from[T!TagEnd(t, i) + 1]
    IN  from

Strips(f, t) ==
    \A i \in 1 .. Len(t) + 2 :
       f[i] = IF i > Len(t) THEN <<>>
              ELSE IF Verbatim(t, i) THEN <<t[i]>> \o f[i + 1]
              ELSE f[T!TagEnd(t, i) + 1]

LEMMA StripEquation ==
    ASSUME NEW C, NEW t \in Seq(C)
    PROVE  /\ Strip(t) \in [1 .. Len(t) + 2 -> Seq(C)] /\ Strips(Strip(t), t)
           /\ T!SanitizeForStorage(t) = Strip(t)[1]
<1>. DEFINE n == Len(t)
            hop == [i \in 1 .. n |-> IF Verbatim(t, i) THEN i + 1 ELSE T!TagEnd(t, i) + 1]
            F == [p \in (1 .. n) \X Seq(C) |->
                     IF Verbatim(t, p[1]) THEN <<t[p[1]]>> \o p[2] ELSE p[2]]
<1>1. n \in Nat /\ n + 2 \in Nat /\ n <= n + 2 /\ <<>> \in Seq(C)
  OBVIOUS
<1>2. \A i \in 1 .. n : T!TagEnd(t, i) \in i + 1 .. n + 1
  BY TagEnds
<1>3. hop \in [1 .. n -> 1 .. n + 2] /\ \A i \in 1 .. n : i < hop[i]
  BY <1>1, <1>2
<1>4. \A i \in 1 .. n, x \in Seq(C) :
         F[<<i, x>>] = (IF Verbatim(t, i) THEN <<t[i]>> \o x ELSE x)
  OBVIOUS
<1>5. \A i \in 1 .. n, x \in Seq(C) : F[<<i, x>>] \in Seq(C)
  <2>. TAKE i \in 1 .. n, x \in Seq(C)
  <2>1. <<t[i]>> \in Seq(C)
    OBVIOUS
  <2>2. <<t[i]>> \o x \in Seq(C)
    BY <2>1
  <2>. QED
    BY <1>4, <2>2
<1>6. \A i \in 1 .. n : hop[i] = IF Verbatim(t, i) THEN i + 1 ELSE T!TagEnd(t, i) + 1
  OBVIOUS
<1>. HIDE DEF hop, F
<1>7. PICK f \in [1 .. n + 2 -> Seq(C)] :
         \A i \in 1 .. n + 2 : f[i] = IF i > n THEN <<>> ELSE F[<<i, f[hop[i]]>>]
  <2>. DEFINE D == Seq(C)
  <2>1. /\ n \in Nat /\ n + 2 \in Nat /\ n <= n + 2 /\ <<>> \in D
        /\ hop \in [1 .. n -> 1 .. n + 2] /\ \A i \in 1 .. n : i < hop[i]
        /\ \A i \in 1 .. n, x \in D : F[<<i, x>>] \in D
    BY <1>1, <1>3, <1>5
  <2>. HIDE DEF D, n
  <2>2. \E f \in [1 .. n + 2 -> D] : Jumped(f, n, n + 2, <<>>, hop, F)
    BY <2>1, Jumps
  <2>. QED
    BY <2>2 DEF D, Jumped
<1>8. ASSUME NEW i \in 1 .. n + 2
      PROVE  f[i] = IF i > n THEN <<>>
                    ELSE IF Verbatim(t, i) THEN <<t[i]>> \o f[i + 1]
                    ELSE f[T!TagEnd(t, i) + 1]
  <2>1. CASE i > n
    BY <1>7, <2>1
  <2>2. CASE i <= n
    <3>1. i \in 1 .. n /\ hop[i] \in 1 .. n + 2
      BY <1>3, <2>2
    <3>2. f[hop[i]] \in Seq(C)
      BY <3>1
    <3>3. f[i] = F[<<i, f[hop[i]]>>]
      BY <1>7, <2>2
    <3>4. f[i] = IF Verbatim(t, i) THEN <<t[i]>> \o f[hop[i]] ELSE f[hop[i]]
      BY <1>4, <3>1, <3>2, <3>3
    <3>. QED
      BY <1>6, <2>2, <3>1, <3>4
  <2>. QED
    BY <1>1, <2>1, <2>2
<1>. DEFINE IsSo(g) == g = [i \in 1 .. n + 2 |->
                               IF i > n THEN <<>>
                               ELSE IF t[i] # "<" \/ T!EmptyTag(t, i) THEN <<t[i]>> \o g[i + 1]
                               ELSE g[T!TagEnd(t, i) + 1]]
<1>9. IsSo(f)
  <2>1. f = [i \in 1 .. n + 2 |-> f[i]]
    BY <1>7
  <2>. QED
    BY <1>8, <2>1 DEF Verbatim
<1>10. IsSo(Strip(t))
  BY <1>9 DEF Strip
<1>11. Strips(Strip(t), t) /\ DOMAIN Strip(t) = 1 .. n + 2
  BY <1>10 DEF Strips, Verbatim
<1>. DEFINE g == Strip(t)
<1>. HIDE DEF g, IsSo
<1>12. T!SanitizeForStorage(t) = g[1]
  BY DEF T!SanitizeForStorage, Strip, g
<1>13. Strips(g, t) /\ DOMAIN g = 1 .. n + 2
  BY <1>11 DEF g
<1>14. \A i \in 1 .. n + 2 : g[i] \in Seq(C)
  <2>. DEFINE Good == {i \in 1 .. n + 2 : g[i] \in Seq(C)}
  <2>1. ASSUME NEW i \in 1 .. n + 2, \A j \in i + 1 .. n + 2 : j \in Good
        PROVE  i \in Good
    <3>1. CASE i > n
      BY <1>1, <1>13, <3>1 DEF Strips
    <3>2. CASE i <= n
      <4>1. i \in 1 .. n /\ i + 1 \in i + 1 .. n + 2 /\ T!TagEnd(t, i) + 1 \in i + 1 .. n + 2
        BY <1>2, <3>2
      <4>2. g[i + 1] \in Seq(C) /\ g[T!TagEnd(t, i) + 1] \in Seq(C) /\ <<t[i]>> \in Seq(C)
        BY <2>1, <4>1
      <4>3. <<t[i]>> \o g[i + 1] \in Seq(C)
        BY <4>2
      <4>4. g[i] = IF Verbatim(t, i) THEN <<t[i]>> \o g[i + 1] ELSE g[T!TagEnd(t, i) + 1]
        BY <1>13, <3>2 DEF Strips
      <4>. QED
        BY <4>2, <4>3, <4>4
    <3>. QED
      BY <3>1, <3>2
  <2>. HIDE DEF Good
  <2>2. 1 .. n + 2 \subseteq Good
    BY <1>1, <2>1, Downward
  <2>. QED
    BY <2>2 DEF Good
<1>15. g = [i \in 1 .. n + 2 |-> g[i]]
  BY <1>10, <1>13 DEF g, IsSo
<1>. QED
  BY <1>12, <1>13, <1>14, <1>15 DEF g

Replace(t) ==
    LET from[i \in 1 .. Len(t) + 1] ==
            IF i > Len(t) THEN <<>>
            ELSE IF T!TagMatch(t, i) = 0 THEN <<t[i]>> \o from[i + 1]
            ELSE from[T!TagMatch(t, i) + 1]
    IN  from

LEMMA SameReplacement ==
    ASSUME NEW C, NEW t \in Seq(C)
    PROVE  T!Replaced(t) = T!SanitizeForStorage(t)
<1>. DEFINE n == Len(t)
            onward(i) == IF Verbatim(t, i) THEN i + 1
                        ELSE IF T!TagEnd(t, i) > n THEN n + 1 ELSE T!TagEnd(t, i) + 1
            f == [i \in 1 .. n + 1 |-> Strip(t)[i]]
            IsSo(g) == g = [i \in 1 .. n + 1 |->
                               IF i > n THEN <<>>
                               ELSE IF T!TagMatch(t, i) = 0 THEN <<t[i]>> \o g[i + 1]
                               ELSE g[T!TagMatch(t, i) + 1]]
            Rewrites(g) == \A i \in 1 .. n + 1 :
                           g[i] = IF i > n THEN <<>>
                                  ELSE IF Verbatim(t, i) THEN <<t[i]>> \o g[onward(i)]
                                  ELSE g[onward(i)]
<1>1. n \in Nat /\ n + 1 \in Nat
  OBVIOUS
<1>2. \A i \in 1 .. n : T!TagEnd(t, i) \in i + 1 .. n + 1
  BY TagEnds
<1>3. \A i \in 1 .. n : T!TagMatch(t, i) = IF Verbatim(t, i) THEN 0
                                           ELSE IF T!TagEnd(t, i) > n THEN n ELSE T!TagEnd(t, i)
  BY TagMatches
<1>4. Strips(Strip(t), t) /\ T!SanitizeForStorage(t) = Strip(t)[1]
  BY StripEquation
<1>5. \A i \in 1 .. n : onward(i) \in i + 1 .. n + 1
  BY <1>1, <1>2
<1>6. ASSUME NEW i \in 1 .. n + 1, NEW g
      PROVE  (IF i > n THEN <<>>
              ELSE IF Verbatim(t, i) THEN <<t[i]>> \o g[onward(i)] ELSE g[onward(i)])
             = (IF i > n THEN <<>> ELSE IF T!TagMatch(t, i) = 0 THEN <<t[i]>> \o g[i + 1]
                                   ELSE g[T!TagMatch(t, i) + 1])
  <2>1. CASE i > n
    BY <2>1
  <2>2. CASE i <= n
    <3>1. i \in 1 .. n
      BY <2>2
    <3>2. T!TagMatch(t, i) = 0 <=> Verbatim(t, i)
      BY <1>1, <1>2, <1>3, <3>1
    <3>3. ~Verbatim(t, i) => T!TagMatch(t, i) + 1 = onward(i)
      BY <1>1, <1>3, <3>1
    <3>. QED
      BY <2>2, <3>2, <3>3
  <2>. QED
    BY <1>1, <2>1, <2>2
<1>7. Rewrites(f)
  <2>1. \A i \in 1 .. n + 1 : f[i] = Strip(t)[i]
    OBVIOUS
  <2>2. ASSUME NEW i \in 1 .. n + 1
        PROVE  f[i] = IF i > n THEN <<>>
                      ELSE IF Verbatim(t, i) THEN <<t[i]>> \o f[onward(i)] ELSE f[onward(i)]
    <3>1. Strip(t)[i] = IF i > n THEN <<>>
                        ELSE IF Verbatim(t, i) THEN <<t[i]>> \o Strip(t)[i + 1]
                        ELSE Strip(t)[T!TagEnd(t, i) + 1]
      BY <1>4 DEF Strips
    <3>2. CASE i > n
      BY <2>1, <3>1, <3>2
    <3>3. CASE i <= n
      <4>1. i \in 1 .. n
        BY <3>3
      <4>2. f[onward(i)] = Strip(t)[onward(i)]
        BY <1>1, <1>5, <2>1, <4>1
      <4>3. n + 1 \in 1 .. n + 2 /\ n + 2 \in 1 .. n + 2
        BY <1>1
      <4>4. \A k \in {n + 1, n + 2} : Strip(t)[k] = <<>>
        <5>. TAKE k \in {n + 1, n + 2}
        <5>1. k \in 1 .. n + 2 /\ k > n
          BY <1>1, <4>3
        <5>. QED
          BY <1>4, <5>1 DEF Strips
      <4>5. ASSUME ~Verbatim(t, i)
            PROVE  Strip(t)[T!TagEnd(t, i) + 1] = Strip(t)[onward(i)]
        <5>1. CASE T!TagEnd(t, i) > n
          <6>1. PICK e \in i + 1 .. n + 1 : e = T!TagEnd(t, i)
            BY <1>2, <4>1
          <6>2. e + 1 = n + 2
            BY <1>1, <4>1, <5>1, <6>1
          <6>3. Strip(t)[e + 1] = <<>> /\ Strip(t)[onward(i)] = <<>>
            <7>1. onward(i) = n + 1
              BY <4>5, <5>1
            <7>. QED
              BY <4>4, <6>2, <7>1
          <6>. QED
            BY <6>1, <6>3
        <5>2. CASE ~(T!TagEnd(t, i) > n)
          BY <4>5, <5>2
        <5>. QED
          BY <5>1, <5>2
      <4>. QED
        BY <2>1, <3>1, <3>3, <4>2, <4>5
    <3>. QED
      BY <1>1, <3>2, <3>3
  <2>. QED
    BY <2>2
<1>8. IsSo(f)
  <2>1. f = [i \in 1 .. n + 1 |-> f[i]]
    OBVIOUS
  <2>. HIDE DEF f
  <2>. QED
    BY <1>6, <1>7, <2>1
<1>9. IsSo(Replace(t))
  BY <1>8 DEF Replace
<1>10. Rewrites(Replace(t))
  BY <1>6, <1>9
<1>. DEFINE h == Replace(t)
            Good == {i \in 1 .. n + 1 : h[i] = f[i]}
<1>. HIDE DEF IsSo, f
<1>11. Rewrites(h)
  BY <1>10
<1>12. ASSUME NEW i \in 1 .. n + 1, \A j \in i + 1 .. n + 1 : j \in Good
       PROVE  i \in Good
  <2>. HIDE DEF h
  <2>1. CASE i > n
    BY <1>7, <1>11, <2>1
  <2>2. CASE i <= n
    <3>1. h[onward(i)] = f[onward(i)]
      BY <1>5, <1>12, <2>2
    <3>. QED
      BY <1>7, <1>11, <2>2, <3>1
  <2>. QED
    BY <1>1, <2>1, <2>2
<1>13. 1 .. n + 1 \subseteq Good
  <2>. HIDE DEF Good
  <2>. QED
    BY <1>1, <1>12, Downward
<1>14. h[1] = f[1] /\ f[1] = Strip(t)[1]
  BY <1>1, <1>13 DEF f
<1>15. T!Replaced(t) = h[1]
  BY DEF T!Replaced, Replace
<1>. QED
  BY <1>4, <1>14, <1>15

\* No bracket begins a tag.
Calm(u) == \A j \in 1 .. Len(u) : u[j] = "<" => j = Len(u) \/ u[j + 1] = ">"

LEMMA Prefixed ==
    ASSUME NEW C, NEW c \in C, NEW u \in Seq(C)
    PROVE  /\ <<c>> \o u \in Seq(C) /\ Len(<<c>> \o u) = Len(u) + 1
           /\ (<<c>> \o u)[1] = c
           /\ \A j \in 1 .. Len(u) : (<<c>> \o u)[j + 1] = u[j]
<1>1. <<c>> \in Seq(C) /\ Len(<<c>>) = 1 /\ <<c>>[1] = c
  OBVIOUS
<1>. QED
  BY <1>1

LEMMA CalmGrows ==
    ASSUME NEW C, NEW c \in C, NEW u \in Seq(C), Calm(u), c = "<" => u = <<>> \/ u[1] = ">"
    PROVE  Calm(<<c>> \o u)
<1>. DEFINE w == <<c>> \o u
<1>1. /\ Len(w) = Len(u) + 1 /\ Len(u) \in Nat /\ w[1] = c
      /\ \A j \in 1 .. Len(u) : w[j + 1] = u[j]
  BY Prefixed
<1>. HIDE DEF w
<1>2. ASSUME NEW j \in 1 .. Len(w), w[j] = "<"  PROVE j = Len(w) \/ w[j + 1] = ">"
  <2>1. CASE j = 1
    <3>1. u = <<>> \/ u[1] = ">"
      BY <1>1, <1>2, <2>1
    <3>2. CASE u = <<>>
      BY <1>1, <2>1, <3>2
    <3>3. CASE u # <<>>
      <4>1. 1 \in 1 .. Len(u)
        BY <3>3
      <4>. QED
        BY <1>1, <2>1, <3>1, <3>3, <4>1
    <3>. QED
      BY <3>2, <3>3
  <2>2. CASE j # 1
    <3>1. PICK k \in 1 .. Len(u) : j = k + 1
      <4>1. j - 1 \in 1 .. Len(u) /\ j = j - 1 + 1
        BY <1>1, <2>2
      <4>. QED
        BY <4>1
    <3>2. u[k] = "<"
      BY <1>1, <1>2, <3>1
    <3>3. k = Len(u) \/ u[k + 1] = ">"
      BY <3>2 DEF Calm
    <3>4. CASE k # Len(u)
      <4>1. k + 1 \in 1 .. Len(u)
        BY <1>1, <3>4
      <4>. QED
        BY <1>1, <3>1, <3>3, <3>4, <4>1
    <3>. QED
      BY <1>1, <3>1, <3>4
  <2>. QED
    BY <2>1, <2>2
<1>. QED
  BY <1>2 DEF Calm, w

\* Such a text is stored as it is.
LEMMA CalmStays ==
    ASSUME NEW C, NEW u \in Seq(C), Calm(u)
    PROVE  T!SanitizeForStorage(u) = u
<1>. DEFINE n == Len(u)
            g == Strip(u)
            Good == {i \in 1 .. n + 2 : g[i] = SubSeq(u, i, n)}
<1>1. n \in Nat /\ n + 2 \in Nat
  OBVIOUS
<1>2. Strips(g, u) /\ T!SanitizeForStorage(u) = g[1]
  BY StripEquation
<1>. HIDE DEF g
<1>3. ASSUME NEW i \in 1 .. n  PROVE Verbatim(u, i)
  <2>. SUFFICES ASSUME u[i] = "<" PROVE T!TagEnd(u, i) = i + 1
    BY DEF Verbatim, T!EmptyTag
  <2>1. /\ T!TagEnd(u, i) \in i + 1 .. n + 1
        /\ \A j \in i + 1 .. T!TagEnd(u, i) - 1 : u[j] # ">"
    BY TagEnds
  <2>2. i = n \/ u[i + 1] = ">"
    BY DEF Calm
  <2>3. PICK e \in i + 1 .. n + 1 : e = T!TagEnd(u, i) /\ \A j \in i + 1 .. e - 1 : u[j] # ">"
    BY <2>1
  <2>4. e = i + 1
    BY <1>1, <2>2, <2>3
  <2>. QED
    BY <2>3, <2>4
<1>4. ASSUME NEW i \in 1 .. n + 2, \A j \in i + 1 .. n + 2 : j \in Good
      PROVE  i \in Good
  <2>1. CASE i > n
    <3>1. g[i] = <<>>
      BY <1>2, <2>1 DEF Strips
    <3>2. SubSeq(u, i, n) = <<>>
      BY <1>1, <2>1
    <3>. QED
      BY <3>1, <3>2
  <2>2. CASE i <= n
    <3>1. i \in 1 .. n /\ i + 1 \in i + 1 .. n + 2 /\ i + 1 \in 1 .. n + 2
      BY <1>1, <2>2
    <3>2. g[i] = <<u[i]>> \o SubSeq(u, i + 1, n)
      <4>1. g[i + 1] = SubSeq(u, i + 1, n)
        BY <1>4, <3>1
      <4>2. g[i] = <<u[i]>> \o g[i + 1]
        <5>1. Verbatim(u, i)
          BY <1>3, <3>1
        <5>2. g[i] = IF Verbatim(u, i) THEN <<u[i]>> \o g[i + 1] ELSE g[T!TagEnd(u, i) + 1]
          BY <1>1, <1>2, <2>2 DEF Strips
        <5>. QED
          BY <5>1, <5>2
      <4>. QED
        BY <4>1, <4>2
    <3>3. <<u[i]>> \o SubSeq(u, i + 1, n) = SubSeq(u, i, n)
      <4>. DEFINE v == SubSeq(u, i + 1, n)
                  w == SubSeq(u, i, n)
      <4>1. /\ v \in Seq(C) /\ Len(v) = n - i /\ \A j \in 1 .. n - i : v[j] = u[i + j]
            /\ w \in Seq(C) /\ Len(w) = n - i + 1 /\ \A j \in 1 .. n - i + 1 : w[j] = u[i + j - 1]
        BY <1>1, <3>1
      <4>2. u[i] \in C
        BY <3>1
      <4>. HIDE DEF v, w
      <4>3. /\ <<u[i]>> \o v \in Seq(C) /\ Len(<<u[i]>> \o v) = n - i + 1
            /\ (<<u[i]>> \o v)[1] = u[i]
            /\ \A j \in 1 .. n - i : (<<u[i]>> \o v)[j + 1] = v[j]
        <5>1. /\ <<u[i]>> \o v \in Seq(C) /\ Len(<<u[i]>> \o v) = Len(v) + 1
              /\ (<<u[i]>> \o v)[1] = u[i]
              /\ \A j \in 1 .. Len(v) : (<<u[i]>> \o v)[j + 1] = v[j]
          <6>1. v \in Seq(C)
            BY <4>1
          <6>. QED
            BY <4>2, <6>1, Prefixed
        <5>. QED
          BY <4>1, <5>1
      <4>4. PICK x \in Seq(C) : x = <<u[i]>> \o v
        BY <4>3
      <4>5. Len(x) = Len(w)
        BY <4>1, <4>3, <4>4
      <4>6. ASSUME NEW j \in 1 .. Len(w)  PROVE x[j] = w[j]
        <5>1. CASE j = 1
          BY <1>1, <3>1, <4>1, <4>3, <4>4, <5>1
        <5>2. CASE j # 1
          <6>1. PICK k \in 1 .. n - i : j = k + 1
            <7>1. j - 1 \in 1 .. n - i /\ j = j - 1 + 1
              BY <1>1, <3>1, <4>1, <5>2
            <7>. QED
              BY <7>1
          <6>2. x[j] = u[i + k]
            BY <4>1, <4>3, <4>4, <6>1
          <6>3. w[j] = u[i + k]
            <7>1. i + j - 1 = i + k
              BY <3>1, <6>1
            <7>. QED
              BY <4>1, <4>6, <7>1
          <6>. QED
            BY <6>2, <6>3
        <5>. QED
          BY <5>1, <5>2
      <4>7. x = w
        <5>1. x \in [1 .. Len(x) -> C] /\ w \in [1 .. Len(w) -> C]
          BY <4>1, LenProperties
        <5>. QED
          BY <4>5, <4>6, <5>1
      <4>. QED
        BY <4>4, <4>7 DEF v, w
    <3>. QED
      BY <3>2, <3>3
  <2>. QED
    BY <1>1, <2>1, <2>2
<1>5. 1 .. n + 2 \subseteq Good
  <2>. HIDE DEF Good
  <2>. QED
    BY <1>1, <1>4, Downward
<1>6. g[1] = SubSeq(u, 1, n)
  BY <1>1, <1>5
<1>7. SubSeq(u, 1, n) = u
  OBVIOUS
<1>. QED
  BY <1>2, <1>6, <1>7

LEMMA StrippedIsCalm ==
    ASSUME NEW C, NEW t \in Seq(C)
    PROVE  T!SanitizeForStorage(t) \in Seq(C) /\ Calm(T!SanitizeForStorage(t))
<1>. DEFINE n == Len(t)
            g == Strip(t)
            Good == {i \in 1 .. n + 2 : /\ Calm(g[i])
                                        /\ i <= n /\ t[i] = ">" => g[i] # <<>> /\ g[i][1] = ">"}
<1>1. n \in Nat /\ n + 2 \in Nat /\ 1 \in 1 .. n + 2
  OBVIOUS
<1>2. g \in [1 .. n + 2 -> Seq(C)] /\ Strips(g, t) /\ T!SanitizeForStorage(t) = g[1]
  BY StripEquation
<1>. HIDE DEF g
<1>3. Calm(<<>>)
  BY DEF Calm
<1>4. ASSUME NEW i \in 1 .. n + 2, \A j \in i + 1 .. n + 2 : j \in Good
      PROVE  i \in Good
  <2>1. CASE i > n
    <3>1. g[i] = <<>>
      BY <1>2, <2>1 DEF Strips
    <3>. QED
      BY <1>3, <2>1, <3>1
  <2>2. CASE i <= n
    <3>1. i \in 1 .. n /\ i + 1 \in 1 .. n + 2 /\ i + 1 \in i + 1 .. n + 2
      BY <1>1, <2>2
    <3>2. PICK e \in i + 1 .. n + 1 : e = T!TagEnd(t, i) /\ (e <= n => t[e] = ">")
      BY <3>1, TagEnds
    <3>3. g[i] = IF Verbatim(t, i) THEN <<t[i]>> \o g[i + 1] ELSE g[e + 1]
      BY <1>2, <2>2, <3>2 DEF Strips
    <3>4. CASE Verbatim(t, i)
      <4>1. t[i] \in C /\ g[i + 1] \in Seq(C) /\ Calm(g[i + 1])
        BY <1>2, <1>4, <3>1
      <4>2. ASSUME t[i] = "<"  PROVE g[i + 1] = <<>> \/ g[i + 1][1] = ">"
        <5>1. e = i + 1
          BY <3>2, <3>4, <4>2 DEF Verbatim, T!EmptyTag
        <5>2. CASE i = n
          <6>1. i + 1 > n
            BY <1>1, <5>2
          <6>. QED
            BY <1>2, <3>1, <6>1 DEF Strips
        <5>3. CASE i # n
          <6>1. i + 1 <= n /\ t[i + 1] = ">"
            BY <1>1, <3>1, <3>2, <5>1, <5>3
          <6>. QED
            BY <1>4, <3>1, <6>1
        <5>. QED
          BY <5>2, <5>3
      <4>3. Calm(<<t[i]>> \o g[i + 1])
        BY <4>1, <4>2, CalmGrows
      <4>4. Len(<<t[i]>> \o g[i + 1]) = Len(g[i + 1]) + 1 /\ (<<t[i]>> \o g[i + 1])[1] = t[i]
        BY <4>1, Prefixed
      <4>5. <<t[i]>> \o g[i + 1] # <<>>
        BY <4>1
      <4>. QED
        BY <3>3, <3>4, <4>3, <4>4, <4>5
    <3>5. CASE ~Verbatim(t, i)
      <4>1. e + 1 \in i + 1 .. n + 2 /\ e + 1 \in 1 .. n + 2
        BY <1>1, <3>1, <3>2
      <4>2. Calm(g[e + 1])
        BY <1>4, <4>1
      <4>3. t[i] = "<"
        BY <3>5 DEF Verbatim
      <4>. QED
        BY <3>3, <3>5, <4>2, <4>3
    <3>. QED
      BY <3>4, <3>5
  <2>. QED
    BY <1>1, <2>1, <2>2
<1>5. 1 .. n + 2 \subseteq Good
  <2>. HIDE DEF Good
  <2>. QED
    BY <1>1, <1>4, Downward
<1>. QED
  BY <1>1, <1>2, <1>5

LEMMA StorageIsSame ==
    ASSUME NEW C, typed \in Seq(C)
    PROVE  T!SameStorage
<1>1. T!Replaced(typed) = T!SanitizeForStorage(typed)
  BY SameReplacement
<1>2. T!SanitizeForStorage(typed) \in Seq(C) /\ Calm(T!SanitizeForStorage(typed))
  BY StrippedIsCalm
<1>3. T!SanitizeForStorage(T!SanitizeForStorage(typed)) = T!SanitizeForStorage(typed)
  BY <1>2, CalmStays
<1>. QED
  BY <1>1, <1>3 DEF T!SameStorage

(***************************************************************************)
(* Who a text mentions.                                                    *)
(***************************************************************************)
\* A handle may begin behind the "@" at i, and the lengths it may have.
Opening(t, i) == t[i] = "@" /\ (i > 1 => T!isSpaceByte(t[i - 1]))
Stops(t, i) == {k \in 1 .. T!RunAfter(t, i) : T!Ends(t, i, k)}
Mentions(t, i) == Opening(t, i) /\ Stops(t, i) # {}

LEMMA HandleBound == MaxHandle \in Nat
BY WalksAssumption DEF T!TextAssumption

LEMMA Runs ==
    ASSUME NEW C, NEW t \in Seq(C), NEW i \in 1 .. Len(t)
    PROVE  LET run == T!RunAfter(t, i)
           IN  /\ run \in 0 .. MaxHandle /\ i + run <= Len(t)
               /\ \A j \in i + 1 .. i + run : T!isMentionRune(t[j])
               /\ \A k \in 0 .. MaxHandle :
                     i + k <= Len(t) /\ (\A j \in i + 1 .. i + k : T!isMentionRune(t[j]))
                        => k <= run
<1>. DEFINE lengths == {k \in 0 .. MaxHandle :
                           i + k <= Len(t) /\ \A j \in i + 1 .. i + k : T!isMentionRune(t[j])}
<1>1. lengths \in SUBSET (0 .. MaxHandle)
  OBVIOUS
<1>2. 0 \in lengths
  BY HandleBound
<1>3. T!Max(lengths) \in lengths /\ \A k \in lengths : k <= T!Max(lengths)
  <2>. HIDE DEF lengths
  <2>. QED
    BY <1>1, <1>2, HandleBound, Largest
<1>4. T!RunAfter(t, i) = T!Max(lengths)
  BY DEF T!RunAfter
<1>5. PICK run \in lengths : run = T!RunAfter(t, i) /\ \A k \in lengths : k <= run
  BY <1>3, <1>4
<1>. QED
  BY <1>5

LEMMA SameHandles ==
    ASSUME NEW C, NEW t \in Seq(C), "nbsp" \notin C, NEW i \in 1 .. Len(t), NEW from \in 1 .. i
    PROVE  T!Handles(t, i, from) = IF Opening(t, i) /\ (i = 1 \/ from < i) THEN Stops(t, i) ELSE {}
<1>1. PICK run : /\ run = T!RunAfter(t, i)
                 /\ run \in 0 .. MaxHandle /\ i + run <= Len(t)
                 /\ \A j \in i + 1 .. i + run : T!isMentionRune(t[j])
                 /\ \A k \in 0 .. MaxHandle :
                      i + k <= Len(t) /\ (\A j \in i + 1 .. i + k : T!isMentionRune(t[j]))
                         => k <= run
  BY Runs
<1>2. \A j \in 1 .. Len(t) : T!Space(t[j]) <=> T!isSpaceByte(t[j])
  BY DEF T!Space, T!isSpaceByte
<1>3. ASSUME Opening(t, i) /\ (i = 1 \/ from < i)
      PROVE  T!Handles(t, i, from) = Stops(t, i)
  <2>1. t[i] = "@" /\ (i = 1 \/ (i - 1 >= from /\ T!Space(t[i - 1])))
    <3>1. CASE i = 1
      BY <1>3, <3>1 DEF Opening
    <3>2. CASE i # 1
      <4>1. i > 1 /\ i - 1 \in 1 .. Len(t) /\ i - 1 >= from
        BY <1>3, <3>2
      <4>. QED
        BY <1>2, <1>3, <4>1 DEF Opening
    <3>. QED
      BY <3>1, <3>2
  <2>2. ASSUME NEW k \in T!Handles(t, i, from)  PROVE k \in Stops(t, i)
    <3>1. /\ k \in 1 .. MaxHandle /\ i + k <= Len(t)
          /\ \A j \in i + 1 .. i + k : T!isMentionRune(t[j])
          /\ i + k = Len(t) \/ T!Space(t[i + k + 1]) \/ t[i + k + 1] \in {".", "!"}
      BY DEF T!Handles, T!isMentionRune
    <3>2. k <= run
      BY <1>1, <3>1
    <3>3. T!Ends(t, i, k)
      <4>1. CASE i + k = Len(t)
        BY <4>1 DEF T!Ends
      <4>2. CASE i + k # Len(t)
        <5>1. i + k + 1 \in 1 .. Len(t)
          BY <3>1, <4>2
        <5>. QED
          BY <1>2, <3>1, <4>2, <5>1 DEF T!Ends, T!isMentionTerminator, T!isSpaceByte
      <4>. QED
        BY <4>1, <4>2
    <3>. QED
      BY <1>1, <3>1, <3>2, <3>3 DEF Stops
  <2>3. ASSUME NEW k \in Stops(t, i)  PROVE k \in T!Handles(t, i, from)
    <3>1. k \in 1 .. run /\ T!Ends(t, i, k)
      BY <1>1 DEF Stops
    <3>2. k \in 1 .. MaxHandle /\ i + k <= Len(t)
      BY <1>1, <3>1, HandleBound
    <3>3. \A j \in i + 1 .. i + k : t[j] \in {"a", "b", "."}
      BY <1>1, <3>1 DEF T!isMentionRune
    <3>4. i + k = Len(t) \/ T!Space(t[i + k + 1]) \/ t[i + k + 1] \in {".", "!"}
      BY <3>1 DEF T!Ends, T!isMentionTerminator, T!Space
    <3>. QED
      BY <2>1, <3>2, <3>3, <3>4 DEF T!Handles
  <2>. QED
    BY <2>2, <2>3
<1>4. ASSUME ~(Opening(t, i) /\ (i = 1 \/ from < i))
      PROVE  T!Handles(t, i, from) = {}
  <2>1. ASSUME t[i] = "@", i = 1 \/ (i - 1 >= from /\ T!Space(t[i - 1]))  PROVE FALSE
    <3>1. i > 1 => i - 1 \in 1 .. Len(t)
      OBVIOUS
    <3>. QED
      BY <1>2, <1>4, <2>1, <3>1 DEF Opening
  <2>. QED
    BY <2>1 DEF T!Handles
<1>. QED
  BY <1>3, <1>4

\* The handle is the longest there is, and it has no "@" in it.
LEMMA LongestHandle ==
    ASSUME NEW C, NEW t \in Seq(C), NEW i \in 1 .. Len(t), Stops(t, i) # {}
    PROVE  LET k == T!Max(Stops(t, i))
           IN  /\ k \in 1 .. Len(t) - i
               /\ \A j \in i + 1 .. i + k : t[j] # "@" /\ ~T!isSpaceByte(t[j])
               /\ T!HandleAfter(t, i) = SubSeq(t, i + 1, i + k)
               /\ SubSeq(t, i + 1, i + k) \in Seq(C) \ {<<>>}
<1>1. PICK run : /\ run = T!RunAfter(t, i)
                 /\ run \in 0 .. MaxHandle /\ i + run <= Len(t)
                 /\ \A j \in i + 1 .. i + run : T!isMentionRune(t[j])
  BY Runs
<1>2. Stops(t, i) \in SUBSET (0 .. MaxHandle)
  BY <1>1, HandleBound DEF Stops
<1>3. PICK k \in Stops(t, i) : k = T!Max(Stops(t, i))
  BY <1>2, HandleBound, Largest
<1>4. k \in 1 .. run
  BY <1>1, <1>3 DEF Stops
<1>5. k \in 1 .. Len(t) - i
  BY <1>1, <1>4
<1>6. \A j \in i + 1 .. i + k : t[j] # "@" /\ ~T!isSpaceByte(t[j])
  BY <1>1, <1>4 DEF T!isMentionRune, T!isSpaceByte
<1>7. T!HandleAfter(t, i) = SubSeq(t, i + 1, i + k)
  BY <1>3 DEF T!HandleAfter, Stops
<1>8. SubSeq(t, i + 1, i + k) \in Seq(C) \ {<<>>}
  <2>1. SubSeq(t, i + 1, i + k) \in Seq(C) /\ Len(SubSeq(t, i + 1, i + k)) = k
    BY <1>5
  <2>. QED
    BY <1>5, <2>1
<1>. QED
  BY <1>3, <1>5, <1>6, <1>7, <1>8

LEMMA NoHandle ==
    ASSUME NEW t, NEW i, Stops(t, i) = {}
    PROVE  T!HandleAfter(t, i) = <<>>
BY DEF T!HandleAfter, Stops

LEMMA NotedIn ==
    ASSUME NEW W, NEW u \in Seq(W), NEW x \in W
    PROVE  T!Noted(u, x) \in Seq(W)
BY DEF T!Noted

(***************************************************************************)
(* One after the other noted, from whatever is noted already.              *)
(***************************************************************************)
LEMMA IterationStays ==
    ASSUME NEW n \in Nat, NEW D, NEW g, g[0] \in D,
           \A i \in 1 .. n : g[i - 1] \in D => g[i] \in D
    PROVE  \A i \in 0 .. n : g[i] \in D
<1>. DEFINE Good == {k \in Nat : k <= n => g[k] \in D}
<1>1. 0 \in Good
  OBVIOUS
<1>2. ASSUME NEW k \in Nat, k \in Good  PROVE k + 1 \in Good
  <2>1. CASE k + 1 <= n
    <3>1. k + 1 \in 1 .. n /\ k + 1 - 1 = k /\ g[k] \in D
      BY <1>2, <2>1
    <3>. QED
      BY <3>1
  <2>2. CASE ~(k + 1 <= n)
    BY <2>2
  <2>. QED
    BY <2>1, <2>2
<1>3. Nat \subseteq Good
  <2>. HIDE DEF Good
  <2>. QED
    BY <1>1, <1>2, Induction
<1>. QED
  BY <1>3

Notes(u, s) ==
    LET noted[i \in 0 .. Len(s)] == IF i = 0 THEN u ELSE T!Noted(noted[i - 1], s[i])
    IN  noted

LEMMA NotesEquation ==
    ASSUME NEW W, NEW u \in Seq(W), NEW s \in Seq(W)
    PROVE  /\ Notes(u, s)[0] = u
           /\ \A i \in 1 .. Len(s) : Notes(u, s)[i] = T!Noted(Notes(u, s)[i - 1], s[i])
           /\ \A i \in 0 .. Len(s) : Notes(u, s)[i] \in Seq(W)
<1>. DEFINE n == Len(s)
            D == Seq(W)
            F == [p \in (1 .. n) \X D |-> T!Noted(p[2], s[p[1]])]
            IsSo(g) == g = [i \in 0 .. n |-> IF i = 0 THEN u ELSE T!Noted(g[i - 1], s[i])]
<1>1. n \in Nat /\ u \in D
  OBVIOUS
<1>2. \A i \in 1 .. n, x \in D : F[<<i, x>>] = T!Noted(x, s[i])
  OBVIOUS
<1>3. \A i \in 1 .. n, x \in D : T!Noted(x, s[i]) \in D
  BY NotedIn
<1>4. \A i \in 1 .. n, x \in D : F[<<i, x>>] \in D
  BY <1>2, <1>3
<1>5. PICK f \in [0 .. n -> D] : Iterates(f, n, u, F)
  <2>. HIDE DEF n, D, F
  <2>. QED
    BY <1>1, <1>4, Iteration
<1>. HIDE DEF F
<1>6. IsSo(f)
  <2>1. f[0] = u /\ f = [i \in 0 .. n |-> f[i]]
    BY <1>5 DEF Iterates
  <2>2. ASSUME NEW i \in 1 .. n  PROVE f[i] = T!Noted(f[i - 1], s[i])
    <3>1. f[i - 1] \in D /\ f[i] = F[<<i, f[i - 1]>>]
      BY <1>5 DEF Iterates
    <3>. QED
      BY <1>2, <3>1
  <2>3. \A i \in 0 .. n : f[i] = IF i = 0 THEN u ELSE T!Noted(f[i - 1], s[i])
    <3>. TAKE i \in 0 .. n
    <3>1. i = 0 \/ i \in 1 .. n
      OBVIOUS
    <3>. QED
      BY <2>1, <2>2, <3>1
  <2>. QED
    BY <2>1, <2>3
<1>7. IsSo(Notes(u, s))
  BY <1>6 DEF Notes
<1>8. PICK g : g = Notes(u, s)
  OBVIOUS
<1>9. g[0] = u /\ \A i \in 1 .. n : g[i] = T!Noted(g[i - 1], s[i])
  BY <1>1, <1>7, <1>8
<1>10. \A i \in 0 .. n : g[i] \in D
  <2>1. \A i \in 1 .. n : g[i - 1] \in D => g[i] \in D
    BY <1>3, <1>9
  <2>. HIDE DEF D, n
  <2>. QED
    BY <1>1, <1>9, <2>1, IterationStays
<1>. QED
  BY <1>8, <1>9, <1>10

Noting(u, s) == Notes(u, s)[Len(s)]

LEMMA NotingFirst ==
    ASSUME NEW W, NEW u \in Seq(W), NEW s \in Seq(W), NEW x \in W
    PROVE  Noting(u, <<x>> \o s) = Noting(T!Noted(u, x), s)
<1>. DEFINE n == Len(s)
            w == <<x>> \o s
            f == Notes(u, w)
            g == Notes(T!Noted(u, x), s)
            Good == {k \in Nat : k <= n => f[k + 1] = g[k]}
<1>1. /\ w \in Seq(W) /\ Len(w) = n + 1 /\ n \in Nat /\ w[1] = x
      /\ \A j \in 1 .. n : w[j + 1] = s[j]
  BY Prefixed
<1>. HIDE DEF w
<1>2. f[0] = u /\ \A i \in 1 .. n + 1 : f[i] = T!Noted(f[i - 1], w[i])
  <2>1. w \in Seq(W)
    BY <1>1
  <2>2. f[0] = u /\ \A i \in 1 .. Len(w) : f[i] = T!Noted(f[i - 1], w[i])
    BY <2>1, NotesEquation
  <2>. QED
    BY <1>1, <2>2
<1>3. g[0] = T!Noted(u, x) /\ \A i \in 1 .. n : g[i] = T!Noted(g[i - 1], s[i])
  BY NotedIn, NotesEquation
<1>. HIDE DEF f, g
<1>4. 0 \in Good
  <2>1. f[1] = T!Noted(f[0], w[1])
    <3>1. 1 \in 1 .. n + 1 /\ 1 - 1 = 0
      BY <1>1
    <3>. QED
      BY <1>2, <3>1
  <2>. QED
    BY <1>1, <1>2, <1>3, <2>1
<1>5. ASSUME NEW k \in Nat, k \in Good  PROVE k + 1 \in Good
  <2>. SUFFICES ASSUME k + 1 <= n PROVE f[k + 1 + 1] = g[k + 1]
    OBVIOUS
  <2>1. k + 1 \in 1 .. n /\ k + 1 + 1 \in 1 .. n + 1 /\ k + 1 + 1 - 1 = k + 1 /\ k + 1 - 1 = k
    BY <1>1
  <2>2. f[k + 1] = g[k]
    BY <1>1, <1>5
  <2>3. f[k + 1 + 1] = T!Noted(f[k + 1], w[k + 1 + 1])
    BY <1>2, <2>1
  <2>4. g[k + 1] = T!Noted(g[k], s[k + 1])
    BY <1>3, <2>1
  <2>5. w[k + 1 + 1] = s[k + 1]
    BY <1>1, <2>1
  <2>. QED
    BY <2>2, <2>3, <2>4, <2>5
<1>6. n \in Good
  <2>. HIDE DEF Good
  <2>. QED
    BY <1>1, <1>4, <1>5, Induction
<1>7. f[n + 1] = g[n]
  BY <1>1, <1>6
<1>. QED
  BY <1>1, <1>7 DEF Noting, f, g, w

LEMMA NotingNone ==
    ASSUME NEW W, NEW u \in Seq(W)
    PROVE  Noting(u, <<>>) = u
<1>1. <<>> \in Seq(W) /\ Len(<<>>) = 0
  OBVIOUS
<1>2. Notes(u, <<>>)[0] = u
  BY <1>1, NotesEquation
<1>. QED
  BY <1>1, <1>2 DEF Noting

(***************************************************************************)
(* The loop over a text, and the matches of the expression in it.  The     *)
(* characters of a handle open no mention, so both go on behind it.        *)
(***************************************************************************)
Found(t) ==
    LET found[i \in 0 .. Len(t)] ==
            IF i = 0 THEN <<>>
            ELSE IF \/ t[i] # "@" \/ (i > 1 /\ ~T!isSpaceByte(t[i - 1]))
                    \/ T!HandleAfter(t, i) = <<>>
            THEN found[i - 1]
            ELSE T!Noted(found[i - 1], T!HandleAfter(t, i))
    IN  found

Finds(f, t) ==
    /\ f[0] = <<>>
    /\ \A i \in 1 .. Len(t) :
          f[i] = IF Mentions(t, i) THEN T!Noted(f[i - 1], T!HandleAfter(t, i)) ELSE f[i - 1]

LEMMA FoundEquation ==
    ASSUME NEW C, NEW t \in Seq(C)
    PROVE  /\ Finds(Found(t), t) /\ \A i \in 0 .. Len(t) : Found(t)[i] \in Seq(Seq(C))
           /\ T!ExtractMentions(t) = Found(t)[Len(t)]
<1>. DEFINE n == Len(t)
            D == Seq(Seq(C))
            F == [p \in (1 .. n) \X D |->
                     IF Mentions(t, p[1]) THEN T!Noted(p[2], T!HandleAfter(t, p[1])) ELSE p[2]]
            Passes(i) == \/ t[i] # "@" \/ (i > 1 /\ ~T!isSpaceByte(t[i - 1]))
                         \/ T!HandleAfter(t, i) = <<>>
            IsSo(g) == g = [i \in 0 .. n |->
                               IF i = 0 THEN <<>>
                               ELSE IF Passes(i) THEN g[i - 1]
                               ELSE T!Noted(g[i - 1], T!HandleAfter(t, i))]
<1>1. n \in Nat /\ <<>> \in D
  OBVIOUS
<1>2. \A i \in 1 .. n, x \in D :
         F[<<i, x>>] = (IF Mentions(t, i) THEN T!Noted(x, T!HandleAfter(t, i)) ELSE x)
  OBVIOUS
<1>3. ASSUME NEW i \in 1 .. n  PROVE Passes(i) <=> ~Mentions(t, i)
  <2>1. Stops(t, i) = {} => T!HandleAfter(t, i) = <<>>
    BY NoHandle
  <2>2. Stops(t, i) # {} => T!HandleAfter(t, i) # <<>>
    BY LongestHandle
  <2>. QED
    BY <2>1, <2>2 DEF Mentions, Opening
<1>4. \A i \in 1 .. n, x \in D : (IF Mentions(t, i) THEN T!Noted(x, T!HandleAfter(t, i)) ELSE x) \in D
  <2>. TAKE i \in 1 .. n, x \in D
  <2>1. CASE Mentions(t, i)
    <3>1. T!HandleAfter(t, i) \in Seq(C)
      BY <2>1, LongestHandle DEF Mentions
    <3>2. T!Noted(x, T!HandleAfter(t, i)) \in D
      BY <3>1, NotedIn
    <3>. QED
      BY <2>1, <3>2
  <2>2. CASE ~Mentions(t, i)
    BY <2>2
  <2>. QED
    BY <2>1, <2>2
<1>5. \A i \in 1 .. n, x \in D : F[<<i, x>>] \in D
  BY <1>2, <1>4
<1>6. PICK f \in [0 .. n -> D] : Iterates(f, n, <<>>, F)
  <2>. HIDE DEF n, D, F
  <2>. QED
    BY <1>1, <1>5, Iteration
<1>. HIDE DEF F, Passes
<1>7. IsSo(f)
  <2>1. f[0] = <<>> /\ f = [i \in 0 .. n |-> f[i]]
    BY <1>6 DEF Iterates
  <2>2. ASSUME NEW i \in 1 .. n
        PROVE  f[i] = IF Passes(i) THEN f[i - 1] ELSE T!Noted(f[i - 1], T!HandleAfter(t, i))
    <3>1. f[i - 1] \in D /\ f[i] = F[<<i, f[i - 1]>>]
      BY <1>6 DEF Iterates
    <3>. QED
      BY <1>2, <1>3, <3>1
  <2>3. \A i \in 0 .. n : f[i] = IF i = 0 THEN <<>>
                                 ELSE IF Passes(i) THEN f[i - 1]
                                 ELSE T!Noted(f[i - 1], T!HandleAfter(t, i))
    <3>. TAKE i \in 0 .. n
    <3>1. i = 0 \/ i \in 1 .. n
      OBVIOUS
    <3>. QED
      BY <2>1, <2>2, <3>1
  <2>. QED
    BY <2>1, <2>3
<1>8. IsSo(Found(t))
  BY <1>7 DEF Found, Passes
<1>9. PICK g : g = Found(t)
  OBVIOUS
<1>10. g[0] = <<>> /\ \A i \in 1 .. n : g[i] = IF Mentions(t, i) THEN T!Noted(g[i - 1], T!HandleAfter(t, i))
                                               ELSE g[i - 1]
  <2>1. g = [i \in 0 .. n |-> IF i = 0 THEN <<>>
                              ELSE IF Passes(i) THEN g[i - 1]
                              ELSE T!Noted(g[i - 1], T!HandleAfter(t, i))]
    BY <1>8, <1>9
  <2>2. g[0] = <<>>
    <3>1. 0 \in 0 .. n
      BY <1>1
    <3>. QED
      BY <2>1, <3>1
  <2>3. ASSUME NEW i \in 1 .. n
        PROVE  g[i] = IF Mentions(t, i) THEN T!Noted(g[i - 1], T!HandleAfter(t, i)) ELSE g[i - 1]
    <3>1. i \in 0 .. n /\ i # 0
      BY <1>1
    <3>2. g[i] = IF Passes(i) THEN g[i - 1] ELSE T!Noted(g[i - 1], T!HandleAfter(t, i))
      BY <2>1, <3>1
    <3>. QED
      BY <1>3, <3>2
  <2>. QED
    BY <2>2, <2>3
<1>11. \A i \in 0 .. n : g[i] \in D
  <2>1. \A i \in 1 .. n : g[i - 1] \in D => g[i] \in D
    BY <1>4, <1>10
  <2>. HIDE DEF D, n
  <2>. QED
    BY <1>1, <1>10, <2>1, IterationStays
<1>12. T!ExtractMentions(t) = g[n]
  BY <1>9 DEF T!ExtractMentions, Found
<1>. QED
  BY <1>9, <1>10, <1>11, <1>12 DEF Finds

\* Where nobody is mentioned nothing is noted.
LEMMA NothingFound ==
    ASSUME NEW t, NEW n \in Nat, n = Len(t), NEW f, Finds(f, t),
           NEW a \in 0 .. n, NEW b \in a .. n, \A i \in a + 1 .. b : ~Mentions(t, i)
    PROVE  f[b] = f[a]
<1>. DEFINE Good == {k \in Nat : a + k <= b => f[a + k] = f[a]}
<1>1. 0 \in Good
  OBVIOUS
<1>2. ASSUME NEW k \in Nat, k \in Good  PROVE k + 1 \in Good
  <2>. SUFFICES ASSUME a + (k + 1) <= b PROVE f[a + (k + 1)] = f[a]
    OBVIOUS
  <2>1. a + k <= b /\ a + (k + 1) \in 1 .. n /\ a + (k + 1) - 1 = a + k /\ a + (k + 1) \in a + 1 .. b
    OBVIOUS
  <2>2. f[a + (k + 1)] = f[a + k]
    BY <2>1 DEF Finds
  <2>. QED
    BY <1>2, <2>1, <2>2
<1>3. b - a \in Good
  <2>. HIDE DEF Good
  <2>. QED
    BY <1>1, <1>2, Induction
<1>. QED
  BY <1>3

Matched(t) ==
    LET after[from \in 1 .. Len(t) + 1] ==
            LET starts == {i \in from .. Len(t) : T!Handles(t, i, from) # {}}
                i      == T!Min(starts)
                k      == T!Max(T!Handles(t, i, from))
            IN  IF starts = {} THEN <<>>
                ELSE <<SubSeq(t, i + 1, i + k)>> \o after[i + k + 1]
    IN  after

\* Where the search goes on from "from" finds its next match.
Handled(t, from) == {i \in from .. Len(t) : T!Handles(t, i, from) # {}}
First(t, from)   == T!Min(Handled(t, from))
Longest(t, from) == T!Max(T!Handles(t, First(t, from), from))

Matching(g, t) ==
    \A from \in 1 .. Len(t) + 1 :
       g[from] = IF Handled(t, from) = {} THEN <<>>
                 ELSE <<SubSeq(t, First(t, from) + 1, First(t, from) + Longest(t, from))>>
                         \o g[First(t, from) + Longest(t, from) + 1]

LEMMA NextMatch ==
    ASSUME NEW C, NEW t \in Seq(C), NEW from \in 1 .. Len(t) + 1, Handled(t, from) # {}
    PROVE  /\ First(t, from) \in from .. Len(t)
           /\ T!Handles(t, First(t, from), from) # {}
           /\ \A i \in from .. Len(t) : i < First(t, from) => T!Handles(t, i, from) = {}
           /\ Longest(t, from) \in 1 .. Len(t) - First(t, from)
<1>1. Handled(t, from) \in SUBSET Nat
  BY DEF Handled
<1>2. PICK i \in Handled(t, from) : i = First(t, from) /\ \A j \in Handled(t, from) : i <= j
  BY <1>1, Smallest DEF First
<1>3. i \in from .. Len(t) /\ T!Handles(t, i, from) # {}
  BY <1>2 DEF Handled
<1>4. \A j \in from .. Len(t) : j < i => T!Handles(t, j, from) = {}
  <2>. SUFFICES ASSUME NEW j \in from .. Len(t), j < i, T!Handles(t, j, from) # {} PROVE FALSE
    OBVIOUS
  <2>1. j \in Handled(t, from)
    BY DEF Handled
  <2>. QED
    BY <1>2, <1>3, <2>1
<1>5. T!Handles(t, i, from) \in SUBSET (0 .. MaxHandle)
  BY HandleBound DEF T!Handles
<1>6. T!Max(T!Handles(t, i, from)) \in T!Handles(t, i, from)
  BY <1>3, <1>5, HandleBound, Largest
<1>7. PICK k \in T!Handles(t, i, from) : k = Longest(t, from)
  BY <1>2, <1>6 DEF Longest
<1>8. k \in 1 .. Len(t) - i
  BY <1>3, <1>7, HandleBound DEF T!Handles
<1>. QED
  BY <1>2, <1>3, <1>4, <1>7, <1>8

LEMMA MatchedEquation ==
    ASSUME NEW C, NEW t \in Seq(C)
    PROVE  /\ Matching(Matched(t), t)
           /\ \A from \in 1 .. Len(t) + 1 : Matched(t)[from] \in Seq(Seq(C))
           /\ T!MatchedMentions(t) = Matched(t)[1]
<1>. DEFINE n == Len(t)
            D == Seq(Seq(C))
            stop(from) == First(t, from) + Longest(t, from)
            handle(from) == SubSeq(t, First(t, from) + 1, stop(from))
            hop == [i \in 1 .. n |-> IF Handled(t, i) = {} THEN i + 1 ELSE stop(i) + 1]
            F == [p \in (1 .. n) \X D |->
                     IF Handled(t, p[1]) = {} THEN <<>> ELSE <<handle(p[1])>> \o p[2]]
            IsSo(g) == g = [from \in 1 .. n + 1 |->
                               IF Handled(t, from) = {} THEN <<>>
                               ELSE <<handle(from)>> \o g[stop(from) + 1]]
<1>1. n \in Nat /\ n + 1 \in Nat /\ n <= n + 1 /\ <<>> \in D
  OBVIOUS
<1>2. ASSUME NEW i \in 1 .. n + 1, Handled(t, i) # {}
      PROVE  stop(i) \in i + 1 .. n /\ handle(i) \in Seq(C)
  <2>1. PICK f, l : f = First(t, i) /\ l = Longest(t, i) /\ f \in i .. n /\ l \in 1 .. n - f
    BY <1>2, NextMatch
  <2>2. f + l \in i + 1 .. n /\ SubSeq(t, f + 1, f + l) \in Seq(C)
    BY <1>1, <2>1
  <2>. QED
    BY <2>1, <2>2
<1>3. Handled(t, n + 1) = {}
  BY <1>1 DEF Handled
<1>4. hop \in [1 .. n -> 1 .. n + 1] /\ \A i \in 1 .. n : i < hop[i]
  <2>1. ASSUME NEW i \in 1 .. n  PROVE hop[i] \in 1 .. n + 1 /\ i < hop[i]
    <3>1. CASE Handled(t, i) = {}
      BY <1>1, <3>1
    <3>2. CASE Handled(t, i) # {}
      <4>1. stop(i) \in i + 1 .. n
        BY <1>1, <1>2, <3>2
      <4>2. hop[i] = stop(i) + 1
        BY <3>2
      <4>. HIDE DEF hop, stop
      <4>. QED
        BY <1>1, <4>1, <4>2
    <3>. QED
      BY <3>1, <3>2
  <2>. QED
    BY <2>1
<1>5. \A i \in 1 .. n, x \in D :
         F[<<i, x>>] = (IF Handled(t, i) = {} THEN <<>> ELSE <<handle(i)>> \o x)
  OBVIOUS
<1>6. ASSUME NEW i \in 1 .. n + 1, NEW x \in D
      PROVE  (IF Handled(t, i) = {} THEN <<>> ELSE <<handle(i)>> \o x) \in D
  <2>1. CASE Handled(t, i) = {}
    BY <1>1, <2>1
  <2>2. CASE Handled(t, i) # {}
    <3>1. handle(i) \in Seq(C)
      BY <1>2, <2>2
    <3>. HIDE DEF handle
    <3>2. <<handle(i)>> \o x \in D
      BY <3>1, Prefixed
    <3>. QED
      BY <2>2, <3>2
  <2>. QED
    BY <2>1, <2>2
<1>7. \A i \in 1 .. n, x \in D : F[<<i, x>>] \in D
  <2>. TAKE i \in 1 .. n, x \in D
  <2>1. i \in 1 .. n + 1
    BY <1>1
  <2>. QED
    BY <1>5, <1>6, <2>1
<1>8. \A i \in 1 .. n : hop[i] = IF Handled(t, i) = {} THEN i + 1 ELSE stop(i) + 1
  OBVIOUS
<1>9. PICK f \in [1 .. n + 1 -> D] : Jumped(f, n, n + 1, <<>>, hop, F)
  <2>. HIDE DEF D, n, hop, F
  <2>. QED
    BY <1>1, <1>4, <1>7, Jumps
<1>. HIDE DEF F, hop, handle, stop
<1>10. ASSUME NEW i \in 1 .. n + 1
       PROVE  f[i] = IF Handled(t, i) = {} THEN <<>> ELSE <<handle(i)>> \o f[stop(i) + 1]
  <2>1. CASE i = n + 1
    <3>1. Handled(t, i) = {}
      BY <1>3, <2>1
    <3>2. i > n
      BY <1>1, <2>1
    <3>3. f[i] = <<>>
      BY <1>9, <3>2 DEF Jumped
    <3>. QED
      BY <3>1, <3>3
  <2>2. CASE i # n + 1
    <3>1. i \in 1 .. n /\ ~(i > n)
      BY <1>1, <2>2
    <3>2. f[hop[i]] \in D
      BY <1>4, <3>1
    <3>3. f[i] = F[<<i, f[hop[i]]>>]
      BY <1>9, <3>1 DEF Jumped
    <3>. QED
      BY <1>5, <1>8, <3>1, <3>2, <3>3
  <2>. QED
    BY <2>1, <2>2
<1>11. IsSo(f)
  <2>1. f = [i \in 1 .. n + 1 |-> f[i]]
    BY <1>9
  <2>. QED
    BY <1>10, <2>1
<1>12. IsSo(Matched(t))
  BY <1>11 DEF Matched, handle, stop, First, Longest, Handled
<1>13. PICK g : g = Matched(t)
  OBVIOUS
<1>14. \A from \in 1 .. n + 1 :
          g[from] = IF Handled(t, from) = {} THEN <<>> ELSE <<handle(from)>> \o g[stop(from) + 1]
  BY <1>12, <1>13
<1>15. \A i \in 1 .. n + 1 : g[i] \in D
  <2>. DEFINE Good == {i \in 1 .. n + 1 : g[i] \in D}
  <2>1. ASSUME NEW i \in 1 .. n + 1, \A j \in i + 1 .. n + 1 : j \in Good
        PROVE  i \in Good
    <3>1. CASE Handled(t, i) = {}
      BY <1>1, <1>14, <3>1
    <3>2. CASE Handled(t, i) # {}
      <4>1. stop(i) \in i + 1 .. n
        BY <1>2, <3>2
      <4>2. stop(i) + 1 \in i + 1 .. n + 1
        BY <1>1, <4>1
      <4>3. g[stop(i) + 1] \in D
        BY <2>1, <4>2
      <4>4. <<handle(i)>> \o g[stop(i) + 1] \in D
        BY <1>6, <3>2, <4>3
      <4>. QED
        BY <1>14, <3>2, <4>4
    <3>. QED
      BY <3>1, <3>2
  <2>2. 1 .. n + 1 \subseteq Good
    <3>. HIDE DEF Good
    <3>. QED
      BY <1>1, <2>1, Downward
  <2>. QED
    BY <2>2
<1>16. T!MatchedMentions(t) = g[1]
  BY <1>13 DEF T!MatchedMentions, Matched
<1>17. Matching(g, t)
  BY <1>14 DEF Matching, handle, stop
<1>. QED
  BY <1>13, <1>15, <1>16, <1>17

\* What the search finds from a place on is what the loop notes from there,
\* for it goes on behind the match and a match has no "@" in it.
LEMMA SearchGoesOn ==
    ASSUME NEW C, NEW t \in Seq(C), "nbsp" \notin C, NEW from \in 1 .. Len(t) + 1,
           from > 1 => ~T!isSpaceByte(t[from - 1])
    PROVE  \A i \in from .. Len(t) :
              /\ T!Handles(t, i, from) # {} <=> Mentions(t, i)
              /\ Mentions(t, i) => T!Handles(t, i, from) = Stops(t, i)
<1>. TAKE i \in from .. Len(t)
<1>1. i \in 1 .. Len(t) /\ from \in 1 .. i
  OBVIOUS
<1>2. T!Handles(t, i, from) = IF Opening(t, i) /\ (i = 1 \/ from < i) THEN Stops(t, i) ELSE {}
  BY <1>1, SameHandles
<1>3. Opening(t, i) => i = 1 \/ from < i
  <2>1. i = from \/ from < i
    OBVIOUS
  <2>. QED
    BY <2>1 DEF Opening
<1>. QED
  BY <1>2, <1>3 DEF Mentions

LEMMA MentionsAreSame ==
    ASSUME NEW C, NEW t \in Seq(C), "nbsp" \notin C
    PROVE  T!ExtractMentions(t) = T!Deduplicated(T!MatchedMentions(t))
<1>. DEFINE n == Len(t)
<1>1. PICK f : /\ Finds(f, t) /\ \A i \in 0 .. n : f[i] \in Seq(Seq(C))
               /\ T!ExtractMentions(t) = f[n]
  BY FoundEquation
<1>2. PICK g : /\ Matching(g, t) /\ \A i \in 1 .. n + 1 : g[i] \in Seq(Seq(C))
               /\ T!MatchedMentions(t) = g[1]
  BY MatchedEquation
<1>3. n \in Nat /\ n + 1 \in Nat /\ 1 \in 1 .. n + 1
  OBVIOUS
<1>. DEFINE Good == {from \in 1 .. n + 1 :
                        (from > 1 => ~T!isSpaceByte(t[from - 1])) => Noting(f[from - 1], g[from]) = f[n]}
<1>4. ASSUME NEW from \in 1 .. n + 1, \A j \in from + 1 .. n + 1 : j \in Good
      PROVE  from \in Good
  <2>. SUFFICES ASSUME from > 1 => ~T!isSpaceByte(t[from - 1])
                PROVE  Noting(f[from - 1], g[from]) = f[n]
    OBVIOUS
  <2>0. from - 1 \in 0 .. n /\ f[from - 1] \in Seq(Seq(C))
    BY <1>1, <1>3
  <2>1. \A i \in from .. n : /\ T!Handles(t, i, from) # {} <=> Mentions(t, i)
                             /\ Mentions(t, i) => T!Handles(t, i, from) = Stops(t, i)
    BY SearchGoesOn
  <2>2. CASE Handled(t, from) = {}
    <3>1. \A i \in from - 1 + 1 .. n : ~Mentions(t, i)
      BY <2>1, <2>2 DEF Handled
    <3>2. n \in from - 1 .. n
      BY <1>3
    <3>3. f[n] = f[from - 1]
      BY <1>1, <1>3, <2>0, <3>1, <3>2, NothingFound
    <3>4. g[from] = <<>>
      BY <1>2, <2>2 DEF Matching
    <3>. QED
      BY <2>0, <3>3, <3>4, NotingNone
  <2>3. CASE Handled(t, from) # {}
    <3>1. PICK i, k : /\ i = First(t, from) /\ k = Longest(t, from)
                      /\ i \in from .. n /\ k \in 1 .. n - i
                      /\ T!Handles(t, i, from) # {}
                      /\ \A j \in from .. n : j < i => T!Handles(t, j, from) = {}
      BY <2>3, NextMatch
    <3>2. Mentions(t, i) /\ T!Handles(t, i, from) = Stops(t, i) /\ i \in 1 .. n
      BY <2>1, <3>1
    <3>3. k = T!Max(Stops(t, i))
      BY <3>1, <3>2 DEF Longest
    <3>4. /\ \A j \in i + 1 .. i + k : t[j] # "@" /\ ~T!isSpaceByte(t[j])
          /\ T!HandleAfter(t, i) = SubSeq(t, i + 1, i + k)
          /\ SubSeq(t, i + 1, i + k) \in Seq(C)
      BY <3>2, <3>3, LongestHandle DEF Mentions
    <3>. DEFINE handle == SubSeq(t, i + 1, i + k)
                rest == i + k + 1
    <3>5. i - 1 \in 0 .. n /\ i + k \in i .. n /\ i \in 0 .. n /\ rest \in from + 1 .. n + 1
          /\ i - 1 \in from - 1 .. n /\ rest - 1 = i + k /\ rest > 1
      BY <1>3, <3>1
    <3>6. f[i - 1] = f[from - 1]
      <4>1. \A j \in from - 1 + 1 .. i - 1 : ~Mentions(t, j)
        BY <2>1, <3>1
      <4>. QED
        BY <1>1, <1>3, <2>0, <3>5, <4>1, NothingFound
    <3>7. f[i] = T!Noted(f[i - 1], handle)
      BY <1>1, <3>2, <3>4 DEF Finds
    <3>8. f[i + k] = f[i]
      <4>1. \A j \in i + 1 .. i + k : ~Mentions(t, j)
        BY <3>4 DEF Mentions, Opening
      <4>. QED
        BY <1>1, <1>3, <3>5, <4>1, NothingFound
    <3>9. g[from] = <<handle>> \o g[rest]
      BY <1>2, <2>3, <3>1 DEF Matching
    <3>. HIDE DEF handle, rest
    <3>10. rest \in Good /\ rest \in 1 .. n + 1
      BY <1>4, <3>5
    <3>11. ~T!isSpaceByte(t[rest - 1])
      <4>1. i + k \in i + 1 .. i + k
        BY <1>1, <3>1
      <4>2. ~T!isSpaceByte(t[i + k])
        BY <3>4, <4>1
      <4>. QED
        BY <3>5, <4>2
    <3>12. Noting(f[i + k], g[rest]) = f[n]
      BY <3>5, <3>10, <3>11
    <3>13. Noting(f[from - 1], <<handle>> \o g[rest]) = Noting(T!Noted(f[from - 1], handle), g[rest])
      <4>1. handle \in Seq(C) /\ g[rest] \in Seq(Seq(C))
        BY <1>2, <3>4, <3>10 DEF handle
      <4>. QED
        BY <2>0, <4>1, NotingFirst
    <3>. QED
      BY <3>6, <3>7, <3>8, <3>9, <3>12, <3>13
  <2>. QED
    BY <2>2, <2>3
<1>5. 1 .. n + 1 \subseteq Good
  <2>. HIDE DEF Good
  <2>. QED
    BY <1>3, <1>4, Downward
<1>6. Noting(f[0], g[1]) = f[n]
  BY <1>3, <1>5
<1>7. f[0] = <<>>
  BY <1>1 DEF Finds
<1>8. T!Deduplicated(g[1]) = Noting(<<>>, g[1])
  BY DEF T!Deduplicated, Noting, Notes
<1>. QED
  BY <1>1, <1>2, <1>6, <1>7, <1>8

\* The scan does not tell a no-break space from another character that has no
\* part in a handle.
LEMMA BlottedText ==
    ASSUME NEW C, NEW t \in Seq(C)
    PROVE  /\ T!Blotted(t) \in Seq((C \ {"nbsp"}) \cup {"<"}) /\ Len(T!Blotted(t)) = Len(t)
           /\ \A i \in 1 .. Len(t) :
                 /\ T!Blotted(t)[i] = "@" <=> t[i] = "@"
                 /\ T!isSpaceByte(T!Blotted(t)[i]) <=> T!isSpaceByte(t[i])
                 /\ T!isMentionTerminator(T!Blotted(t)[i]) <=> T!isMentionTerminator(t[i])
                 /\ T!isMentionRune(T!Blotted(t)[i]) <=> T!isMentionRune(t[i])
                 /\ T!isMentionRune(t[i]) => T!Blotted(t)[i] = t[i]
<1>. DEFINE u == T!Blotted(t)
<1>1. u = [i \in 1 .. Len(t) |-> IF t[i] = "nbsp" THEN "<" ELSE t[i]]
  BY DEF T!Blotted
<1>2. \A i \in 1 .. Len(t) : u[i] = IF t[i] = "nbsp" THEN "<" ELSE t[i]
  BY <1>1
<1>3. \A i \in 1 .. Len(t) : u[i] \in (C \ {"nbsp"}) \cup {"<"}
  BY <1>2
<1>4. u \in Seq((C \ {"nbsp"}) \cup {"<"}) /\ Len(u) = Len(t)
  BY <1>1, <1>3
<1>. HIDE DEF u
<1>5. ASSUME NEW i \in 1 .. Len(t)
      PROVE  /\ u[i] = "@" <=> t[i] = "@"
             /\ T!isSpaceByte(u[i]) <=> T!isSpaceByte(t[i])
             /\ T!isMentionTerminator(u[i]) <=> T!isMentionTerminator(t[i])
             /\ T!isMentionRune(u[i]) <=> T!isMentionRune(t[i])
             /\ T!isMentionRune(t[i]) => u[i] = t[i]
  BY <1>2 DEF T!isSpaceByte, T!isMentionTerminator, T!isMentionRune
<1>. QED
  BY <1>4, <1>5 DEF u

LEMMA BlottedHandle ==
    ASSUME NEW C, NEW t \in Seq(C), NEW i \in 1 .. Len(t)
    PROVE  /\ Mentions(T!Blotted(t), i) <=> Mentions(t, i)
           /\ T!HandleAfter(T!Blotted(t), i) = T!HandleAfter(t, i)
<1>1. PICK u : u = T!Blotted(t)
  OBVIOUS
<1>2. PICK B : u \in Seq(B)
  BY <1>1, BlottedText
<1>3. PICK n \in Nat : n = Len(t)
  OBVIOUS
<1>4. /\ Len(u) = n /\ i \in 1 .. n
      /\ \A j \in 1 .. n :
            /\ u[j] = "@" <=> t[j] = "@"
            /\ T!isSpaceByte(u[j]) <=> T!isSpaceByte(t[j])
            /\ T!isMentionTerminator(u[j]) <=> T!isMentionTerminator(t[j])
            /\ T!isMentionRune(u[j]) <=> T!isMentionRune(t[j])
            /\ T!isMentionRune(t[j]) => u[j] = t[j]
  BY <1>1, <1>3, BlottedText
<1>5. Opening(u, i) <=> Opening(t, i)
  <2>1. i > 1 => i - 1 \in 1 .. n
    BY <1>4
  <2>. QED
    BY <1>4, <2>1 DEF Opening
<1>6. PICK run : /\ run = T!RunAfter(t, i)
                 /\ run \in 0 .. MaxHandle /\ i + run <= n
                 /\ \A j \in i + 1 .. i + run : T!isMentionRune(t[j])
                 /\ \A k \in 0 .. MaxHandle :
                      i + k <= n /\ (\A j \in i + 1 .. i + k : T!isMentionRune(t[j])) => k <= run
  BY <1>3, Runs
<1>7. PICK other : /\ other = T!RunAfter(u, i)
                   /\ other \in 0 .. MaxHandle /\ i + other <= n
                   /\ \A j \in i + 1 .. i + other : T!isMentionRune(u[j])
                   /\ \A k \in 0 .. MaxHandle :
                        i + k <= n /\ (\A j \in i + 1 .. i + k : T!isMentionRune(u[j])) => k <= other
  BY <1>2, <1>4, Runs
<1>8. other = run
  <2>1. \A k \in Nat : \A j \in i + 1 .. i + k : i + k <= n => j \in 1 .. n
    BY <1>4
  <2>2. \A j \in i + 1 .. i + run : T!isMentionRune(u[j])
    BY <1>4, <1>6, <2>1, HandleBound
  <2>3. \A j \in i + 1 .. i + other : T!isMentionRune(t[j])
    BY <1>4, <1>7, <2>1, HandleBound
  <2>4. run <= other /\ other <= run
    BY <1>6, <1>7, <2>2, <2>3
  <2>. QED
    BY <1>6, <1>7, <2>4, HandleBound
<1>9. ASSUME NEW k \in 1 .. run  PROVE T!Ends(u, i, k) <=> T!Ends(t, i, k)
  <2>1. i + k = n \/ i + k + 1 \in 1 .. n
    BY <1>4, <1>6, HandleBound
  <2>. QED
    BY <1>3, <1>4, <2>1 DEF T!Ends
<1>10. Stops(u, i) = Stops(t, i)
  BY <1>6, <1>7, <1>8, <1>9 DEF Stops
<1>11. CASE Stops(t, i) = {}
  <2>1. T!HandleAfter(t, i) = <<>> /\ T!HandleAfter(u, i) = <<>>
    BY <1>10, <1>11 DEF Stops, T!HandleAfter
  <2>. QED
    BY <1>1, <1>10, <1>11, <2>1 DEF Mentions
<1>12. CASE Stops(t, i) # {}
  <2>1. PICK k : /\ k = T!Max(Stops(t, i)) /\ k \in Stops(t, i)
                 /\ T!HandleAfter(t, i) = SubSeq(t, i + 1, i + k)
    <3>1. Stops(t, i) \in SUBSET (0 .. MaxHandle)
      BY <1>6, HandleBound DEF Stops
    <3>2. T!Max(Stops(t, i)) \in Stops(t, i)
      BY <1>12, <3>1, HandleBound, Largest
    <3>. QED
      BY <1>12, <3>2, LongestHandle
  <2>2. T!HandleAfter(u, i) = SubSeq(u, i + 1, i + k)
    BY <1>2, <1>4, <1>10, <1>12, <2>1, LongestHandle
  <2>3. k \in 1 .. run
    BY <1>6, <2>1 DEF Stops
  <2>4. \A j \in i + 1 .. i + k : j \in 1 .. n /\ u[j] = t[j]
    <3>1. \A j \in i + 1 .. i + k : j \in 1 .. n /\ j \in i + 1 .. i + run
      BY <1>4, <1>6, <2>3, HandleBound
    <3>. QED
      BY <1>4, <1>6, <3>1
  <2>5. SubSeq(u, i + 1, i + k) = SubSeq(t, i + 1, i + k)
    <3>1. i + 1 \in 1 .. n /\ i + k \in 1 .. n /\ k \in Nat
      BY <1>4, <1>6, <2>3, HandleBound
    <3>2. /\ SubSeq(u, i + 1, i + k) = [l \in 1 .. k |-> u[i + l]]
          /\ SubSeq(t, i + 1, i + k) = [l \in 1 .. k |-> t[i + l]]
      BY <1>2, <1>3, <1>4, <3>1
    <3>3. \A l \in 1 .. k : u[i + l] = t[i + l]
      BY <1>4, <2>4, <3>1
    <3>. QED
      BY <3>2, <3>3
  <2>. QED
    BY <1>1, <1>5, <1>10, <2>1, <2>2, <2>5 DEF Mentions
<1>. QED
  BY <1>1, <1>11, <1>12

LEMMA ScannedBlotted ==
    ASSUME NEW C, NEW t \in Seq(C)
    PROVE  T!ExtractMentions(T!Blotted(t)) = T!ExtractMentions(t)
<1>1. PICK u : u = T!Blotted(t)
  OBVIOUS
<1>2. PICK n \in Nat : n = Len(t)
  OBVIOUS
<1>3. Len(u) = n /\ \E B : u \in Seq(B)
  BY <1>1, <1>2, BlottedText
<1>4. PICK f : Finds(f, t) /\ T!ExtractMentions(t) = f[n]
  BY <1>2, FoundEquation
<1>5. PICK g : Finds(g, u) /\ T!ExtractMentions(u) = g[n]
  BY <1>3, FoundEquation
<1>. DEFINE Good == {k \in Nat : k <= n => f[k] = g[k]}
<1>6. 0 \in Good
  BY <1>4, <1>5 DEF Finds
<1>7. ASSUME NEW k \in Nat, k \in Good  PROVE k + 1 \in Good
  <2>. SUFFICES ASSUME k + 1 <= n PROVE f[k + 1] = g[k + 1]
    OBVIOUS
  <2>1. k + 1 \in 1 .. n /\ (k + 1) - 1 = k /\ f[k] = g[k]
    BY <1>2, <1>7
  <2>2. /\ Mentions(u, k + 1) <=> Mentions(t, k + 1)
        /\ T!HandleAfter(u, k + 1) = T!HandleAfter(t, k + 1)
    BY <1>1, <1>2, <2>1, BlottedHandle
  <2>. QED
    BY <1>2, <1>3, <1>4, <1>5, <2>1, <2>2 DEF Finds
<1>. HIDE DEF Good
<1>8. n \in Good
  BY <1>6, <1>7, Induction
<1>. QED
  BY <1>1, <1>2, <1>4, <1>5, <1>8 DEF Good

(***************************************************************************)
(* A text is made of the characters of an alphabet.                        *)
(***************************************************************************)
TextInv == typed \in Seq(UNION Alphabets)

LEMMA TextTypes == WalksSpec => []TextInv
<1>1. WalksInit => TextInv
  <2>1. <<>> \in Seq(UNION Alphabets)
    OBVIOUS
  <2>2. WalksInit => typed = <<>>
    BY DEF WalksInit, T!NoText
  <2>. QED
    BY <2>1, <2>2 DEF TextInv
<1>2. TextInv /\ [WalksNext]_<<task, vars, realm, typed, calendar>> => TextInv'
  <2>. SUFFICES ASSUME TextInv, [WalksNext]_<<task, vars, realm, typed, calendar>> PROVE TextInv'
    OBVIOUS
  <2>1. CASE T!Type
    BY <2>1 DEF T!Type, TextInv
  <2>2. CASE UNCHANGED typed
    BY <2>2 DEF TextInv
  <2>. QED
    BY <2>1, <2>2 DEF WalksNext
<1>. QED
  BY <1>1, <1>2, PTL DEF WalksSpec

\* Of a text of any length the mentions are what the platform's expression
\* would have made of it, but for its no-break spaces, and what is stored is
\* what would have been stored.
THEOREM WalksReadTheText == WalksSpec => []SameText
<1>1. TextInv => SameText
  <2>. SUFFICES ASSUME TextInv PROVE SameText
    OBVIOUS
  <2>1. T!ExtractMentions(T!Blotted(typed))
          = T!Deduplicated(T!MatchedMentions(T!Blotted(typed)))
    <3>. DEFINE B == UNION Alphabets
                C == (B \ {"nbsp"}) \cup {"<"}
    <3>0. PICK t \in Seq(B) : t = typed
      BY DEF TextInv
    <3>1. T!Blotted(t) \in Seq(C)
      BY BlottedText, Zenon
    <3>2. "nbsp" \notin C
      OBVIOUS
    <3>3. \A u \in Seq(C) : T!ExtractMentions(u) = T!Deduplicated(T!MatchedMentions(u))
      <4>. HIDE DEF C
      <4>. QED
        BY <3>2, MentionsAreSame
    <3>. QED
      BY <3>0, <3>1, <3>3, Zenon
  <2>2. T!SameMentions
    BY <2>1, ScannedBlotted DEF T!SameMentions, TextInv
  <2>3. T!SameStorage
    BY StorageIsSame DEF TextInv
  <2>. QED
    BY <2>2, <2>3 DEF SameText
<1>. QED
  BY <1>1, TextTypes, PTL

(***************************************************************************)
(* What Only selects: all of these, at places that ascend.                 *)
(***************************************************************************)
Selects(u, s, these) ==
    \E f \in [1 .. Len(u) -> 1 .. Len(s)] :
        /\ \A k \in 1 .. Len(u) : u[k] = s[f[k]] /\ u[k] \in these
        /\ \A j, k \in 1 .. Len(u) : j < k => f[j] < f[k]
        /\ \A k \in 1 .. Len(s) : s[k] \in these => \E j \in 1 .. Len(u) : f[j] = k

LEMMA OnlySelects ==
    ASSUME NEW Set, NEW s \in Seq(Set), NEW these
    PROVE  Only(s, these) \in Seq(Set) /\ Selects(Only(s, these), s, these)
<1>. DEFINE n == Len(s)
            g == Passed(s, these)
            Upto(i) ==
               \E f \in [1 .. Len(g[i]) -> 1 .. i] :
                  /\ \A k \in 1 .. Len(g[i]) : g[i][k] = s[f[k]] /\ g[i][k] \in these
                  /\ \A j, k \in 1 .. Len(g[i]) : j < k => f[j] < f[k]
                  /\ \A k \in 1 .. i : s[k] \in these => \E j \in 1 .. Len(g[i]) : f[j] = k
            I == {i \in Nat : i <= n => Upto(i)}
<1>1. /\ Only(s, these) = g[n] /\ g \in [0 .. n -> Seq(Set)] /\ g[0] = <<>>
      /\ \A i \in 1 .. n : g[i] = IF s[i] \in these THEN Append(g[i - 1], s[i]) ELSE g[i - 1]
  BY PassedEquation
<1>2. n \in Nat /\ \A i \in 1 .. n : s[i] \in Set
  OBVIOUS
<1>. HIDE DEF g, n
<1>3. 0 \in I
  <2>1. Len(g[0]) = 0
    BY <1>1
  <2>2. 1 .. Len(g[0]) = {}
    BY <2>1
  <2>3. PICK e : e = [k \in 1 .. Len(g[0]) |-> 0]
    OBVIOUS
  <2>4. e \in [1 .. Len(g[0]) -> 1 .. 0]
    BY <2>2, <2>3
  <2>5. \A k \in 1 .. Len(g[0]) : FALSE
    BY <2>2
  <2>6. \A k \in 1 .. 0 : FALSE
    OBVIOUS
  <2>7. Upto(0)
    BY <2>4, <2>5, <2>6
  <2>. HIDE DEF Upto
  <2>. QED
    BY <2>7
<1>4. ASSUME NEW i \in Nat, i \in I  PROVE i + 1 \in I
  <2>. HIDE DEF Upto
  <2>. SUFFICES ASSUME i + 1 <= n PROVE Upto(i + 1)
    OBVIOUS
  <2>0. Upto(i)
    BY <1>2, <1>4
  <2>. USE DEF Upto
  <2>1. /\ i + 1 \in 1 .. n /\ i \in 0 .. n /\ (i + 1) - 1 = i /\ g[i] \in Seq(Set)
        /\ s[i + 1] \in Set
    <3>1. i + 1 \in 1 .. n /\ i \in 0 .. n /\ (i + 1) - 1 = i
      BY <1>2
    <3>2. g[i] \in Seq(Set)
      BY <1>1, <3>1
    <3>. QED
      BY <1>2, <3>1, <3>2
  <2>2. PICK f \in [1 .. Len(g[i]) -> 1 .. i] :
           /\ \A k \in 1 .. Len(g[i]) : g[i][k] = s[f[k]] /\ g[i][k] \in these
           /\ \A j, k \in 1 .. Len(g[i]) : j < k => f[j] < f[k]
           /\ \A k \in 1 .. i : s[k] \in these => \E j \in 1 .. Len(g[i]) : f[j] = k
    BY <2>0
  <2>3. g[i + 1] = IF s[i + 1] \in these THEN Append(g[i], s[i + 1]) ELSE g[i]
    BY <1>1, <2>1
  <2>4. CASE s[i + 1] \notin these
    <3>1. g[i + 1] = g[i] /\ f \in [1 .. Len(g[i]) -> 1 .. i + 1]
      BY <2>1, <2>3, <2>4
    <3>2. \A k \in 1 .. i + 1 : s[k] \in these => k \in 1 .. i
      BY <2>4
    <3>. QED
      BY <2>2, <3>1, <3>2
  <2>5. CASE s[i + 1] \in these
    <3>. DEFINE m == Len(g[i])
                h == [k \in 1 .. m + 1 |-> IF k = m + 1 THEN i + 1 ELSE f[k]]
    <3>1. /\ m \in Nat /\ Len(g[i + 1]) = m + 1
          /\ \A k \in 1 .. m : g[i + 1][k] = g[i][k]
          /\ g[i + 1][m + 1] = s[i + 1]
      BY <2>1, <2>3, <2>5
    <3>0. f \in [1 .. m -> 1 .. i]
      BY <2>2
    <3>. HIDE DEF m
    <3>2. h \in [1 .. m + 1 -> 1 .. i + 1]
      BY <2>2, <3>1 DEF m
    <3>3. \A k \in 1 .. m + 1 : g[i + 1][k] = s[h[k]] /\ g[i + 1][k] \in these
      <4>. TAKE k \in 1 .. m + 1
      <4>1. CASE k = m + 1
        BY <4>1, <3>1, <2>5
      <4>2. CASE k \in 1 .. m
        BY <4>2, <3>1, <2>2 DEF m
      <4>. QED
        BY <4>1, <4>2, <3>1
    <3>4. \A j, k \in 1 .. m + 1 : j < k => h[j] < h[k]
      <4>. SUFFICES ASSUME NEW j \in 1 .. m + 1, NEW k \in 1 .. m + 1, j < k
                    PROVE  h[j] < h[k]
        OBVIOUS
      <4>1. j \in 1 .. m /\ h[j] = f[j] /\ f[j] \in 1 .. i
        <5>1. j \in 1 .. m
          BY <3>1
        <5>. QED
          BY <5>1, <3>0, <3>1
      <4>2. CASE k = m + 1
        BY <4>1, <4>2
      <4>3. CASE k \in 1 .. m
        BY <4>1, <4>3, <2>2, <3>1 DEF m
      <4>. QED
        BY <4>2, <4>3, <3>1
    <3>5. \A k \in 1 .. i + 1 : s[k] \in these => \E j \in 1 .. m + 1 : h[j] = k
      <4>. SUFFICES ASSUME NEW k \in 1 .. i + 1, s[k] \in these
                    PROVE  \E j \in 1 .. m + 1 : h[j] = k
        OBVIOUS
      <4>1. CASE k = i + 1
        <5>1. m + 1 \in 1 .. m + 1 /\ h[m + 1] = i + 1
          BY <3>1
        <5>. QED
          BY <4>1, <5>1
      <4>2. CASE k \in 1 .. i
        <5>1. PICK j \in 1 .. m : f[j] = k
          BY <4>2, <2>2 DEF m
        <5>2. j \in 1 .. m + 1 /\ h[j] = k
          BY <5>1, <3>1
        <5>. QED
          BY <5>2
      <4>. QED
        BY <4>1, <4>2
    <3>. HIDE DEF h
    <3>6. h \in [1 .. Len(g[i + 1]) -> 1 .. i + 1]
      BY <3>1, <3>2
    <3>7. \A k \in 1 .. Len(g[i + 1]) : g[i + 1][k] = s[h[k]] /\ g[i + 1][k] \in these
      BY <3>1, <3>3
    <3>8. \A j, k \in 1 .. Len(g[i + 1]) : j < k => h[j] < h[k]
      BY <3>1, <3>4
    <3>9. \A k \in 1 .. i + 1 : s[k] \in these => \E j \in 1 .. Len(g[i + 1]) : h[j] = k
      BY <3>1, <3>5
    <3>. QED
      BY <3>6, <3>7, <3>8, <3>9
  <2>. QED
    BY <2>4, <2>5
<1>. HIDE DEF I, Upto
<1>5. n \in I
  BY <1>3, <1>4, <1>2, Induction
<1>6. Upto(n) /\ g[n] \in Seq(Set)
  BY <1>1, <1>2, <1>5 DEF I
<1>. QED
  BY <1>1, <1>6 DEF Selects, Upto, n

\* A sequence of a finite set has all of it.
LEMMA OrdersHave ==
    ASSUME NEW U, IsFiniteSet(U), NEW s \in Orders(U)
    PROVE  /\ s \in Seq(U) /\ Range(s) = U /\ Len(s) = Cardinality(U)
           /\ \A i, j \in 1 .. Len(s) : i # j => s[i] # s[j]
<1>. DEFINE n == Cardinality(U)
<1>1. n \in Nat
  BY FS_CardinalityType
<1>2. s \in [1 .. n -> U] /\ \A i, j \in 1 .. n : i # j => s[i] # s[j]
  BY DEF Orders, Injection, IsInjective
<1>3. IsFiniteSet(1 .. n) /\ Cardinality(1 .. n) = n
  BY <1>1, FS_Interval
<1>4. s \in Injection(1 .. n, U)
  BY <1>2 DEF Injection, IsInjective
<1>5. s \in Surjection(1 .. n, U)
  BY <1>3, <1>4, FS_Injection
<1>6. \A u \in U : \E i \in 1 .. n : s[i] = u
  BY <1>5 DEF Surjection
<1>. HIDE DEF n
<1>7. s \in Seq(U) /\ Len(s) = n /\ DOMAIN s = 1 .. n
  BY <1>1, <1>2
<1>8. Range(s) = U
  BY <1>2, <1>6, <1>7 DEF Range
<1>. QED
  BY <1>2, <1>7, <1>8 DEF n

\* Whatever is among fewer than n that are greater is among the n greatest.
LEMMA PushedOut ==
    ASSUME NEW U, NEW V \in SUBSET U, IsFiniteSet(U), NEW n \in Nat,
           ~(Cardinality(V) < n)
    PROVE  Cardinality(U) >= n
<1>1. IsFiniteSet(V) /\ Cardinality(V) <= Cardinality(U)
  BY FS_Subset
<1>2. Cardinality(V) \in Nat /\ Cardinality(U) \in Nat
  BY <1>1, FS_CardinalityType
<1>. QED
  BY <1>1, <1>2

(***************************************************************************)
(* The words of the parts are those above.                                 *)
(***************************************************************************)
LEMMA HistoryWords ==
    /\ \A U : H!Cardinality(U) = Cardinality(U)
    /\ \A U : H!Range(U) = Range(U)
    /\ \A U : H!Ascending(U) = Ascending(U)
    /\ \A U, V : H!Only(U, V) = Only(U, V)
BY DEF H!Cardinality, Cardinality, H!Range, Range, H!Ascending, Ascending, H!Orders, Orders,
   H!Injection, Injection, H!IsInjective, IsInjective, H!Only, Only

(***************************************************************************)
(* AssertMember, question by question: who is let through had grounds      *)
(* enough, each of them at some moment, and who is not had not throughout. *)
(***************************************************************************)
Asking(q, k, some, all) ==
    /\ q # "contacts" => k # "community" /\ "free" \in some
    /\ q \in {"realm", "member", "participant"} => "clean" \in some
    /\ q \in {"member", "participant"} => k # "own" /\ (k = "conference" => "open" \notin all)
    /\ q = "participant" => k = "direct" /\ "row" \notin all

\* What follows it: another question, or an answer with its cause.
Followed(a, k, some, all) ==
    /\ a \in H!Questions \cup {"yes", "no"}
    /\ a \in H!Questions => Asking(a, k, some, all)
    /\ a = "yes" => \E grounds \in H!Enough(k) : grounds \subseteq some
    /\ a = "no" => \A grounds \in H!Enough(k) : ~(grounds \subseteq all)

LEMMA AskedFairly ==
    ASSUME NEW q \in H!Questions, NEW k \in H!Kinds, NEW some, NEW has, NEW all,
           has \subseteq some, all \subseteq has, Asking(q, k, some, all)
    PROVE  Followed(H!Asked(q, k, has), k, some, all)
<1>. SUFFICES ASSUME NEW a, a = H!Asked(q, k, has)
              PROVE  Followed(a, k, some, all)
  OBVIOUS
<1>. USE DEF Followed
<1>1. /\ k = "direct" => H!Enough(k) = {{"free", "clean", "row"}, {"free", "clean", "listed"}}
      /\ k = "realm" => H!Enough(k) = {{"free", "clean", "row"}}
      /\ k = "conference" => H!Enough(k) = {{"free", "clean", "row"}, {"free", "clean", "open"}}
      /\ k = "own" => H!Enough(k) = {{"free", "clean"}}
      /\ k = "community" => H!Enough(k) = {}
  BY DEF H!Enough
<1>2. CASE q = "contacts"
  BY <1>1, <1>2 DEF H!Asked, Asking, H!Questions, H!Kinds
<1>3. CASE q = "document"
  BY <1>1, <1>3 DEF H!Asked, Asking, H!Questions, H!Kinds
<1>4. CASE q = "realm"
  <2>1. a = IF k = "own" \/ (k = "conference" /\ "open" \in has) THEN "yes" ELSE "member"
    BY <1>4 DEF H!Asked
  <2>2. k # "community" /\ "free" \in some /\ "clean" \in some
    BY <1>4 DEF Asking
  <2>3. CASE a = "yes"
    <3>1. \E grounds \in H!Enough(k) : grounds \subseteq some
      <4>1. CASE k = "own"
        <5>1. {"free", "clean"} \in H!Enough(k) /\ {"free", "clean"} \subseteq some
          BY <1>1, <2>2, <4>1
        <5>. QED
          BY <5>1
      <4>2. CASE k = "conference" /\ "open" \in has
        <5>1. /\ {"free", "clean", "open"} \in H!Enough(k)
              /\ {"free", "clean", "open"} \subseteq some
          BY <1>1, <2>2, <4>2
        <5>. QED
          BY <5>1
      <4>. QED
        BY <2>1, <2>3, <4>1, <4>2
    <3>. QED
      BY <2>3, <3>1 DEF H!Questions
  <2>4. CASE a = "member"
    <3>1. k # "own" /\ (k = "conference" => "open" \notin all)
      BY <2>1, <2>4
    <3>. QED
      BY <2>2, <2>4, <3>1 DEF H!Questions, Asking
  <2>. QED
    BY <2>1, <2>3, <2>4
<1>5. CASE q = "member"
  <2>1. a = IF "row" \in has THEN "yes" ELSE IF k = "direct" THEN "participant" ELSE "no"
    BY <1>5 DEF H!Asked, H!WithoutRow
  <2>2. /\ k # "community" /\ "free" \in some /\ "clean" \in some
        /\ k # "own" /\ (k = "conference" => "open" \notin all)
    BY <1>5 DEF Asking
  <2>3. CASE a = "yes"
    <3>1. \E grounds \in H!Enough(k) : grounds \subseteq some
      <4>1. {"free", "clean", "row"} \in H!Enough(k)
        BY <1>1, <2>2 DEF H!Kinds
      <4>. QED
        BY <2>1, <2>2, <2>3, <4>1
    <3>. QED
      BY <2>3, <3>1 DEF H!Questions
  <2>4. CASE a = "participant"
    <3>1. k = "direct" /\ "row" \notin all
      BY <2>1, <2>4
    <3>. QED
      BY <2>2, <2>4, <3>1 DEF H!Questions, Asking
  <2>5. CASE a = "no"
    <3>1. k # "direct" /\ "row" \notin all
      BY <2>1, <2>5
    <3>2. \A grounds \in H!Enough(k) : ~(grounds \subseteq all)
      <4>1. CASE k = "realm"
        BY <1>1, <3>1, <4>1
      <4>2. CASE k = "conference"
        BY <1>1, <2>2, <3>1, <4>2
      <4>. QED
        BY <2>2, <3>1, <4>1, <4>2 DEF H!Kinds
    <3>. QED
      BY <2>5, <3>2 DEF H!Questions
  <2>. QED
    BY <2>1, <2>3, <2>4, <2>5
<1>6. CASE q = "participant"
  <2>1. a = IF "listed" \in has THEN "yes" ELSE "no"
    BY <1>6 DEF H!Asked
  <2>2. k = "direct" /\ "row" \notin all /\ "free" \in some /\ "clean" \in some
    BY <1>6 DEF Asking
  <2>3. CASE a = "yes"
    <3>1. /\ {"free", "clean", "listed"} \in H!Enough(k)
          /\ {"free", "clean", "listed"} \subseteq some
      BY <1>1, <2>1, <2>2, <2>3
    <3>. QED
      BY <2>3, <3>1 DEF H!Questions
  <2>4. CASE a = "no"
    BY <1>1, <2>1, <2>2, <2>4 DEF H!Questions
  <2>. QED
    BY <2>1, <2>3, <2>4
<1>. QED
  BY <1>2, <1>3, <1>4, <1>5, <1>6 DEF H!Questions

(***************************************************************************)
(* A read is guarded if its answers are justified as they stand, and each  *)
(* of its steps comes before the answer and leaves what it takes to be     *)
(* entitled as it is: the steps of others, and its own.                    *)
(***************************************************************************)
May(t, facts) == Guard!Entitled(Ways(t), facts)
In(facts)     == Guard!Entitled(Entry, facts)

Justified ==
    /\ Answer \in {"none", "shown", "refused", "failed"}
    /\ Answer # "shown" => Shown = {}
    /\ Answer = "shown" => In(ever) /\ \A t \in Shown : t \in Things /\ May(t, ever)
    /\ Answer = "refused" => ~In(always)

Still == Entry' = Entry /\ \A t \in Things : Ways(t)' = Ways(t)

Goes ==
    /\ Answer = "none" /\ Still
    /\ \/ /\ ever \subseteq ever' /\ ever' \subseteq Facts /\ always' \subseteq always
          /\ UNCHANGED <<Answer, Shown>>
       \/ UNCHANGED <<ever, always>>

LEMMA StepGuarded ==
    ASSUME Justified, Justified', Goes
    PROVE  [Guard!Next]_Guard!vars
<1>. DEFINE w == [t \in Things |-> Ways(t)]
<1>1. w' = w /\ Entry' = Entry
  BY DEF Goes, Still
<1>2. \A t \in Things : w[t] = Ways(t)
  OBVIOUS
<1>. HIDE DEF w
<1>5. Answer = "none" /\ Shown = {}
  BY DEF Goes, Justified
<1>6. CASE /\ ever \subseteq ever' /\ ever' \subseteq Facts /\ always' \subseteq always
           /\ UNCHANGED <<Answer, Shown>>
  <2>1. Guard!Witness
    BY <1>5, <1>6 DEF Guard!Witness
  <2>. QED
    BY <1>1, <2>1 DEF Guard!Next, w
<1>7. CASE UNCHANGED <<ever, always>>
  <2>1. CASE Answer' = "none"
    <3>1. UNCHANGED <<ever, always, Answer, Shown>>
      BY <1>5, <1>7, <2>1 DEF Justified
    <3>. QED
      BY <1>1, <3>1 DEF Guard!vars, w
  <2>2. CASE Answer' = "shown"
    <3>1. Guard!Entitled(Entry, ever)
      BY <1>1, <1>7, <2>2 DEF Justified, In, Guard!Entitled
    <3>2. \A t \in Shown' : t \in Things /\ Guard!Entitled(w[t], ever)
      BY <1>2, <1>7, <2>2 DEF Justified, May, Guard!Entitled, Goes, Still
    <3>3. Shown' \subseteq {t \in Things : Guard!Entitled(w[t], ever)}
      BY <3>2
    <3>4. Guard!Show
      BY <1>5, <1>7, <2>2, <3>1, <3>3 DEF Guard!Show, w
    <3>. QED
      BY <1>1, <3>4 DEF Guard!Next, w
  <2>3. CASE Answer' = "refused"
    <3>1. ~Guard!Entitled(Entry, always) /\ Shown' = Shown
      BY <1>1, <1>5, <1>7, <2>3 DEF Justified, In, Guard!Entitled
    <3>2. Guard!Refuse
      BY <1>5, <1>7, <2>3, <3>1 DEF Guard!Refuse
    <3>. QED
      BY <1>1, <3>2 DEF Guard!Next, w
  <2>4. CASE Answer' = "failed"
    <3>1. Shown' = Shown
      BY <1>5, <2>4 DEF Justified
    <3>2. Guard!Fail
      BY <1>5, <1>7, <2>4, <3>1 DEF Guard!Fail
    <3>. QED
      BY <1>1, <3>2 DEF Guard!Next, w
  <2>. QED
    BY <2>1, <2>2, <2>3, <2>4 DEF Justified
<1>. QED
  BY <1>6, <1>7 DEF Goes

(***************************************************************************)
(* History.  The questions of AssertMember end in what holds of the caller;*)
(* the query takes the newest of one moment, so whatever was there         *)
(* throughout and is not among them had the limit's worth of newer ones.   *)
(***************************************************************************)
Kept == {"parents", "own", "handles", "shown"}     \* what was found is there

HistoryTypes ==
    /\ route \in {"messages", "replies"} /\ kind \in H!Kinds /\ most \in Nat \ {0}
    /\ holds \subseteq ever /\ ever \subseteq H!Facts /\ always \subseteq holds
    /\ stage \in H!Questions \cup Kept \cup {"conversation", "find", "refused", "failed"}
    /\ transcript \in Seq(ChatMessages)

\* The way to the answer: whose question is asked passed those before it.
HistoryWay ==
    /\ stage \in H!Questions =>
          Asking(stage, kind, {g \in H!Grounds : <<g, Zero>> \in ever},
                 {g \in H!Grounds : <<g, Zero>> \in always})
    /\ stage \in Kept \cup {"conversation", "find"} => \E way \in H!Entry : way \subseteq ever
    /\ stage = "refused" => \A way \in H!Entry : ~(way \subseteq always)
    /\ stage \in {"conversation", "parents"} => route = "messages"
    /\ stage = "own" => route = "replies"

\* What is listed was there, and after the second query answers the caller.
HistoryFound ==
    /\ stage \notin Kept => transcript = <<>>
    /\ \A m \in H!Range(transcript) : m \in Chat \ Unreadable /\ <<"live", m>> \in ever
    /\ \A i, j \in 1 .. Len(transcript) : i < j => transcript[i] < transcript[j]
    /\ route = "replies" /\ stage \in {"handles", "shown"} =>
          \A m \in H!Range(transcript) : H!ToCaller(m) /\ <<"stored", Target[m]>> \in ever

\* What is due and not listed had the limit's worth of newer ones.
Newer(m) ==
    {n \in Chat \cap H!Are("live", ever) : n > m /\ (route = "replies" => n \in Replies)}

HistoryDue ==
    stage \in Kept =>
        \A m \in ChatMessages :
            (\E way \in H!Ways(m) : way \subseteq always) /\ m \notin H!Range(transcript)
            => Cardinality(Newer(m)) >= most

HistoryInv == HistoryTypes /\ HistoryWay /\ HistoryFound /\ HistoryDue

LEMMA HistoryStarts ==
    ASSUME H!HistoryAssumption, H!Init
    PROVE  HistoryInv
<1>1. HistoryTypes
  <2>1. holds \subseteq H!Facts /\ ever = holds /\ always = holds
    <3>1. PICK granted \in ChatGrants, old \in Collections, gone1 \in SUBSET Gone :
             holds = (granted \X {Zero}) \cup ({"stored"} \X old) \cup ({"live"} \X (old \ gone1))
      BY DEF H!Init
    <3>2. granted \subseteq H!Grounds /\ old \subseteq ChatMessages
      BY DEF H!HistoryAssumption
    <3>. QED
      BY <3>1, <3>2 DEF H!Init, H!WorldInit, H!Facts, H!Access
  <2>. QED
    BY <2>1 DEF H!Init, H!HistoryAssumption, HistoryTypes, H!Questions
<1>2. HistoryWay
  BY DEF H!Init, HistoryWay, Asking, Kept, H!Questions
<1>3. HistoryFound
  BY DEF H!Init, HistoryFound, Kept, H!Range
<1>4. HistoryDue
  BY DEF H!Init, HistoryDue, Kept
<1>. QED
  BY <1>1, <1>2, <1>3, <1>4 DEF HistoryInv

\* The steps of others.
HistoryOthers == H!Regrant \/ H!Say \/ H!Delete \/ H!Purge

LEMMA HistoryOthersWrite ==
    ASSUME H!HistoryAssumption, HistoryTypes, HistoryOthers
    PROVE  /\ ~H!Answered
           /\ UNCHANGED <<route, kind, most, stage, transcript, named, handled, scanned>>
           /\ ever \subseteq ever' /\ ever' \subseteq H!Facts
           /\ always' \subseteq always /\ always' \subseteq holds' /\ holds' \subseteq ever'
<1>. DEFINE Goal(facts) == H!Others(facts) /\ facts \subseteq H!Facts
<1>1. \E facts : Goal(facts)
  <2>0. holds \subseteq H!Facts
    BY DEF HistoryTypes
  <2>1. CASE H!Regrant
    <3>1. PICK granted \in SUBSET H!Access : H!Others((holds \ H!Access) \cup granted)
      BY <2>1 DEF H!Regrant
    <3>2. (holds \ H!Access) \cup granted \subseteq H!Facts
      BY <2>0 DEF H!Facts
    <3>. QED
      BY <3>1, <3>2
  <2>2. CASE H!Say
    <3>1. PICK m \in ChatMessages : H!Others(holds \cup ({"stored", "live"} \X {m}))
      BY <2>2 DEF H!Say
    <3>2. holds \cup ({"stored", "live"} \X {m}) \subseteq H!Facts
      BY <2>0 DEF H!Facts
    <3>. QED
      BY <3>1, <3>2
  <2>3. CASE H!Delete
    <3>1. PICK m : H!Others(holds \ {<<"live", m>>})
      BY <2>3 DEF H!Delete
    <3>. QED
      BY <2>0, <3>1
  <2>4. CASE H!Purge
    <3>1. PICK m : H!Others(holds \ ({"stored", "live"} \X {m}))
      BY <2>4 DEF H!Purge
    <3>. QED
      BY <2>0, <3>1
  <2>. QED
    BY <2>1, <2>2, <2>3, <2>4 DEF HistoryOthers
<1>2. PICK facts : Goal(facts)
  BY <1>1
<1>. QED
  BY <1>2 DEF H!Others, H!Becomes, H!request, H!reading, HistoryTypes

\* More may be newer later, and less due.
LEMMA NewerGrows ==
    ASSUME H!HistoryAssumption, HistoryTypes, ever \subseteq ever', UNCHANGED route,
           NEW m \in ChatMessages, Cardinality(Newer(m)) >= most, most' = most
    PROVE  Cardinality(Newer(m))' >= most'
<1>1. Newer(m) \subseteq Newer(m)' /\ Newer(m)' \subseteq ChatMessages
  BY DEF Newer, H!Are, H!HistoryAssumption
<1>2. IsFiniteSet(ChatMessages)
  BY DEF H!HistoryAssumption, H!IsFiniteSet, IsFiniteSet
<1>3. IsFiniteSet(Newer(m)') /\ IsFiniteSet(Newer(m))
  BY <1>1, <1>2, FS_Subset
<1>4. /\ Cardinality(Newer(m)) <= Cardinality(Newer(m)')
      /\ Cardinality(Newer(m)) \in Nat /\ Cardinality(Newer(m)') \in Nat
  BY <1>1, <1>3, FS_Subset, FS_CardinalityType
<1>. QED
  BY <1>4 DEF HistoryTypes

LEMMA HistoryWaysStay ==
    ASSUME UNCHANGED <<route, kind>>
    PROVE  H!Entry' = H!Entry /\ \A m : H!Ways(m)' = H!Ways(m)
BY DEF H!Ways, H!Entry, H!ToCaller, H!OwnParent

LEMMA HistoryOthersKeep ==
    ASSUME H!HistoryAssumption, HistoryInv, HistoryOthers
    PROVE  HistoryInv'
<1>1. /\ ~H!Answered
      /\ UNCHANGED <<route, kind, most, stage, transcript, named, handled, scanned>>
      /\ ever \subseteq ever' /\ ever' \subseteq H!Facts
      /\ always' \subseteq always /\ always' \subseteq holds' /\ holds' \subseteq ever'
  BY HistoryOthersWrite DEF HistoryInv
<1>2. H!Entry' = H!Entry /\ \A m : H!Ways(m)' = H!Ways(m)
  BY <1>1, HistoryWaysStay
<1>3. HistoryTypes'
  BY <1>1 DEF HistoryInv, HistoryTypes
<1>4. HistoryWay'
  <2>1. stage # "refused"
    BY <1>1 DEF H!Answered
  <2>. QED
    BY <1>1, <1>2, <2>1 DEF HistoryInv, HistoryWay, Asking
<1>5. HistoryFound'
  BY <1>1 DEF HistoryInv, HistoryFound, H!ToCaller
<1>6. HistoryDue'
  <2>. SUFFICES ASSUME stage' \in Kept, NEW m \in ChatMessages,
                       (\E way \in H!Ways(m)' : way \subseteq always'),
                       m \notin H!Range(transcript')
                PROVE  Cardinality(Newer(m))' >= most'
    BY DEF HistoryDue
  <2>1. Cardinality(Newer(m)) >= most
    BY <1>1, <1>2 DEF HistoryInv, HistoryDue
  <2>. QED
    BY <1>1, <2>1, NewerGrows DEF HistoryInv
<1>. QED
  BY <1>3, <1>4, <1>5, <1>6 DEF HistoryInv

\* A step that reads nothing leaves what is listed as it is.
LEMMA ListedAsItIs ==
    ASSUME HistoryInv, UNCHANGED <<route, kind, most, holds, ever, always, changes, transcript>>,
           stage' \in Kept <=> stage \in Kept,
           stage' \in {"handles", "shown"} /\ route = "replies" => stage \in {"handles", "shown"}
    PROVE  HistoryFound' /\ HistoryDue'
<1>1. H!Entry' = H!Entry /\ \A m : H!Ways(m)' = H!Ways(m)
  BY HistoryWaysStay
<1>2. HistoryFound'
  BY DEF HistoryInv, HistoryFound, Kept, H!ToCaller
<1>3. HistoryDue'
  BY <1>1 DEF HistoryInv, HistoryDue, Newer, H!Are
<1>. QED
  BY <1>2, <1>3

LEMMA AskKeeps ==
    ASSUME H!HistoryAssumption, HistoryInv, H!Ask
    PROVE  HistoryInv'
<1>. DEFINE some == {g \in H!Grounds : <<g, Zero>> \in ever}
            all  == {g \in H!Grounds : <<g, Zero>> \in always}
            a    == H!Asked(stage, kind, H!Held)
<1>1. /\ stage \in H!Questions
      /\ stage' = CASE a = "yes" -> IF route = "messages" THEN "conversation" ELSE "find"
                    [] a = "no" -> "refused"
                    [] OTHER -> a
      /\ UNCHANGED <<route, kind, most, holds, ever, always, changes, transcript, named,
                     handled, scanned>>
  BY DEF H!Ask, H!request, H!world, H!reading
<1>2. /\ kind \in H!Kinds /\ H!Held \in SUBSET some /\ all \in SUBSET H!Held
      /\ Asking(stage, kind, some, all)
  BY <1>1 DEF HistoryInv, HistoryTypes, HistoryWay, H!Held
<1>0. PICK has : has = H!Held
  OBVIOUS
<1>0a. a = H!Asked(stage, kind, has)
  BY <1>0
<1>0b. has \subseteq some /\ all \subseteq has
  BY <1>0, <1>2
<1>. HIDE DEF some, all, a
<1>3. /\ a \in H!Questions \cup {"yes", "no"}
      /\ a \in H!Questions => Asking(a, kind, some, all)
      /\ a = "yes" => \E grounds \in H!Enough(kind) : grounds \subseteq some
      /\ a = "no" => \A grounds \in H!Enough(kind) : ~(grounds \subseteq all)
  <2>1. /\ stage \in H!Questions /\ kind \in H!Kinds /\ has \subseteq some /\ all \subseteq has
        /\ Asking(stage, kind, some, all) /\ a = H!Asked(stage, kind, has)
    BY <1>1, <1>2, <1>0a, <1>0b
  <2>2. Followed(a, kind, some, all)
    BY <2>1, AskedFairly
  <2>. QED
    BY <2>2 DEF Followed
<1>4. stage \notin Kept /\ stage' \notin Kept
  BY <1>1, <1>3 DEF H!Questions, Kept
<1>5. HistoryFound' /\ HistoryDue'
  BY <1>1, <1>4, ListedAsItIs DEF Kept
<1>6. stage' \in H!Questions \cup {"conversation", "find", "refused"}
  BY <1>1, <1>3 DEF H!Questions
<1>7. HistoryTypes'
  BY <1>1, <1>6 DEF HistoryInv, HistoryTypes
<1>8. HistoryWay'
  <2>1. stage' \in H!Questions => Asking(stage', kind, some, all)
    BY <1>1, <1>3 DEF H!Questions
  <2>2. stage' \in {"conversation", "find"} => \E way \in H!Entry : way \subseteq ever
    <3>. SUFFICES ASSUME stage' \in {"conversation", "find"}
                  PROVE  \E way \in H!Entry : way \subseteq ever
      OBVIOUS
    <3>1. a = "yes"
      BY <1>1, <1>3 DEF H!Questions
    <3>2. PICK grounds \in H!Enough(kind) : grounds \subseteq some
      BY <3>1, <1>3
    <3>3. grounds \X {Zero} \in H!Entry /\ grounds \X {Zero} \subseteq ever
      BY <3>2 DEF H!Entry, some
    <3>. QED
      BY <3>3
  <2>3. stage' = "refused" => \A way \in H!Entry : ~(way \subseteq always)
    <3>. SUFFICES ASSUME stage' = "refused", NEW way \in H!Entry, way \subseteq always
                  PROVE  FALSE
      OBVIOUS
    <3>1. a = "no"
      BY <1>1, <1>3 DEF H!Questions
    <3>2. PICK grounds \in H!Enough(kind) : way = grounds \X {Zero}
      BY DEF H!Entry
    <3>3. grounds \subseteq H!Grounds
      BY <1>2 DEF H!Enough, H!Grounds, H!Kinds
    <3>4. grounds \subseteq all
      BY <3>2, <3>3 DEF all
    <3>. QED
      BY <3>1, <3>2, <3>4, <1>3
  <2>4. /\ stage' # "parents" /\ stage' # "own" /\ stage' \notin Kept
        /\ stage' = "conversation" => route = "messages"
    BY <1>1, <1>3, <1>4 DEF H!Questions, Kept
  <2>5. H!Entry' = H!Entry
    BY <1>1, HistoryWaysStay
  <2>. QED
    BY <1>1, <2>1, <2>2, <2>3, <2>4, <2>5 DEF HistoryWay, some, all
<1>. QED
  BY <1>5, <1>7, <1>8 DEF HistoryInv

\* From one stage to the next, without a question.
LEMMA HistoryWayGoesOn ==
    ASSUME HistoryWay, UNCHANGED <<route, kind, holds, ever, always>>,
           stage \in Kept \cup {"conversation", "find"},
           stage' \in Kept \cup {"find"} \/ stage' = "failed",
           stage' = "parents" => route = "messages", stage' = "own" => route = "replies"
    PROVE  HistoryWay'
<1>1. H!Entry' = H!Entry
  BY HistoryWaysStay
<1>2. stage' \notin H!Questions /\ stage' # "refused" /\ stage' # "conversation"
  BY DEF H!Questions, Kept
<1>. QED
  BY <1>1, <1>2 DEF HistoryWay

LEMMA LoadConversationKeeps ==
    ASSUME HistoryInv, H!LoadConversation
    PROVE  HistoryInv'
<1>1. /\ stage = "conversation" /\ stage' = "find"
      /\ UNCHANGED <<route, kind, most, holds, ever, always, changes, transcript>>
  BY DEF H!LoadConversation, H!request, H!world, H!reading
<1>2. HistoryFound' /\ HistoryDue'
  BY <1>1, ListedAsItIs DEF Kept
<1>3. HistoryWay'
  BY <1>1, HistoryWayGoesOn DEF HistoryInv
<1>4. HistoryTypes'
  BY <1>1 DEF HistoryInv, HistoryTypes
<1>. QED
  BY <1>2, <1>3, <1>4 DEF HistoryInv

LEMMA ResolveKeeps ==
    ASSUME HistoryInv, H!resolveReplyParents \/ H!resolveHandles
    PROVE  HistoryInv'
<1>1. /\ \/ stage = "parents" /\ stage' = "handles"
         \/ stage = "handles" /\ stage' = "shown"
      /\ UNCHANGED <<route, kind, most, holds, ever, always, changes, transcript>>
  BY DEF H!resolveReplyParents, H!resolveHandles, H!request, H!world
<1>2. stage = "parents" => route = "messages"
  BY DEF HistoryInv, HistoryWay
<1>3. HistoryFound' /\ HistoryDue'
  BY <1>1, <1>2, ListedAsItIs DEF Kept
<1>4. HistoryWay'
  BY <1>1, HistoryWayGoesOn DEF HistoryInv, Kept
<1>5. HistoryTypes'
  BY <1>1 DEF HistoryInv, HistoryTypes, Kept
<1>. QED
  BY <1>3, <1>4, <1>5 DEF HistoryInv

LEMMA HistoryFailsKeeps ==
    ASSUME HistoryInv, H!Fails
    PROVE  HistoryInv'
<1>1. /\ stage' = "failed" /\ transcript' = <<>>
      /\ UNCHANGED <<route, kind, most, holds, ever, always, changes>>
  BY DEF H!Fails, H!request, H!world
<1>2. HistoryTypes'
  BY <1>1 DEF HistoryInv, HistoryTypes
<1>3. HistoryWay' /\ HistoryDue'
  BY <1>1 DEF HistoryWay, HistoryDue, H!Questions, Kept
<1>4. HistoryFound'
  BY <1>1 DEF HistoryFound, H!Range
<1>. QED
  BY <1>2, <1>3, <1>4 DEF HistoryInv

LEMMA findMessagesKeeps ==
    ASSUME H!HistoryAssumption, HistoryInv, H!findMessages
    PROVE  HistoryInv'
<1>. DEFINE found == H!Newest(H!Matching) \ Unreadable
<1>1. /\ stage = "find"
      /\ stage' = IF route = "messages" THEN "parents"
                  ELSE IF transcript' = <<>> THEN "shown" ELSE "own"
      /\ transcript' \in H!Ascending(found)
      /\ UNCHANGED <<route, kind, most, holds, ever, always, changes, named, handled, scanned>>
  BY DEF H!findMessages, H!request, H!world
<1>2. /\ H!Matching = {m \in Chat : <<"live", m>> \in holds /\ (route = "replies" => m \in Replies)}
      /\ H!Matching \subseteq ChatMessages /\ found \subseteq H!Matching /\ found \cap Unreadable = {}
  <2>1. Chat \subseteq ChatMessages
    BY DEF H!HistoryAssumption
  <2>. QED
    BY <2>1 DEF H!Matching, H!Live, H!Are, H!Newest
<1>3. IsFiniteSet(found)
  <2>1. IsFiniteSet(ChatMessages)
    BY DEF H!HistoryAssumption, H!IsFiniteSet, IsFiniteSet
  <2>. QED
    BY <1>2, <2>1, FS_Subset
<1>4. /\ transcript' \in Orders(found)
      /\ \A i, j \in DOMAIN transcript' : i < j => transcript'[i] < transcript'[j]
  <2>1. transcript' \in Ascending(found)
    BY <1>1, HistoryWords
  <2>. QED
    BY <2>1 DEF Ascending
<1>5. transcript' \in Seq(found) /\ Range(transcript') = found
  BY <1>3, <1>4, OrdersHave
<1>6. H!Range(transcript') = found
  BY <1>5, HistoryWords
<1>7. stage' \in Kept /\ stage' \in {"parents", "own", "shown"}
  BY <1>1 DEF Kept
<1>8. HistoryTypes'
  <2>1. transcript' \in Seq(ChatMessages)
    <3>1. found \subseteq ChatMessages
      BY <1>2
    <3>. HIDE DEF found
    <3>. QED
      BY <1>5, <3>1
  <2>. QED
    BY <1>1, <1>7, <2>1 DEF HistoryInv, HistoryTypes
<1>9. HistoryWay'
  <2>1. stage' = "own" => route = "replies"
    BY <1>1 DEF HistoryInv, HistoryTypes
  <2>2. stage' = "parents" => route = "messages"
    BY <1>1
  <2>. QED
    BY <1>1, <1>7, <2>1, <2>2, HistoryWayGoesOn DEF HistoryInv
<1>10. HistoryFound'
  <2>1. \A m \in H!Range(transcript') : m \in Chat \ Unreadable /\ <<"live", m>> \in ever'
    BY <1>1, <1>2, <1>6 DEF HistoryInv, HistoryTypes
  <2>2. \A i, j \in 1 .. Len(transcript') : i < j => transcript'[i] < transcript'[j]
    BY <1>4, <1>5
  <2>3. route' = "replies" /\ stage' \in {"handles", "shown"} => H!Range(transcript') = {}
    BY <1>1 DEF H!Range
  <2>. QED
    BY <1>7, <2>1, <2>2, <2>3 DEF HistoryFound
<1>11. HistoryDue'
  <2>. SUFFICES ASSUME NEW m \in ChatMessages, NEW way \in H!Ways(m), way \subseteq always,
                       m \notin found
                PROVE  Cardinality(Newer(m)) >= most
    <3>1. \A m : H!Ways(m)' = H!Ways(m) /\ Newer(m)' = Newer(m)
      BY <1>1, HistoryWaysStay DEF Newer, H!Are
    <3>. QED
      BY <1>1, <1>6, <3>1 DEF HistoryDue
  <2>1. m \in Chat \ Unreadable /\ (route = "replies" => H!ToCaller(m)) /\ <<"live", m>> \in way
    BY DEF H!Ways
  <2>2. <<"live", m>> \in holds
    BY <2>1 DEF HistoryInv, HistoryTypes
  <2>3. route = "replies" => m \in Replies
    BY <2>1 DEF H!ToCaller, H!HistoryAssumption
  <2>4. m \in H!Matching
    BY <1>2, <2>1, <2>2, <2>3
  <2>5. ~(Cardinality({k \in H!Matching : k > m}) < most)
    BY <2>1, <2>4, HistoryWords DEF H!Newest
  <2>6. {k \in H!Matching : k > m} \subseteq Newer(m)
    BY <1>2 DEF Newer, H!Are, HistoryInv, HistoryTypes
  <2>7. IsFiniteSet(Newer(m))
    <3>1. IsFiniteSet(ChatMessages) /\ Newer(m) \subseteq ChatMessages
      BY DEF H!HistoryAssumption, H!IsFiniteSet, IsFiniteSet, Newer
    <3>. QED
      BY <3>1, FS_Subset
  <2>8. most \in Nat
    BY DEF HistoryInv, HistoryTypes
  <2>. QED
    BY <2>5, <2>6, <2>7, <2>8, PushedOut
<1>. QED
  BY <1>8, <1>9, <1>10, <1>11 DEF HistoryInv

LEMMA messagesAuthoredByKeeps ==
    ASSUME H!HistoryAssumption, HistoryInv, H!messagesAuthoredBy
    PROVE  HistoryInv'
<1>. DEFINE own  == {m \in H!Are("stored", holds) : SenderOf[m] = Caller}
            mine == {m \in ChatMessages : Target[m] \in own}
<1>1. /\ stage = "own" /\ stage' = "handles" /\ transcript' = Only(transcript, mine)
      /\ UNCHANGED <<route, kind, most, holds, ever, always, changes, handled, scanned>>
  BY HistoryWords DEF H!messagesAuthoredBy, H!selectRepliesTo, H!request, H!world
<1>2. transcript \in Seq(ChatMessages) /\ route = "replies"
  BY <1>1 DEF HistoryInv, HistoryTypes, HistoryWay
<1>. HIDE DEF mine
<1>3. Only(transcript, mine) \in Seq(ChatMessages) /\ Selects(Only(transcript, mine), transcript, mine)
  BY <1>2, OnlySelects
<1>4. transcript' \in Seq(ChatMessages) /\ Selects(transcript', transcript, mine)
  BY <1>1, <1>3
<1>5. PICK f \in [1 .. Len(transcript') -> 1 .. Len(transcript)] :
        /\ \A k \in 1 .. Len(transcript') : transcript'[k] = transcript[f[k]] /\ transcript'[k] \in mine
        /\ \A j, k \in 1 .. Len(transcript') : j < k => f[j] < f[k]
        /\ \A k \in 1 .. Len(transcript) :
              transcript[k] \in mine => \E j \in 1 .. Len(transcript') : f[j] = k
  BY <1>4 DEF Selects
<1>6. H!Range(transcript') = H!Range(transcript) \cap mine
  <2>1. /\ H!Range(transcript) = {transcript[k] : k \in 1 .. Len(transcript)}
        /\ H!Range(transcript') = {transcript'[k] : k \in 1 .. Len(transcript')}
    BY <1>2, <1>4 DEF H!Range
  <2>2. ASSUME NEW k \in 1 .. Len(transcript')  PROVE transcript'[k] \in H!Range(transcript) \cap mine
    BY <1>5, <2>1
  <2>3. ASSUME NEW k \in 1 .. Len(transcript), transcript[k] \in mine
        PROVE  transcript[k] \in H!Range(transcript')
    <3>1. PICK j \in 1 .. Len(transcript') : f[j] = k
      BY <1>5, <2>3
    <3>. QED
      BY <1>5, <2>1, <3>1
  <2>. QED
    BY <2>1, <2>2, <2>3
<1>7. HistoryTypes'
  BY <1>1, <1>4 DEF HistoryInv, HistoryTypes, Kept
<1>8. HistoryWay'
  BY <1>1, HistoryWayGoesOn DEF HistoryInv, Kept
<1>9. \A m \in mine : m \in ChatMessages /\ H!ToCaller(m) /\ <<"stored", Target[m]>> \in holds
  BY DEF mine, H!ToCaller, H!Are, H!HistoryAssumption
<1>10. HistoryFound'
  <2>1. \A m \in H!Range(transcript') : m \in Chat \ Unreadable /\ <<"live", m>> \in ever'
    BY <1>1, <1>6 DEF HistoryInv, HistoryFound
  <2>2. \A i, j \in 1 .. Len(transcript') : i < j => transcript'[i] < transcript'[j]
    BY <1>5 DEF HistoryInv, HistoryFound
  <2>3. \A m \in H!Range(transcript') : H!ToCaller(m) /\ <<"stored", Target[m]>> \in ever'
    BY <1>1, <1>6, <1>9 DEF HistoryInv, HistoryTypes
  <2>4. \A m : H!ToCaller(m)' = H!ToCaller(m)
    BY DEF H!ToCaller
  <2>. QED
    BY <1>1, <2>1, <2>2, <2>3, <2>4 DEF HistoryFound, Kept
<1>11. HistoryDue'
  <2>. SUFFICES ASSUME NEW m \in ChatMessages, NEW way \in H!Ways(m), way \subseteq always,
                       m \notin H!Range(transcript')
                PROVE  Cardinality(Newer(m)) >= most
    <3>1. \A m : H!Ways(m)' = H!Ways(m) /\ Newer(m)' = Newer(m)
      BY <1>1, HistoryWaysStay DEF Newer, H!Are
    <3>. QED
      BY <1>1, <3>1 DEF HistoryDue
  <2>1. H!ToCaller(m) /\ <<"stored", Target[m]>> \in way
    BY <1>2 DEF H!Ways, H!OwnParent
  <2>2. <<"stored", Target[m]>> \in holds
    BY <2>1 DEF HistoryInv, HistoryTypes
  <2>3. Target[m] \in ChatMessages /\ SenderOf[Target[m]] = Caller
    BY <2>1 DEF H!ToCaller, H!HistoryAssumption
  <2>4. m \in mine
    BY <2>2, <2>3 DEF mine, H!Are
  <2>5. m \notin H!Range(transcript)
    BY <1>6, <2>4
  <2>. QED
    BY <1>1, <2>5 DEF HistoryInv, HistoryDue, Kept
<1>. QED
  BY <1>7, <1>8, <1>10, <1>11 DEF HistoryInv

LEMMA HistoryKeeps ==
    ASSUME H!HistoryAssumption, HistoryInv, H!Next
    PROVE  HistoryInv'
BY AskKeeps, LoadConversationKeeps, findMessagesKeeps, messagesAuthoredByKeeps, ResolveKeeps,
   HistoryFailsKeeps, HistoryOthersKeep DEF H!Next, HistoryOthers

LEMMA HistoryServes ==
    ASSUME serving = "history"
    PROVE  /\ Entry = H!Entry /\ Answer = H!Answer /\ Shown = H!Shown
           /\ \A t : Ways(t) = IF t \in ChatMessages THEN H!Ways(t) ELSE {}
           /\ NothingSkipped <=> H!NothingSkipped
BY DEF Entry, Answer, Shown, Ways, NothingSkipped

LEMMA HistoryJustified ==
    ASSUME ReadsAssumption, serving = "history", HistoryInv
    PROVE  Justified
<1>0. H!HistoryAssumption
  BY DEF ReadsAssumption
<1>1. /\ Entry = H!Entry /\ Answer = H!Answer /\ Shown = H!Shown
      /\ \A t : Ways(t) = IF t \in ChatMessages THEN H!Ways(t) ELSE {}
  BY HistoryServes
<1>2. Answer \in {"none", "shown", "refused", "failed"} /\ (Answer # "shown" => Shown = {})
  BY <1>1 DEF H!Answer, H!Shown, H!Answered
<1>3. ASSUME Answer = "shown"
      PROVE  In(ever) /\ \A t \in Shown : t \in Things /\ May(t, ever)
  <2>1. stage = "shown" /\ Shown = H!Range(transcript)
    BY <1>1, <1>3 DEF H!Answer, H!Answered, H!Shown, H!Listed
  <2>2. PICK way \in H!Entry : way \subseteq ever
    BY <2>1 DEF HistoryInv, HistoryWay, Kept
  <2>3. ASSUME NEW m \in Shown  PROVE m \in Things /\ May(m, ever)
    <3>1. m \in Chat \ Unreadable /\ <<"live", m>> \in ever /\ m \in ChatMessages
      BY <1>0, <2>1 DEF HistoryInv, HistoryFound, H!HistoryAssumption
    <3>2. route = "replies" => H!ToCaller(m) /\ <<"stored", Target[m]>> \in ever
      BY <2>1 DEF HistoryInv, HistoryFound
    <3>3. way \cup {<<"live", m>>} \cup H!OwnParent(m) \in H!Ways(m)
      BY <2>2, <3>1, <3>2 DEF H!Ways
    <3>4. way \cup {<<"live", m>>} \cup H!OwnParent(m) \subseteq ever
      BY <2>2, <3>1, <3>2 DEF H!OwnParent
    <3>. QED
      BY <1>1, <3>1, <3>3, <3>4 DEF May, Guard!Entitled, Things
  <2>. QED
    BY <1>1, <2>2, <2>3 DEF In, Guard!Entitled
<1>4. Answer = "refused" => ~In(always)
  BY <1>1 DEF H!Answer, H!Answered, HistoryInv, HistoryWay, In, Guard!Entitled
<1>. QED
  BY <1>2, <1>3, <1>4 DEF Justified

LEMMA HistoryGoes ==
    ASSUME ReadsAssumption, serving = "history", serving' = serving, HistoryInv, H!Next
    PROVE  Goes
<1>0. H!HistoryAssumption
  BY DEF ReadsAssumption
<1>1. /\ Entry = H!Entry /\ Answer = H!Answer /\ Shown = H!Shown
      /\ Entry' = H!Entry' /\ Answer' = H!Answer' /\ Shown' = H!Shown'
      /\ \A t : Ways(t) = IF t \in ChatMessages THEN H!Ways(t) ELSE {}
      /\ \A t : Ways(t)' = IF t \in ChatMessages THEN H!Ways(t)' ELSE {}
  BY HistoryServes DEF Entry, Answer, Shown, Ways
<1>2. CASE HistoryOthers
  <2>1. /\ ~H!Answered /\ UNCHANGED <<route, kind, stage, transcript>>
        /\ ever \subseteq ever' /\ ever' \subseteq H!Facts /\ always' \subseteq always
    BY <1>0, <1>2, HistoryOthersWrite DEF HistoryInv
  <2>2. Still
    BY <1>1, <2>1, HistoryWaysStay DEF Still
  <2>3. H!Answer = "none" /\ UNCHANGED <<H!Answer, H!Shown>>
    BY <2>1 DEF H!Answer, H!Answered, H!Shown, H!Listed
  <2>. QED
    BY <1>1, <2>1, <2>2, <2>3 DEF Goes, Facts
<1>3. CASE ~HistoryOthers
  <2>1. UNCHANGED <<route, kind, ever, always>> /\ ~H!Answered
    BY <1>3 DEF H!Next, HistoryOthers, H!Ask, H!LoadConversation, H!findMessages,
                H!messagesAuthoredBy, H!resolveReplyParents, H!resolveHandles, H!Fails, H!world,
                H!request, H!Answered, H!Questions
  <2>2. Still
    BY <1>1, <2>1, HistoryWaysStay DEF Still
  <2>. QED
    BY <1>1, <2>1, <2>2 DEF Goes, H!Answer
<1>. QED
  BY <1>2, <1>3

LEMMA HistorySkipsNothing ==
    ASSUME HistoryInv
    PROVE  H!NothingSkipped
<1>. SUFFICES ASSUME stage = "shown" PROVE H!NothingSkipped
  BY DEF H!NothingSkipped
<1>1. \A i, j \in DOMAIN transcript : i < j => transcript[i] < transcript[j]
  <2>1. DOMAIN transcript = 1 .. Len(transcript)
    BY DEF HistoryInv, HistoryTypes
  <2>. QED
    BY <2>1 DEF HistoryInv, HistoryFound
<1>2. \A m \in ChatMessages :
         (\E way \in H!Ways(m) : way \subseteq always) /\ m \notin H!Listed
         => Cardinality({n \in Chat \cap H!Are("live", ever) :
                           n > m /\ (route = "replies" => n \in Replies)}) >= most
  BY DEF HistoryInv, HistoryDue, Kept, Newer, H!Listed
<1>. QED
  BY <1>1, <1>2, HistoryWords DEF H!NothingSkipped

(***************************************************************************)
(* Comments, posts and who may read them.                                  *)
(***************************************************************************)
LEMMA RowsWords ==
    /\ \A U : M!Range(U) = Range(U) /\ P!Range(U) = Range(U)
    /\ \A U : M!Cardinality(U) = Cardinality(U) /\ P!Cardinality(U) = Cardinality(U)
    /\ \A post, of : P!MayRead(post, of) = M!MayRead(post, of)
    /\ \A post, of : P!Readable(post, of) = M!Readable(post, of)
<1>1. \A U : M!Cardinality(U) = Cardinality(U) /\ P!Cardinality(U) = Cardinality(U)
  BY DEF M!Cardinality, P!Cardinality, Cardinality
<1>2. \A post, of : P!MayRead(post, of) = M!MayRead(post, of)
  BY <1>1 DEF M!MayRead, P!MayRead, M!permits, P!permits, M!loadPostAccess, P!loadPostAccess
<1>3. \A post, of : P!Readable(post, of) = M!Readable(post, of)
  BY DEF M!Readable, P!Readable
<1>. QED
  BY <1>1, <1>2, <1>3 DEF M!Range, P!Range, Range

\* The one statement permits what is readable.
LEMMA PermittedIsReadable ==
    ASSUME M!CommentRowsAssumption, NEW post \in M!PostRows, NEW of
    PROVE  M!MayRead(post, of) <=> M!Readable(post, of)
<1>1. post.tags \subseteq Communities
  BY DEF M!PostRows
<1>2. IsFiniteSet(post.tags)
  BY <1>1, FS_Subset DEF M!CommentRowsAssumption, M!IsFiniteSet, IsFiniteSet
<1>3. /\ Cardinality(post.tags) = 0 <=> post.tags = {}
      /\ Cardinality(post.tags) = 1 <=> \E c : post.tags = {c}
  BY <1>2, FS_EmptySet, FS_Singleton
<1>. DEFINE access == M!loadPostAccess(post, of)
<1>4. /\ access.count = Cardinality(post.tags) /\ access.ordinary = post.ordinary
      /\ access.active = (post.tags # {} /\ \A c \in post.tags : of[c].active)
      /\ access.private = (\E c \in post.tags : of[c].private)
      /\ access.member = (post.tags # {} /\ \A c \in post.tags : of[c].member)
  BY RowsWords DEF M!loadPostAccess
<1>. HIDE DEF access
<1>5. M!permits(access, FALSE) <=>
        \/ post.tags = {} /\ post.ordinary
        \/ \E c \in post.tags : post.tags = {c} /\ of[c].active /\ (of[c].private => of[c].member)
  <2>1. CASE post.tags = {}
    BY <2>1, <1>3, <1>4 DEF M!permits
  <2>2. CASE \E c : post.tags = {c}
    <3>1. PICK c : post.tags = {c}
      BY <2>2
    <3>2. Cardinality(post.tags) = 1
      BY <1>3, <3>1
    <3>3. (access.active <=> of[c].active) /\ (access.private <=> of[c].private)
          /\ (access.member <=> of[c].member)
      BY <1>4, <3>1
    <3>. QED
      BY <1>4, <3>1, <3>2, <3>3 DEF M!permits
  <2>3. CASE post.tags # {} /\ ~\E c : post.tags = {c}
    BY <2>3, <1>3, <1>4 DEF M!permits
  <2>. QED
    BY <2>1, <2>2, <2>3
<1>6. M!MayRead(post, of) <=> ~post.deleted /\ M!permits(access, FALSE)
  BY DEF M!MayRead, access
<1>. QED
  BY <1>5, <1>6 DEF M!Readable

RowsTypes ==
    /\ posts \in PostStates /\ communities \in RealmStates
    /\ rows \subseteq Comments /\ toAsk \subseteq Posts /\ open \subseteq Posts
    /\ \A p \in Posts : <<"readable", p>> \in holds <=> M!Readable(posts[p], communities)

\* Of the world: what holds now has held, and what held throughout does.
Nested == always \subseteq holds /\ holds \subseteq ever

Grown ==
    /\ ever \subseteq ever' /\ always' \subseteq always
    /\ always' \subseteq holds' /\ holds' \subseteq ever'

RowsSound ==
    /\ \A c \in rows : <<"comment", c>> \in ever
    /\ \A p \in open : <<"readable", p>> \in ever

\* Of the comments that are wanted.
RowsDue(wanted) ==
    \A c \in wanted \cap Comments : <<"comment", c>> \in always =>
        c \in rows /\ (<<"readable", PostOf[c]>> \in always => PostOf[c] \in toAsk \cup open)

LEMMA SameRowSteps ==
    /\ \A wanted : P!FindRows(wanted) <=> M!FindRows(wanted)
    /\ P!AskPost <=> M!AskPost
    /\ P!Rescope <=> M!Rescope
    /\ P!DeleteComment <=> M!DeleteComment
    /\ P!Kept = M!Kept
    /\ \A U, V : P!ReadablePosts(U, V) = M!ReadablePosts(U, V)
    /\ P!LiveComments = M!LiveComments
BY RowsWords DEF P!FindRows, M!FindRows, P!LiveComments, M!LiveComments, P!scope, M!scope,
   P!AskPost, M!AskPost, P!Rescope, M!Rescope, P!ReadablePosts, M!ReadablePosts, P!Becomes,
   M!Becomes, P!looking, M!looking, P!DeleteComment, M!DeleteComment, P!Kept, M!Kept

LEMMA RowsFound ==
    ASSUME M!CommentRowsAssumption, RowsTypes, Nested, NEW wanted, M!FindRows(wanted),
           UNCHANGED <<holds, ever, always>>
    PROVE  RowsTypes' /\ RowsSound' /\ RowsDue(wanted)'
<1>1. /\ rows' = wanted \cap {c \in Comments : <<"comment", c>> \in holds}
      /\ toAsk' = {PostOf[c] : c \in rows'} /\ open' = {}
      /\ UNCHANGED <<posts, communities>>
  BY DEF M!FindRows, M!LiveComments, M!scope
<1>2. \A c \in Comments : PostOf[c] \in Posts
  BY DEF M!CommentRowsAssumption
<1>. QED
  BY <1>1, <1>2 DEF RowsTypes, RowsSound, RowsDue, Nested

LEMMA PostAsked ==
    ASSUME M!CommentRowsAssumption, RowsTypes, Nested, RowsSound, M!AskPost,
           UNCHANGED <<holds, ever, always>>
    PROVE  /\ RowsTypes' /\ RowsSound' /\ UNCHANGED <<rows, posts, communities>>
           /\ \A wanted : RowsDue(wanted) => RowsDue(wanted)'
<1>1. PICK p \in toAsk : /\ toAsk' = toAsk \ {p}
                         /\ open' = IF M!MayRead(posts[p], communities) THEN open \cup {p} ELSE open
                         /\ UNCHANGED <<rows, posts, communities>>
  BY DEF M!AskPost, M!scope
<1>2. p \in Posts /\ posts[p] \in M!PostRows
  BY DEF RowsTypes, M!CommentRowsAssumption
<1>3. M!MayRead(posts[p], communities) <=> <<"readable", p>> \in holds
  BY <1>2, PermittedIsReadable DEF RowsTypes
<1>4. RowsTypes' /\ RowsSound'
  BY <1>1, <1>2, <1>3 DEF RowsTypes, RowsSound, Nested
<1>5. ASSUME NEW wanted, RowsDue(wanted)  PROVE RowsDue(wanted)'
  <2>. SUFFICES ASSUME NEW c \in wanted \cap Comments, <<"comment", c>> \in always
                PROVE  /\ c \in rows
                       /\ <<"readable", PostOf[c]>> \in always => PostOf[c] \in toAsk' \cup open'
    BY <1>1 DEF RowsDue
  <2>1. c \in rows /\ (<<"readable", PostOf[c]>> \in always => PostOf[c] \in toAsk \cup open)
    BY <1>5 DEF RowsDue
  <2>2. CASE PostOf[c] = p
    BY <1>1, <1>3, <2>1, <2>2 DEF Nested
  <2>3. CASE PostOf[c] # p
    BY <1>1, <2>1, <2>3
  <2>. QED
    BY <2>2, <2>3
<1>. QED
  BY <1>1, <1>4, <1>5

\* Others edit a post or a community, or delete a comment.
LEMMA RowsRescoped ==
    ASSUME M!CommentRowsAssumption, RowsTypes, Nested, M!Rescope \/ M!DeleteComment
    PROVE  /\ RowsTypes' /\ Grown /\ UNCHANGED <<rows, toAsk, open>>
           /\ \E facts \in SUBSET (holds \cup ({"readable"} \X Posts)) :
                 ever' = ever \cup facts /\ holds' = facts
<1>1. CASE M!Rescope
  <2>1. PICK facts : /\ facts = (holds \ ({"readable"} \X Posts))
                                   \cup ({"readable"} \X {p \in Posts : M!Readable(posts'[p], communities')})
                     /\ holds' = facts /\ ever' = ever \cup facts /\ always' = always \cap facts
    BY <1>1 DEF M!Rescope, M!Becomes, M!ReadablePosts
  <2>2. posts' \in PostStates /\ communities' \in RealmStates /\ UNCHANGED <<rows, toAsk, open>>
    BY <1>1 DEF M!Rescope, M!looking, RowsTypes
  <2>3. \A p \in Posts : <<"readable", p>> \in holds' <=> M!Readable(posts'[p], communities')
    BY <2>1
  <2>4. facts \in SUBSET (holds \cup ({"readable"} \X Posts))
    BY <2>1
  <2>. QED
    BY <2>1, <2>2, <2>3, <2>4 DEF RowsTypes, Grown, Nested
<1>2. CASE M!DeleteComment
  <2>1. PICK c : /\ holds' = holds \ {<<"comment", c>>} /\ ever' = ever \cup holds'
                 /\ always' = always \cap holds'
    BY <1>2 DEF M!DeleteComment, M!Becomes
  <2>2. UNCHANGED <<posts, communities, rows, toAsk, open>>
    BY <1>2 DEF M!DeleteComment, M!scope, M!looking
  <2>3. \A p \in Posts : <<"readable", p>> \in holds' <=> <<"readable", p>> \in holds
    BY <2>1
  <2>. QED
    BY <2>1, <2>2, <2>3 DEF RowsTypes, Grown, Nested
<1>. QED
  BY <1>1, <1>2

LEMMA RowsGrow ==
    ASSUME Grown, UNCHANGED <<rows, toAsk, open>>
    PROVE  /\ RowsSound => RowsSound'
           /\ \A wanted : RowsDue(wanted) => RowsDue(wanted)'
BY DEF Grown, RowsSound, RowsDue

(***************************************************************************)
(* Moderation.  What is decided of a conversation is so when its ids are   *)
(* sifted, and each id that had a row is let through, turned away by that, *)
(* or still to come.                                                       *)
(***************************************************************************)
LEMMA SameAccess ==
    /\ M!Questions = H!Questions /\ M!Kinds = H!Kinds /\ M!Grounds = H!Grounds
    /\ \A q, k, has : M!Asked(q, k, has) = H!Asked(q, k, has)
    /\ \A k : M!Enough(k) = H!Enough(k)
BY DEF M!Questions, H!Questions, M!Kinds, H!Kinds, M!Grounds, H!Grounds, M!Asked, H!Asked,
   M!WithoutRow, H!WithoutRow, M!Enough, H!Enough

Around(c, facts) == {g \in H!Grounds : <<g, c>> \in facts}
InHand == Holding[Head(left)]

ModerationTypes ==
    /\ <<route, ids>> \in Requests
    /\ Nested /\ ever \subseteq M!Facts /\ RowsTypes
    /\ stage \in H!Questions \cup {"arrive", "conversations", "sift", "access", "rows", "posts",
                                   "find", "shown", "refused", "failed", "bad"}
    /\ decided \in [Conversations -> {"yes", "no", "unasked"}]
    /\ route = "messages" => left \in Seq(MediaMessages) /\ M!Range(left) \subseteq M!Range(ids)

\* Each route has its stages.
ModerationStages ==
    /\ stage \in H!Questions \cup {"conversations", "sift"} => route = "messages"
    /\ stage \in {"access", "refused"} => route = "post"
    /\ stage \in {"rows", "posts"} => route = "comments"
    /\ stage \in {"arrive", "conversations"} => left = ids /\ allowed = {}

\* What is known of a conversation is so.
ModerationDecided ==
    /\ stage \in H!Questions =>
          /\ left # <<>> /\ Head(left) \in known /\ decided[InHand] = "unasked"
          /\ Asking(stage, KindOf[InHand], Around(InHand, ever), Around(InHand, always))
    /\ \A c \in Conversations :
          /\ decided[c] = "yes" =>
                \E grounds \in H!Enough(KindOf[c]) : grounds \subseteq Around(c, ever)
          /\ decided[c] = "no" =>
                \A grounds \in H!Enough(KindOf[c]) : ~(grounds \subseteq Around(c, always))

\* The messages that were there are sifted by it, all of them.
ModerationSifted ==
    /\ \A m \in known : m \in MediaMessages /\ m \in M!Range(ids) /\ <<"message", m>> \in ever
    /\ route = "messages" =>
          \A m \in allowed : m \in known /\ decided[Holding[m]] = "yes"
    /\ route = "messages" /\ stage \in H!Questions \cup {"sift", "find", "shown"} =>
          /\ \A m \in M!Range(ids) : <<"message", m>> \in always => m \in known
          /\ \A m \in known : \/ m \in M!Range(left)
                              \/ decided[Holding[m]] = "no"
                              \/ m \in allowed
    /\ route = "messages" /\ stage \in {"find", "shown"} => left = <<>>

\* And the post and the comments asked for.
ModerationOpen ==
    /\ route = "post" /\ stage \in {"find", "shown"} =>
          allowed = M!Range(ids) /\ \A p \in M!Range(ids) : <<"readable", p>> \in ever
    /\ stage = "refused" => \A p \in M!Range(ids) : <<"readable", p>> \notin always
    /\ RowsSound /\ rows \subseteq M!Range(ids)
    /\ route = "comments" /\ stage \in {"posts", "find", "shown"} => RowsDue(M!Range(ids))
    /\ route = "comments" /\ stage \in {"find", "shown"} => toAsk = {} /\ allowed = M!Kept

ModerationTold ==
    /\ stage # "shown" => records = <<>>
    /\ \A d \in M!Range(records) : d \in Documents /\ <<"document", d>> \in ever /\ M!Wanted(d)
    /\ stage = "shown" =>
          \A d \in Documents : <<"document", d>> \in always /\ M!Wanted(d) => d \in M!Range(records)

ModerationInv ==
    /\ ModerationTypes /\ ModerationStages /\ ModerationDecided
    /\ ModerationSifted /\ ModerationOpen /\ ModerationTold

LEMMA ModerationStarts ==
    ASSUME M!ModerationAssumption, M!Init
    PROVE  ModerationInv
<1>1. PICK granted \in MediaGrants, late \in SUBSET LateDocuments :
         holds = granted \cup ({"message"} \X MediaMessages) \cup ({"comment"} \X Comments)
                    \cup M!ReadablePosts(posts, communities) \cup ({"document"} \X (Documents \ late))
  BY DEF M!Init
<1>2. /\ ever = holds /\ always = holds /\ stage = "arrive" /\ known = {} /\ left = ids
      /\ allowed = {} /\ records = <<>>
      /\ posts \in PostStates /\ communities \in RealmStates
      /\ rows = {} /\ toAsk = {} /\ open = {}
  <2>1. stage = "arrive" /\ known = {} /\ left = ids /\ allowed = {} /\ records = <<>>
    BY DEF M!Init
  <2>2. M!RowsInit /\ M!WorldInit
    BY DEF M!Init
  <2>. QED
    BY <2>1, <2>2 DEF M!WorldInit, M!RowsInit
<1>2a. decided = [c \in Conversations |-> "unasked"]
  BY DEF M!Init
<1>3. granted \subseteq M!Grounds \X Conversations
  BY DEF M!ModerationAssumption
<1>4. RowsTypes
  <2>1. \A p \in Posts : <<"readable", p>> \in granted => FALSE
    BY <1>3 DEF M!Grounds
  <2>. QED
    BY <1>1, <1>2, <2>1 DEF RowsTypes, M!ReadablePosts
<1>5. holds \subseteq M!Facts
  BY <1>1, <1>3 DEF M!Facts, M!Access, M!ReadablePosts
<1>6. <<route, ids>> \in Requests /\ (route = "messages" => ids \in Seq(MediaMessages))
  <2>1. PICK r \in Requests : route = r[1] /\ ids = r[2]
    BY DEF M!Init
  <2>2. \/ r \in {"messages"} \X Seq(MediaMessages)
        \/ r \in {"comments"} \X Seq(Comments)
        \/ \E p \in Posts : r = <<"post", <<p>> >>
    BY DEF M!ModerationAssumption
  <2>3. r = <<r[1], r[2]>> /\ (r[1] = "messages" => r[2] \in Seq(MediaMessages))
    BY <2>2
  <2>. QED
    BY <2>1, <2>3
<1>7. ModerationTypes
  <2>1. decided \in [Conversations -> {"yes", "no", "unasked"}]
    BY <1>2a
  <2>2. Nested /\ ever \subseteq M!Facts
    BY <1>2, <1>5 DEF Nested
  <2>. QED
    BY <1>2, <1>4, <1>6, <2>1, <2>2 DEF ModerationTypes
<1>8. ModerationStages /\ ModerationDecided /\ ModerationSifted
  BY <1>2, <1>2a DEF ModerationStages, ModerationDecided, ModerationSifted, H!Questions
<1>9. ModerationOpen /\ ModerationTold
  <2>1. M!Range(records) = {}
    <3>1. records = <<>>
      BY <1>2
    <3>. QED
      BY <3>1 DEF M!Range
  <2>. QED
    BY <1>2, <2>1 DEF ModerationOpen, ModerationTold, RowsSound
<1>. QED
  BY <1>7, <1>8, <1>9 DEF ModerationInv

\* What a step of others writes.
LEMMA ModerationOthersWrite ==
    ASSUME M!ModerationAssumption, ModerationTypes, M!Others
    PROVE  /\ ~M!Answered /\ Grown /\ ever' \subseteq M!Facts /\ RowsTypes'
           /\ UNCHANGED <<route, ids, stage, rows, toAsk, open, known, left, decided, allowed,
                          records>>
<1>. USE DEF ModerationTypes
<1>1. M!CommentRowsAssumption
  BY DEF M!ModerationAssumption
<1>2. CASE M!Regrant \/ M!PurgeMessage \/ M!Publish
  <2>1. \E facts : /\ holds' = facts /\ ever' = ever \cup facts /\ always' = always \cap facts
                   /\ facts \subseteq M!Facts
                   /\ \A p \in Posts : <<"readable", p>> \in facts <=> <<"readable", p>> \in holds
    <3>0. holds \subseteq M!Facts
      BY DEF Nested
    <3>1. CASE M!Regrant
      <4>1. PICK granted \in MediaGrants :
               /\ holds' = (holds \ M!Access) \cup granted
               /\ ever' = ever \cup holds' /\ always' = always \cap holds'
        BY <3>1 DEF M!Regrant, M!Becomes
      <4>2. granted \subseteq M!Access
        BY DEF M!ModerationAssumption, M!Access
      <4>3. \A p \in Posts : <<"readable", p>> \notin M!Access
        BY DEF M!Access, M!Grounds
      <4>4. (holds \ M!Access) \cup granted \subseteq M!Facts
        BY <4>2, <3>0 DEF M!Facts
      <4>. QED
        BY <4>1, <4>2, <4>3, <4>4
    <3>2. CASE M!PurgeMessage
      <4>1. PICK m \in MediaMessages :
               /\ holds' = holds \ {<<"message", m>>}
               /\ ever' = ever \cup holds' /\ always' = always \cap holds'
        BY <3>2 DEF M!PurgeMessage, M!Becomes
      <4>. QED
        BY <4>1, <3>0
    <3>3. CASE M!Publish
      <4>1. PICK d \in Documents :
               /\ holds' = holds \cup {<<"document", d>>}
               /\ ever' = ever \cup holds' /\ always' = always \cap holds'
        BY <3>3 DEF M!Publish, M!Becomes
      <4>2. <<"document", d>> \in {"document"} \X Documents
        OBVIOUS
      <4>3. <<"document", d>> \in M!Facts
        BY <4>2 DEF M!Facts
      <4>4. \A p \in Posts : <<"readable", p>> # <<"document", d>>
        OBVIOUS
      <4>. DEFINE facts == holds \cup {<<"document", d>>}
      <4>5. \A p \in Posts : <<"readable", p>> \in facts <=> <<"readable", p>> \in holds
        BY <4>4
      <4>6. facts \subseteq M!Facts
        BY <4>3, <3>0
      <4>. QED
        BY <4>1, <4>5, <4>6
    <3>. QED
      BY <1>2, <3>1, <3>2, <3>3
  <2>2. /\ ~M!Answered
        /\ UNCHANGED <<route, ids, stage, posts, communities, rows, toAsk, open, known, left,
                       decided, allowed, records>>
    BY <1>2 DEF M!Regrant, M!PurgeMessage, M!Publish, M!request, M!scope, M!looking, M!sifting
  <2>3. RowsTypes'
    BY <2>1, <2>2 DEF RowsTypes
  <2>. QED
    BY <2>1, <2>2, <2>3 DEF Grown, Nested
<1>3. CASE M!Rescope \/ M!DeleteComment
  <2>1. /\ RowsTypes' /\ Grown /\ UNCHANGED <<rows, toAsk, open>>
        /\ \E facts \in SUBSET (holds \cup ({"readable"} \X Posts)) :
                 ever' = ever \cup facts /\ holds' = facts
    BY <1>1, <1>3, RowsRescoped
  <2>2. ever' \subseteq M!Facts
    BY <2>1 DEF M!Facts, Nested
  <2>3. /\ ~M!Answered
        /\ UNCHANGED <<route, ids, stage, known, left, decided, allowed, records>>
    <3>1. CASE M!Rescope /\ UNCHANGED <<M!request, stage, M!sifting, records>> /\ ~M!Answered
      BY <3>1 DEF M!request, M!sifting
    <3>2. CASE M!DeleteComment /\ UNCHANGED <<M!request, stage, M!sifting, records>> /\ ~M!Answered
      BY <3>2 DEF M!request, M!sifting
    <3>3. CASE M!Regrant \/ M!PurgeMessage \/ M!Publish
      BY <3>3 DEF M!Regrant, M!PurgeMessage, M!Publish, M!request, M!sifting
    <3>. QED
      BY <3>1, <3>2, <3>3 DEF M!Others
  <2>. QED
    BY <2>1, <2>2, <2>3
<1>. QED
  BY <1>2, <1>3 DEF M!Others

LEMMA RequestForms ==
    ASSUME M!ModerationAssumption, <<route, ids>> \in Requests
    PROVE  /\ route \in {"messages", "post", "comments"}
           /\ route = "messages" => ids \in Seq(MediaMessages)
           /\ route = "comments" => ids \in Seq(Comments)
           /\ route = "post" => \E p \in Posts : ids = <<p>>
<1>1. \/ <<route, ids>> \in {"messages"} \X Seq(MediaMessages)
      \/ <<route, ids>> \in {"comments"} \X Seq(Comments)
      \/ \E p \in Posts : <<route, ids>> = <<"post", <<p>> >>
  BY DEF M!ModerationAssumption
<1>. QED
  BY <1>1

\* Has, of what may be so at all.
LEMMA ModerationHas ==
    ASSUME NEW facts, facts \subseteq M!Facts, NEW what, NEW x
    PROVE  x \in M!Has(what, facts) <=> <<what, x>> \in facts
<1>1. \A f \in facts : f = <<f[1], f[2]>>
  BY DEF M!Facts, M!Access
<1>2. x \in M!Has(what, facts) <=> \E f \in facts : f[1] = what /\ f[2] = x
  BY DEF M!Has
<1>. QED
  BY <1>1, <1>2

LEMMA ModerationOthersKeep ==
    ASSUME M!ModerationAssumption, ModerationInv, M!Others
    PROVE  ModerationInv'
<1>. USE DEF ModerationInv
<1>1. /\ ~M!Answered /\ Grown /\ ever' \subseteq M!Facts /\ RowsTypes'
      /\ UNCHANGED <<route, ids, stage, rows, toAsk, open, known, left, decided, allowed, records>>
  BY ModerationOthersWrite
<1>2. ModerationTypes'
  BY <1>1 DEF ModerationTypes, Grown, Nested
<1>3. ModerationStages'
  BY <1>1 DEF ModerationStages
<1>4. ModerationDecided'
  <2>1. \A c : /\ Around(c, ever) \subseteq Around(c, ever')
               /\ Around(c, always') \subseteq Around(c, always)
    BY <1>1 DEF Around, Grown
  <2>2. stage \in H!Questions =>
           Asking(stage, KindOf[InHand], Around(InHand, ever'), Around(InHand, always'))
    BY <2>1 DEF ModerationDecided, Asking
  <2>3. InHand' = InHand
    BY <1>1 DEF InHand
  <2>. QED
    BY <1>1, <2>1, <2>2, <2>3 DEF ModerationDecided
<1>5. ModerationSifted'
  BY <1>1 DEF ModerationSifted, Grown
<1>6. ModerationOpen'
  <2>1. /\ RowsSound' /\ M!Kept' = M!Kept
        /\ RowsDue(M!Range(ids)) => RowsDue(M!Range(ids))'
    BY <1>1, RowsGrow DEF ModerationOpen, M!Kept, RowsDue, Grown
  <2>. QED
    BY <1>1, <2>1 DEF ModerationOpen, Grown, RowsDue
<1>7. ModerationTold'
  BY <1>1 DEF ModerationTold, M!Wanted, Grown
<1>. QED
  BY <1>2, <1>3, <1>4, <1>5, <1>6, <1>7
-----------------------------------------------------------------------------
\* What a step of the request's own leaves as it is.
Quiet == UNCHANGED <<route, ids, holds, ever, always>>

LEMMA ToldNothing ==
    ASSUME ModerationTold, Quiet, UNCHANGED records, stage # "shown", stage' # "shown"
    PROVE  ModerationTold'
<1>1. records' = <<>>
  BY DEF ModerationTold
<1>2. M!Range(records') = {}
  BY <1>1 DEF M!Range
<1>. QED
  BY <1>1, <1>2 DEF ModerationTold

LEMMA OpenAsItIs ==
    ASSUME ModerationOpen, Quiet, UNCHANGED <<rows, toAsk, open>>, route = "messages",
           stage' # "refused"
    PROVE  ModerationOpen'
BY DEF ModerationOpen, Quiet, RowsSound

LEMMA SiftedAsItIs ==
    ASSUME ModerationDecided, ModerationSifted, Quiet, UNCHANGED <<known, left, decided>>,
           route # "messages", stage' \notin H!Questions
    PROVE  ModerationDecided' /\ ModerationSifted'
BY DEF ModerationDecided, ModerationSifted, Quiet, Around

LEMMA ArriveKeeps ==
    ASSUME M!ModerationAssumption, ModerationInv, M!Arrive
    PROVE  ModerationInv'
<1>. USE DEF ModerationInv
<1>1. /\ Quiet /\ stage = "arrive"
      /\ UNCHANGED <<posts, communities, rows, toAsk, open, known, left, decided, allowed, records>>
  BY DEF M!Arrive, M!request, M!world, M!scope, M!looking, M!sifting, Quiet
<1>2. /\ stage' \in {"bad", "conversations", "access", "rows"}
      /\ stage' = "conversations" => route = "messages"
      /\ stage' = "access" => route = "post"
      /\ stage' = "rows" => route = "comments"
  BY RequestForms DEF ModerationTypes, M!Arrive
<1>3. ModerationTypes'
  BY <1>1, <1>2 DEF ModerationTypes, Quiet, Nested, RowsTypes
<1>4. ModerationStages'
  BY <1>1, <1>2 DEF ModerationStages, H!Questions, Quiet
<1>5. ModerationDecided' /\ ModerationSifted'
  BY <1>1, <1>2 DEF ModerationDecided, ModerationSifted, Quiet, Around, H!Questions
<1>6. ModerationOpen'
  BY <1>1, <1>2 DEF ModerationOpen, Quiet, RowsSound
<1>7. ModerationTold'
  BY <1>1, <1>2, ToldNothing
<1>. QED
  BY <1>3, <1>4, <1>5, <1>6, <1>7

LEMMA conversationsOfKeeps ==
    ASSUME M!ModerationAssumption, ModerationInv, M!conversationsOf
    PROVE  ModerationInv'
<1>. USE DEF ModerationInv
<1>1. /\ Quiet /\ stage = "conversations" /\ stage' = "sift"
      /\ known' = M!Range(ids) \cap M!Has("message", holds)
      /\ UNCHANGED <<posts, communities, rows, toAsk, open, left, decided, allowed, records>>
  BY DEF M!conversationsOf, M!request, M!world, M!scope, M!looking, Quiet
<1>2. route = "messages" /\ left = ids /\ allowed = {}
  BY <1>1 DEF ModerationStages
<1>3. \A m : m \in known' <=> m \in M!Range(ids) /\ <<"message", m>> \in holds
  <2>1. holds \subseteq M!Facts
    BY DEF ModerationTypes, Nested
  <2>. QED
    BY <1>1, <2>1, ModerationHas
<1>4. M!Range(ids) \subseteq MediaMessages
  BY <1>2, RequestForms DEF ModerationTypes, M!Range
<1>5. ModerationTypes'
  BY <1>1 DEF ModerationTypes, Quiet, Nested, RowsTypes
<1>6. ModerationStages'
  BY <1>1, <1>2 DEF ModerationStages, Quiet
<1>7. ModerationDecided'
  BY <1>1 DEF ModerationDecided, Quiet, Around, H!Questions
<1>8. ModerationSifted'
  <2>1. Nested
    BY DEF ModerationTypes
  <2>. QED
    BY <1>1, <1>2, <1>3, <1>4, <2>1 DEF ModerationSifted, Quiet, Nested
<1>9. ModerationOpen'
  BY <1>1, <1>2, OpenAsItIs
<1>10. ModerationTold'
  BY <1>1, ToldNothing
<1>. QED
  BY <1>5, <1>6, <1>7, <1>8, <1>9, <1>10

LEMMA HeadAndTail ==
    ASSUME NEW Set, NEW s \in Seq(Set), s # <<>>
    PROVE  /\ Head(s) \in M!Range(s) /\ Tail(s) \in Seq(Set)
           /\ \A x \in M!Range(s) : x = Head(s) \/ x \in M!Range(Tail(s))
           /\ M!Range(Tail(s)) \subseteq M!Range(s)
<1>1. /\ Len(s) \in Nat /\ Len(s) >= 1 /\ DOMAIN s = 1 .. Len(s)
      /\ Len(Tail(s)) = Len(s) - 1 /\ Tail(s) \in Seq(Set)
      /\ Head(s) = s[1] /\ \A i \in 1 .. Len(s) - 1 : Tail(s)[i] = s[i + 1]
  OBVIOUS
<1>2. DOMAIN Tail(s) = 1 .. Len(s) - 1
  BY <1>1
<1>3. /\ M!Range(s) = {s[i] : i \in 1 .. Len(s)}
      /\ M!Range(Tail(s)) = {Tail(s)[i] : i \in 1 .. Len(s) - 1}
  BY <1>1, <1>2 DEF M!Range
<1>. HIDE DEF M!Range
<1>4. 1 \in 1 .. Len(s)
  BY <1>1
<1>5. Head(s) \in M!Range(s)
  BY <1>1, <1>3, <1>4
<1>6. ASSUME NEW x \in M!Range(s), x # Head(s)  PROVE x \in M!Range(Tail(s))
  <2>1. PICK i \in 1 .. Len(s) : x = s[i]
    BY <1>3
  <2>2. i - 1 \in 1 .. Len(s) - 1 /\ (i - 1) + 1 = i
    BY <1>1, <1>6, <2>1
  <2>. QED
    BY <1>1, <1>3, <2>1, <2>2
<1>7. ASSUME NEW x \in M!Range(Tail(s))  PROVE x \in M!Range(s)
  <2>1. PICK i \in 1 .. Len(s) - 1 : x = Tail(s)[i]
    BY <1>3
  <2>2. i + 1 \in 1 .. Len(s) /\ x = s[i + 1]
    BY <1>1, <2>1
  <2>. QED
    BY <1>3, <2>2
<1>. QED
  BY <1>1, <1>5, <1>6, <1>7

LEMMA SiftKeeps ==
    ASSUME M!ModerationAssumption, ModerationInv, M!Sift
    PROVE  ModerationInv'
<1>. USE DEF ModerationInv
<1>. DEFINE m == Head(left)
<1>1. /\ Quiet /\ stage = "sift" /\ left # <<>>
      /\ UNCHANGED <<posts, communities, rows, toAsk, open, known, records>>
      /\ \/ m \notin known /\ left' = Tail(left) /\ UNCHANGED <<stage, decided, allowed>>
         \/ /\ m \in known /\ decided[Holding[m]] # "unasked" /\ left' = Tail(left)
            /\ allowed' = IF decided[Holding[m]] = "yes" THEN allowed \cup {m} ELSE allowed
            /\ UNCHANGED <<stage, decided>>
         \/ /\ m \in known /\ decided[Holding[m]] = "unasked" /\ stage' = "contacts"
            /\ UNCHANGED <<left, decided, allowed>>
  BY DEF M!Sift, M!request, M!world, M!scope, M!looking, Quiet
<1>2. route = "messages" /\ left \in Seq(MediaMessages) /\ M!Range(left) \subseteq M!Range(ids)
  BY <1>1 DEF ModerationStages, ModerationTypes
<1>3. /\ m \in M!Range(left) /\ Tail(left) \in Seq(MediaMessages)
      /\ \A x \in M!Range(left) : x = m \/ x \in M!Range(Tail(left))
      /\ M!Range(Tail(left)) \subseteq M!Range(left)
  BY <1>1, <1>2, HeadAndTail
<1>4. m \in known => Holding[m] \in Conversations /\ decided[Holding[m]] \in {"yes", "no", "unasked"}
  BY DEF ModerationSifted, ModerationTypes, M!ModerationAssumption
<1>. HIDE DEF m
<1>5. stage' \in {"sift", "contacts"}
  BY <1>1
<1>6. ModerationTypes'
  <2>1. left' \in Seq(MediaMessages) /\ M!Range(left') \subseteq M!Range(ids)
    BY <1>1, <1>2, <1>3
  <2>. QED
    BY <1>1, <1>5, <2>1 DEF ModerationTypes, Quiet, Nested, RowsTypes, H!Questions
<1>7. ModerationStages'
  BY <1>1, <1>2, <1>5 DEF ModerationStages, Quiet, H!Questions
<1>8. ModerationDecided'
  <2>1. UNCHANGED decided
    BY <1>1
  <2>2. stage' \in H!Questions =>
           left' # <<>> /\ Head(left') \in known /\ decided[Holding[Head(left')]] = "unasked"
           /\ stage' = "contacts"
    BY <1>1 DEF m, H!Questions
  <2>. QED
    BY <1>1, <2>1, <2>2 DEF ModerationDecided, Asking, InHand, Quiet, Around
<1>9. ModerationSifted'
  <2>1. \A k \in allowed' : k \in known /\ decided[Holding[k]] = "yes"
    BY <1>1, <1>2 DEF ModerationSifted
  <2>2. \A k \in known : \/ k \in M!Range(left') \/ decided[Holding[k]] = "no" \/ k \in allowed'
    BY <1>1, <1>2, <1>3, <1>4 DEF ModerationSifted
  <2>. QED
    BY <1>1, <1>2, <1>5, <2>1, <2>2 DEF ModerationSifted, Quiet
<1>10. ModerationOpen'
  BY <1>1, <1>2, <1>5, OpenAsItIs
<1>11. ModerationTold'
  BY <1>1, <1>5, ToldNothing
<1>. QED
  BY <1>6, <1>7, <1>8, <1>9, <1>10, <1>11

LEMMA ModerationAskKeeps ==
    ASSUME M!ModerationAssumption, ModerationInv, M!Ask
    PROVE  ModerationInv'
<1>. USE DEF ModerationInv
<1>. DEFINE c == InHand
            k == KindOf[c]
            some == Around(c, ever)
            all  == Around(c, always)
<1>0. PICK has : has = M!Held(c)
  OBVIOUS
<1>0a. PICK a : a = H!Asked(stage, k, has)
  OBVIOUS
<1>1. /\ Quiet /\ stage \in H!Questions
      /\ UNCHANGED <<posts, communities, rows, toAsk, open, known, left, allowed, records>>
      /\ IF a \in {"yes", "no"}
         THEN decided' = [decided EXCEPT ![c] = a] /\ stage' = "sift"
         ELSE stage' = a /\ UNCHANGED decided
  BY <1>0, <1>0a, SameAccess DEF M!Ask, M!request, M!world, M!scope, M!looking, Quiet, InHand
<1>2. /\ route = "messages" /\ left # <<>> /\ Head(left) \in known /\ decided[c] = "unasked"
      /\ Asking(stage, k, some, all)
  BY <1>1 DEF ModerationStages, ModerationDecided
<1>3. /\ c \in Conversations /\ k \in H!Kinds
      /\ decided \in [Conversations -> {"yes", "no", "unasked"}]
  <2>1. Head(left) \in MediaMessages
    BY <1>2 DEF ModerationSifted
  <2>2. Holding \in [MediaMessages -> Conversations] /\ KindOf \in [Conversations -> H!Kinds]
    BY SameAccess DEF M!ModerationAssumption
  <2>. QED
    BY <2>1, <2>2 DEF InHand, ModerationTypes
<1>4. has \subseteq some /\ all \subseteq has
  BY <1>0, SameAccess DEF M!Held, Around, ModerationTypes, Nested
<1>. HIDE DEF c, k, some, all
<1>5. Followed(a, k, some, all)
  BY <1>0a, <1>1, <1>2, <1>3, <1>4, AskedFairly
<1>6. /\ a \in H!Questions \cup {"yes", "no"}
      /\ a \in H!Questions => Asking(a, k, some, all)
      /\ a = "yes" => \E grounds \in H!Enough(k) : grounds \subseteq some
      /\ a = "no" => \A grounds \in H!Enough(k) : ~(grounds \subseteq all)
  BY <1>5 DEF Followed
<1>7. /\ stage' \in H!Questions \cup {"sift"}
      /\ stage' \in H!Questions => stage' = a /\ UNCHANGED decided
      /\ stage' = "sift" => a \in {"yes", "no"} /\ decided' = [decided EXCEPT ![c] = a]
  BY <1>1, <1>6 DEF H!Questions
<1>8. /\ \A d \in Conversations : d # c => decided'[d] = decided[d]
      /\ decided' \in [Conversations -> {"yes", "no", "unasked"}]
      /\ stage' = "sift" => decided'[c] = a
  BY <1>3, <1>7
<1>9. ModerationTypes'
  BY <1>1, <1>7, <1>8 DEF ModerationTypes, Quiet, Nested, RowsTypes
<1>10. ModerationStages'
  BY <1>1, <1>2, <1>7 DEF ModerationStages, Quiet, H!Questions
<1>11. ModerationDecided'
  <2>1. c = InHand' /\ \A d : /\ Around(d, ever)' = Around(d, ever)
                              /\ Around(d, always)' = Around(d, always)
    BY <1>1 DEF c, InHand, Around, Quiet
  <2>2. stage' \in H!Questions =>
           /\ left' # <<>> /\ Head(left') \in known' /\ decided'[c] = "unasked"
           /\ Asking(stage', k, Around(c, ever), Around(c, always))
    BY <1>1, <1>2, <1>6, <1>7 DEF some, all
  <2>3. ASSUME NEW d \in Conversations
        PROVE  /\ decided'[d] = "yes" =>
                     \E grounds \in H!Enough(KindOf[d]) : grounds \subseteq Around(d, ever)
               /\ decided'[d] = "no" =>
                     \A grounds \in H!Enough(KindOf[d]) : ~(grounds \subseteq Around(d, always))
    <3>1. CASE d = c /\ stage' = "sift"
      BY <3>1, <1>6, <1>8 DEF k, some, all
    <3>2. CASE ~(d = c /\ stage' = "sift")
      <4>1. decided'[d] = decided[d]
        BY <3>2, <1>7, <1>8
      <4>. QED
        BY <4>1 DEF ModerationDecided
    <3>. QED
      BY <3>1, <3>2
  <2>4. KindOf[c] = k
    BY DEF k
  <2>. QED
    BY <2>1, <2>2, <2>3, <2>4 DEF ModerationDecided
<1>12. ModerationSifted'
  <2>1. \A d \in Conversations : decided[d] \in {"yes", "no"} => decided'[d] = decided[d]
    BY <1>2, <1>8
  <2>2. \A m \in known : Holding[m] \in Conversations
    BY DEF ModerationSifted, M!ModerationAssumption
  <2>3. \A m \in allowed : m \in known /\ decided'[Holding[m]] = "yes"
    BY <1>2, <2>1, <2>2 DEF ModerationSifted
  <2>4. \A m \in known : m \in M!Range(left) \/ decided'[Holding[m]] = "no" \/ m \in allowed
    BY <1>1, <1>2, <2>1, <2>2 DEF ModerationSifted
  <2>. QED
    BY <1>1, <1>2, <1>7, <2>3, <2>4 DEF ModerationSifted, Quiet, H!Questions
<1>13. ModerationOpen'
  <2>1. stage' # "refused"
    BY <1>7 DEF H!Questions
  <2>. QED
    BY <1>1, <1>2, <2>1, OpenAsItIs
<1>14. ModerationTold'
  <2>1. stage # "shown" /\ stage' # "shown"
    BY <1>1, <1>7 DEF H!Questions
  <2>. QED
    BY <1>1, <2>1, ToldNothing
<1>. QED
  BY <1>9, <1>10, <1>11, <1>12, <1>13, <1>14

LEMMA SiftedKeeps ==
    ASSUME M!ModerationAssumption, ModerationInv, M!Sifted
    PROVE  ModerationInv'
<1>. USE DEF ModerationInv
<1>1. /\ Quiet /\ stage = "sift" /\ left = <<>>
      /\ stage' = IF allowed = {} THEN "shown" ELSE "find"
      /\ UNCHANGED <<posts, communities, rows, toAsk, open, known, left, decided, allowed, records>>
  BY DEF M!Sifted, M!request, M!world, M!scope, M!looking, M!sifting, Quiet
<1>2. route = "messages" /\ stage' \in {"shown", "find"} /\ stage' \notin H!Questions
  BY <1>1 DEF ModerationStages, H!Questions
<1>3. ModerationTypes'
  BY <1>1, <1>2 DEF ModerationTypes, Quiet, Nested, RowsTypes
<1>4. ModerationStages' /\ ModerationDecided'
  BY <1>1, <1>2 DEF ModerationStages, ModerationDecided, Quiet, Around
<1>5. ModerationSifted'
  BY <1>1, <1>2 DEF ModerationSifted, Quiet
<1>6. ModerationOpen'
  BY <1>1, <1>2, OpenAsItIs
<1>7. ModerationTold'
  <2>1. records' = <<>>
    BY <1>1 DEF ModerationTold
  <2>2. M!Range(records') = {}
    BY <2>1 DEF M!Range
  <2>3. stage' = "shown" => allowed' = {}
    BY <1>1
  <2>. QED
    BY <2>1, <2>2, <2>3 DEF ModerationTold, M!Wanted
<1>. QED
  BY <1>3, <1>4, <1>5, <1>6, <1>7

LEMMA assertPostReadableKeeps ==
    ASSUME M!ModerationAssumption, ModerationInv, M!assertPostReadable
    PROVE  ModerationInv'
<1>. USE DEF ModerationInv
<1>1. /\ Quiet /\ stage = "access" /\ allowed' = M!Range(ids)
      /\ stage' = IF M!MayRead(posts[ids[1]], communities) THEN "find" ELSE "refused"
      /\ UNCHANGED <<posts, communities, rows, toAsk, open, known, left, decided, records>>
  BY DEF M!assertPostReadable, M!request, M!world, M!scope, M!looking, Quiet
<1>2. route = "post" /\ stage' \in {"find", "refused"} /\ stage' \notin H!Questions
  BY <1>1 DEF ModerationStages, H!Questions
<1>3. PICK p \in Posts : ids = <<p>>
  BY <1>2, RequestForms DEF ModerationTypes
<1>4. M!Range(ids) = {p} /\ ids[1] = p
  BY <1>3 DEF M!Range
<1>5. M!MayRead(posts[p], communities) <=> <<"readable", p>> \in holds
  <2>1. M!CommentRowsAssumption
    BY DEF M!ModerationAssumption
  <2>2. posts[p] \in M!PostRows
    BY <2>1 DEF ModerationTypes, RowsTypes, M!CommentRowsAssumption
  <2>. QED
    BY <2>1, <2>2, PermittedIsReadable DEF ModerationTypes, RowsTypes
<1>6. ModerationTypes'
  BY <1>1, <1>2 DEF ModerationTypes, Quiet, Nested, RowsTypes
<1>7. ModerationStages'
  BY <1>1, <1>2 DEF ModerationStages, Quiet
<1>8. ModerationDecided' /\ ModerationSifted'
  BY <1>1, <1>2, SiftedAsItIs
<1>9. ModerationOpen'
  <2>1. <<"readable", p>> \in holds => <<"readable", p>> \in ever
    BY DEF ModerationTypes, Nested
  <2>2. <<"readable", p>> \in always => <<"readable", p>> \in holds
    BY DEF ModerationTypes, Nested
  <2>. QED
    BY <1>1, <1>2, <1>4, <1>5, <2>1, <2>2 DEF ModerationOpen, Quiet, RowsSound
<1>10. ModerationTold'
  BY <1>1, <1>2, ToldNothing
<1>. QED
  BY <1>6, <1>7, <1>8, <1>9, <1>10

LEMMA ModerationRowsKeep ==
    ASSUME M!ModerationAssumption, ModerationInv, M!LoadRows \/ M!LoadAccess
    PROVE  ModerationInv'
<1>. USE DEF ModerationInv
<1>1. /\ Quiet /\ stage' = "posts" /\ UNCHANGED <<known, left, decided, allowed, records>>
      /\ \/ stage = "rows" /\ M!FindRows(M!Range(ids))
         \/ stage = "posts" /\ M!AskPost
  BY DEF M!LoadRows, M!LoadAccess, M!request, M!world, M!sifting, Quiet
<1>2. route = "comments" /\ stage' \notin H!Questions /\ M!CommentRowsAssumption
  BY <1>1 DEF ModerationStages, H!Questions, M!ModerationAssumption
<1>3. /\ RowsTypes' /\ RowsSound' /\ rows' \subseteq M!Range(ids) /\ RowsDue(M!Range(ids))'
  <2>0. /\ RowsTypes /\ Nested /\ RowsSound /\ UNCHANGED <<holds, ever, always, ids>>
        /\ rows \subseteq M!Range(ids)
    BY <1>1 DEF ModerationTypes, ModerationOpen, Quiet
  <2>1. CASE stage = "rows" /\ M!FindRows(M!Range(ids))
    <3>1. PICK wanted : wanted = M!Range(ids)
      OBVIOUS
    <3>2. M!FindRows(wanted)
      BY <2>1, <3>1
    <3>3. RowsTypes' /\ RowsSound' /\ RowsDue(wanted)'
      BY <1>2, <2>0, <3>2, RowsFound
    <3>4. rows' \subseteq wanted
      BY <3>2 DEF M!FindRows
    <3>. QED
      BY <2>0, <3>1, <3>3, <3>4 DEF RowsDue
  <2>2. CASE stage = "posts" /\ M!AskPost
    <3>1. /\ RowsTypes' /\ RowsSound' /\ UNCHANGED rows
          /\ RowsDue(M!Range(ids)) => RowsDue(M!Range(ids))'
      BY <1>2, <2>0, <2>2, PostAsked DEF RowsDue
    <3>2. RowsDue(M!Range(ids))
      BY <1>2, <2>2 DEF ModerationOpen
    <3>. QED
      BY <2>0, <3>1, <3>2
  <2>. QED
    BY <1>1, <2>1, <2>2
<1>4. ModerationTypes'
  BY <1>1, <1>3 DEF ModerationTypes, Quiet, Nested
<1>5. ModerationStages'
  BY <1>1, <1>2 DEF ModerationStages, Quiet
<1>6. ModerationDecided' /\ ModerationSifted'
  BY <1>1, <1>2, SiftedAsItIs
<1>7. ModerationOpen'
  BY <1>1, <1>2, <1>3 DEF ModerationOpen, Quiet
<1>8. ModerationTold'
  BY <1>1, ToldNothing
<1>. QED
  BY <1>4, <1>5, <1>6, <1>7, <1>8

LEMMA KeepRowsKeeps ==
    ASSUME M!ModerationAssumption, ModerationInv, M!KeepRows
    PROVE  ModerationInv'
<1>. USE DEF ModerationInv
<1>1. /\ Quiet /\ stage = "posts" /\ toAsk = {} /\ allowed' = M!Kept
      /\ stage' = IF M!Kept = {} THEN "shown" ELSE "find"
      /\ UNCHANGED <<posts, communities, rows, toAsk, open, known, left, decided, records>>
  BY DEF M!KeepRows, M!request, M!world, M!scope, M!looking, Quiet
<1>2. route = "comments" /\ stage' \in {"find", "shown"} /\ stage' \notin H!Questions
  BY <1>1 DEF ModerationStages, H!Questions
<1>3. ModerationTypes'
  BY <1>1, <1>2 DEF ModerationTypes, Quiet, Nested, RowsTypes
<1>4. ModerationStages'
  BY <1>1, <1>2 DEF ModerationStages, Quiet
<1>5. ModerationDecided' /\ ModerationSifted'
  BY <1>1, <1>2, SiftedAsItIs
<1>6. ModerationOpen'
  BY <1>1, <1>2 DEF ModerationOpen, Quiet, RowsSound, RowsDue, M!Kept
<1>7. ModerationTold'
  <2>1. records' = <<>>
    BY <1>1 DEF ModerationTold
  <2>2. M!Range(records') = {}
    BY <2>1 DEF M!Range
  <2>3. stage' = "shown" => allowed' = {}
    BY <1>1
  <2>. QED
    BY <2>1, <2>2, <2>3 DEF ModerationTold, M!Wanted
<1>. QED
  BY <1>3, <1>4, <1>5, <1>6, <1>7

LEMMA findModerationKeeps ==
    ASSUME M!ModerationAssumption, ModerationInv, M!findModeration
    PROVE  ModerationInv'
<1>. USE DEF ModerationInv
<1>. DEFINE found == {d \in M!Has("document", holds) : M!Wanted(d)}
<1>1. /\ Quiet /\ stage = "find" /\ stage' = "shown" /\ records' \in M!Orders(found)
      /\ UNCHANGED <<posts, communities, rows, toAsk, open, known, left, decided, allowed>>
  BY DEF M!findModeration, M!request, M!world, M!scope, M!looking, M!sifting, Quiet
<1>2. \A d : d \in found <=> <<"document", d>> \in holds /\ M!Wanted(d)
  <2>1. holds \subseteq M!Facts
    BY DEF ModerationTypes, Nested
  <2>. QED
    BY <2>1, ModerationHas
<1>3. found \subseteq Documents
  <2>1. \A d : <<"document", d>> \in M!Facts => d \in Documents
    BY DEF M!Facts, M!Access, M!Grounds
  <2>. QED
    BY <1>2, <2>1 DEF ModerationTypes, Nested
<1>. HIDE DEF found
<1>4. M!Range(records') = found
  <2>1. IsFiniteSet(found)
    <3>1. IsFiniteSet(Documents)
      BY DEF M!ModerationAssumption, M!IsFiniteSet, IsFiniteSet
    <3>. QED
      BY <1>3, <3>1, FS_Subset
  <2>2. records' \in Orders(found)
    BY <1>1, RowsWords DEF M!Orders, Orders, M!Injection, Injection,
           M!IsInjective, IsInjective
  <2>3. Range(records') = found
    BY <2>1, <2>2, OrdersHave
  <2>. QED
    BY <2>3, RowsWords
<1>5. ModerationTypes'
  BY <1>1 DEF ModerationTypes, Quiet, Nested, RowsTypes
<1>6. ModerationStages' /\ ModerationDecided'
  BY <1>1 DEF ModerationStages, ModerationDecided, Quiet, Around, H!Questions
<1>7. ModerationSifted'
  BY <1>1 DEF ModerationSifted, Quiet
<1>8. ModerationOpen'
  BY <1>1 DEF ModerationOpen, Quiet, RowsSound, RowsDue, M!Kept
<1>9. ModerationTold'
  <2>1. \A d : M!Wanted(d)' <=> M!Wanted(d)
    BY <1>1 DEF M!Wanted, Quiet
  <2>2. always \subseteq holds /\ holds \subseteq ever
    BY DEF ModerationTypes, Nested
  <2>. QED
    BY <1>1, <1>2, <1>3, <1>4, <2>1, <2>2 DEF ModerationTold, Quiet
<1>. QED
  BY <1>5, <1>6, <1>7, <1>8, <1>9

LEMMA ModerationFailsKeeps ==
    ASSUME M!ModerationAssumption, ModerationInv, M!Fails
    PROVE  ModerationInv'
<1>. USE DEF ModerationInv
<1>1. /\ Quiet /\ stage # "shown" /\ stage' = "failed"
      /\ UNCHANGED <<posts, communities, rows, toAsk, open, known, left, decided, allowed, records>>
  BY SameAccess DEF M!Fails, M!request, M!world, M!scope, M!looking, M!sifting, Quiet, H!Questions
<1>2. ModerationTypes'
  BY <1>1 DEF ModerationTypes, Quiet, Nested, RowsTypes
<1>3. ModerationStages' /\ ModerationDecided'
  BY <1>1 DEF ModerationStages, ModerationDecided, Quiet, Around, H!Questions
<1>4. ModerationSifted'
  BY <1>1 DEF ModerationSifted, Quiet, H!Questions
<1>5. ModerationOpen'
  BY <1>1 DEF ModerationOpen, Quiet, RowsSound
<1>6. ModerationTold'
  BY <1>1, ToldNothing
<1>. QED
  BY <1>2, <1>3, <1>4, <1>5, <1>6

LEMMA ModerationKeeps ==
    ASSUME M!ModerationAssumption, ModerationInv, M!Next
    PROVE  ModerationInv'
BY ArriveKeeps, conversationsOfKeeps, SiftKeeps, ModerationAskKeeps, SiftedKeeps,
   assertPostReadableKeeps, ModerationRowsKeep, KeepRowsKeeps, findModerationKeeps,
   ModerationFailsKeeps, ModerationOthersKeep DEF M!Next

LEMMA ModerationServes ==
    ASSUME serving = "moderation"
    PROVE  /\ Entry = M!Entry /\ Answer = M!Answer /\ Shown = M!Shown
           /\ \A t : Ways(t) = IF t \in Documents THEN M!Ways(t) ELSE {}
           /\ NothingSkipped <=> M!NothingSkipped
BY DEF Entry, Answer, Shown, Ways, NothingSkipped

\* An own step leaves the world and the request alone; nothing follows an answer.
LEMMA ModerationSteps ==
    ASSUME M!ModerationAssumption, ModerationInv, M!Next
    PROVE  /\ ~M!Answered /\ UNCHANGED <<route, ids>>
           /\ \/ /\ Grown /\ ever' \subseteq M!Facts /\ UNCHANGED <<stage, records>>
              \/ UNCHANGED <<ever, always>>
<1>1. CASE M!Others
  BY <1>1, ModerationOthersWrite DEF ModerationInv
<1>2. CASE ~M!Others
  BY <1>2, SameAccess DEF M!Next, M!Arrive, M!conversationsOf, M!Sift, M!Ask, M!Sifted,
     M!assertPostReadable, M!LoadRows, M!LoadAccess, M!KeepRows, M!findModeration, M!Fails,
     M!Answered, H!Questions, M!request, M!world
<1>. QED
  BY <1>1, <1>2

\* What is in the answer was allowed.
LEMMA ModerationTellsNoMore ==
    ASSUME M!ModerationAssumption, ModerationInv, stage = "shown", NEW d \in M!Range(records)
    PROVE  d \in Documents /\ \E way \in M!Ways(d) : way \subseteq ever
<1>. USE DEF ModerationInv
<1>1. d \in Documents /\ <<"document", d>> \in ever /\ Subject[d] \in allowed /\ Family[d] = route
  BY DEF ModerationTold, M!Wanted
<1>. DEFINE id == Subject[d]
<1>2. /\ id \in M!Range(ids)
      /\ \E way \in M!Rights(id) : way \subseteq ever
  <2>1. CASE route = "messages"
    <3>1. /\ id \in known /\ decided[Holding[id]] = "yes" /\ id \in M!Range(ids)
          /\ id \in MediaMessages /\ <<"message", id>> \in ever
      BY <1>1, <2>1 DEF ModerationSifted
    <3>2. Holding[id] \in Conversations
      BY <3>1 DEF M!ModerationAssumption
    <3>3. PICK grounds \in H!Enough(KindOf[Holding[id]]) : grounds \subseteq Around(Holding[id], ever)
      BY <3>1, <3>2 DEF ModerationDecided
    <3>. DEFINE way == {<<"message", id>>} \cup (grounds \X {Holding[id]})
    <3>4. way \in M!Rights(id)
      BY <2>1, <3>3, SameAccess DEF M!Rights
    <3>5. way \subseteq ever
      BY <3>1, <3>3 DEF Around
    <3>. QED
      BY <3>1, <3>4, <3>5
  <2>2. CASE route = "post"
    <3>1. id \in M!Range(ids) /\ <<"readable", id>> \in ever
      BY <1>1, <2>2 DEF ModerationOpen
    <3>2. {<<"readable", id>>} \in M!Rights(id)
      BY <2>2, <3>1 DEF M!Rights, M!Entry
    <3>. QED
      BY <3>1, <3>2
  <2>3. CASE route = "comments"
    <3>1. id \in M!Kept
      BY <1>1, <2>3 DEF ModerationOpen
    <3>2. id \in M!Range(ids) /\ id \in Comments /\ <<"comment", id>> \in ever
      BY <3>1 DEF M!Kept, ModerationOpen, RowsSound, ModerationTypes, RowsTypes
    <3>3. <<"readable", PostOf[id]>> \in ever
      BY <3>1 DEF M!Kept, ModerationOpen, RowsSound
    <3>4. {<<"comment", id>>, <<"readable", PostOf[id]>>} \in M!Rights(id)
      BY <2>3 DEF M!Rights
    <3>. QED
      BY <3>2, <3>3, <3>4
  <2>. QED
    BY <2>1, <2>2, <2>3, RequestForms DEF ModerationTypes
<1>3. PICK way \in M!Rights(id) : way \subseteq ever
  BY <1>2
<1>4. way \cup {<<"document", d>>} \in M!Ways(d)
  BY <1>1, <1>2, <1>3 DEF M!Ways
<1>5. way \cup {<<"document", d>>} \subseteq ever
  BY <1>1, <1>3
<1>. QED
  BY <1>1, <1>4, <1>5

LEMMA ModerationLetsIn ==
    ASSUME M!ModerationAssumption, ModerationInv
    PROVE  /\ stage = "shown" => \E way \in M!Entry : way \subseteq ever
           /\ stage = "refused" => \A way \in M!Entry : ~(way \subseteq always)
<1>. USE DEF ModerationInv
<1>1. CASE route = "post"
  <2>1. PICK p \in Posts : ids = <<p>>
    BY <1>1, RequestForms DEF ModerationTypes
  <2>2. M!Range(ids) = {p}
    BY <2>1 DEF M!Range
  <2>3. M!Entry = {{<<"readable", p>>}}
    BY <1>1, <2>2 DEF M!Entry
  <2>. QED
    BY <1>1, <2>2, <2>3 DEF ModerationOpen
<1>2. CASE route # "post"
  <2>1. M!Entry = {{}}
    BY <1>2 DEF M!Entry
  <2>. QED
    BY <1>2, <2>1 DEF ModerationStages
<1>. QED
  BY <1>1, <1>2

LEMMA ModerationJustified ==
    ASSUME ReadsAssumption, serving = "moderation", ModerationInv
    PROVE  Justified
<1>0. M!ModerationAssumption
  BY DEF ReadsAssumption
<1>1. /\ Entry = M!Entry /\ Answer = M!Answer /\ Shown = M!Range(records)
      /\ \A t : Ways(t) = IF t \in Documents THEN M!Ways(t) ELSE {}
  BY ModerationServes DEF M!Shown
<1>2. /\ Answer \in {"none", "shown", "refused", "failed"}
      /\ Answer = "shown" <=> stage = "shown"
      /\ Answer = "refused" => stage = "refused"
  BY <1>1 DEF M!Answer, M!Answered
<1>3. Answer # "shown" => Shown = {}
  <2>1. Answer # "shown" => records = <<>>
    BY <1>2 DEF ModerationInv, ModerationTold
  <2>. QED
    BY <1>1, <2>1 DEF M!Range
<1>4. ASSUME Answer = "shown"
      PROVE  In(ever) /\ \A t \in Shown : t \in Things /\ May(t, ever)
  <2>1. In(ever)
    BY <1>0, <1>1, <1>2, <1>4, ModerationLetsIn DEF In, Guard!Entitled
  <2>2. ASSUME NEW t \in M!Range(records)  PROVE t \in Things /\ May(t, ever)
    <3>1. t \in Documents /\ \E way \in M!Ways(t) : way \subseteq ever
      BY <1>0, <1>2, <1>4, ModerationTellsNoMore
    <3>. QED
      BY <1>1, <3>1 DEF May, Guard!Entitled, Things
  <2>. QED
    BY <1>1, <2>1, <2>2
<1>5. Answer = "refused" => ~In(always)
  BY <1>0, <1>1, <1>2, ModerationLetsIn DEF In, Guard!Entitled
<1>. QED
  BY <1>2, <1>3, <1>4, <1>5 DEF Justified

LEMMA ModerationGoes ==
    ASSUME ReadsAssumption, serving = "moderation", serving' = serving, ModerationInv, M!Next
    PROVE  Goes
<1>1. /\ Entry = M!Entry /\ Answer = M!Answer /\ Shown = M!Shown
      /\ Entry' = M!Entry' /\ Answer' = M!Answer' /\ Shown' = M!Shown'
      /\ \A t : Ways(t) = IF t \in Documents THEN M!Ways(t) ELSE {}
      /\ \A t : Ways(t)' = IF t \in Documents THEN M!Ways(t)' ELSE {}
  BY ModerationServes DEF Entry, Answer, Shown, Ways
<1>2. /\ ~M!Answered /\ UNCHANGED <<route, ids>>
      /\ \/ /\ Grown /\ ever' \subseteq M!Facts /\ UNCHANGED <<stage, records>>
         \/ UNCHANGED <<ever, always>>
  BY ModerationSteps DEF ReadsAssumption
<1>3. M!Entry' = M!Entry /\ \A t : M!Ways(t)' = M!Ways(t)
  BY <1>2 DEF M!Entry, M!Ways, M!Rights
<1>4. Still
  BY <1>1, <1>3 DEF Still
<1>5. M!Answer = "none"
  BY <1>2 DEF M!Answer, M!Answered
<1>6. UNCHANGED <<stage, records>> => UNCHANGED <<M!Answer, M!Shown>>
  BY DEF M!Answer, M!Answered, M!Shown
<1>. QED
  BY <1>1, <1>2, <1>4, <1>5, <1>6 DEF Goes, Grown, Facts

LEMMA ModerationSkipsNothing ==
    ASSUME M!ModerationAssumption, ModerationInv
    PROVE  M!NothingSkipped
<1>. USE DEF ModerationInv
<1>. SUFFICES ASSUME stage = "shown" PROVE M!ShortForCause /\ M!OneDecision
  BY DEF M!NothingSkipped, M!ShortForCause, M!OneDecision
<1>1. ASSUME route = "messages",
             NEW m \in M!Range(ids), <<"message", m>> \in always
      PROVE  m \in known /\ (decided[Holding[m]] = "no" \/ m \in allowed)
  <2>1. m \in known /\ left = <<>>
    BY <1>1 DEF ModerationSifted
  <2>2. M!Range(left) = {}
    BY <2>1 DEF M!Range
  <2>. QED
    BY <1>1, <2>1, <2>2 DEF ModerationSifted
<1>2. M!ShortForCause
  <2>. SUFFICES ASSUME NEW d \in Documents, NEW way \in M!Ways(d), way \subseteq always
                PROVE  d \in M!Range(records)
    BY DEF M!ShortForCause
  <2>. DEFINE id == Subject[d]
  <2>1. /\ Family[d] = route /\ id \in M!Range(ids) /\ <<"document", d>> \in always
        /\ \E rights \in M!Rights(id) : rights \subseteq always
    BY DEF M!Ways
  <2>2. PICK rights \in M!Rights(id) : rights \subseteq always
    BY <2>1
  <2>3. CASE route = "messages"
    <3>1. PICK grounds \in H!Enough(KindOf[Holding[id]]) :
             rights = {<<"message", id>>} \cup (grounds \X {Holding[id]})
      BY <2>2, <2>3, SameAccess DEF M!Rights
    <3>2. id \in known /\ (decided[Holding[id]] = "no" \/ id \in allowed)
      BY <1>1, <2>1, <2>2, <2>3, <3>1
    <3>3. Holding[id] \in Conversations
      BY <3>2 DEF ModerationSifted, M!ModerationAssumption
    <3>4. KindOf[Holding[id]] \in H!Kinds
      BY <3>3, SameAccess DEF M!ModerationAssumption
    <3>5. grounds \subseteq H!Grounds
      BY <3>4 DEF H!Enough, H!Grounds, H!Kinds
    <3>6. grounds \subseteq Around(Holding[id], always)
      BY <2>2, <3>1, <3>5 DEF Around
    <3>7. id \in allowed
      BY <3>2, <3>3, <3>6 DEF ModerationDecided
    <3>. QED
      BY <2>1, <3>7 DEF ModerationTold, M!Wanted
  <2>4. CASE route = "post"
    BY <2>1, <2>4 DEF ModerationOpen, ModerationTold, M!Wanted
  <2>5. CASE route = "comments"
    <3>1. <<"comment", id>> \in always /\ <<"readable", PostOf[id]>> \in always
      BY <2>2, <2>5 DEF M!Rights
    <3>2. id \in Comments
      <4>1. <<"comment", id>> \in M!Facts
        BY <3>1 DEF ModerationTypes, Nested
      <4>. QED
        BY <4>1 DEF M!Facts, M!Access, M!Grounds
    <3>3. id \in M!Kept
      BY <2>1, <2>5, <3>1, <3>2 DEF ModerationOpen, RowsDue, M!Kept
    <3>. QED
      BY <2>1, <2>5, <3>3 DEF ModerationOpen, ModerationTold, M!Wanted
  <2>. QED
    BY <2>3, <2>4, <2>5, RequestForms DEF ModerationTypes
<1>3. M!OneDecision
  <2>. SUFFICES ASSUME route = "messages", NEW d \in Documents, NEW e \in Documents,
                       d \in M!Range(records), <<"document", e>> \in always,
                       Family[e] = "messages", Subject[e] \in M!Range(ids),
                       <<"message", Subject[e]>> \in always,
                       Holding[Subject[d]] = Holding[Subject[e]]
                PROVE  e \in M!Range(records)
    BY DEF M!OneDecision
  <2>1. decided[Holding[Subject[d]]] = "yes"
    BY DEF ModerationTold, M!Wanted, ModerationSifted
  <2>2. Subject[e] \in allowed
    BY <1>1, <2>1
  <2>. QED
    BY <2>2 DEF ModerationTold, M!Wanted
<1>. QED
  BY <1>2, <1>3

\* At the start nothing is answered, and what entitles is made of facts.
Opens ==
    /\ \A t \in Things : Ways(t) \subseteq SUBSET Facts
    /\ Entry \subseteq SUBSET Facts
    /\ ever \subseteq Facts /\ always = ever
    /\ Answer = "none" /\ Shown = {}

LEMMA StartGuarded ==
    ASSUME Opens
    PROVE  Guard!Init
BY DEF Opens, Guard!Init

LEMMA HistoryOpens ==
    ASSUME ReadsAssumption, serving = "history", H!Init
    PROVE  Opens
<1>1. /\ Entry = H!Entry /\ Answer = H!Answer /\ Shown = H!Shown
      /\ \A t : Ways(t) = IF t \in ChatMessages THEN H!Ways(t) ELSE {}
  BY HistoryServes
<1>2. H!HistoryAssumption
  BY DEF ReadsAssumption
<1>3. HistoryInv
  BY <1>2, HistoryStarts
<1>4. H!Entry \subseteq SUBSET H!Facts
  <2>. SUFFICES ASSUME NEW grounds \in H!Enough(kind)
                PROVE  grounds \X {Zero} \subseteq H!Facts
    BY DEF H!Entry
  <2>1. grounds \subseteq H!Grounds
    BY <1>3 DEF HistoryInv, HistoryTypes, H!Enough, H!Grounds, H!Kinds
  <2>. QED
    BY <2>1 DEF H!Facts, H!Access
<1>5. ASSUME NEW m \in ChatMessages  PROVE H!Ways(m) \subseteq SUBSET H!Facts
  <2>. SUFFICES ASSUME NEW way \in H!Ways(m)  PROVE way \subseteq H!Facts
    OBVIOUS
  <2>1. PICK door \in H!Entry : way = door \cup {<<"live", m>>} \cup H!OwnParent(m)
    BY DEF H!Ways
  <2>2. route = "replies" => H!ToCaller(m)
    BY DEF H!Ways
  <2>3. H!OwnParent(m) \subseteq H!Facts
    BY <1>2, <2>2 DEF H!OwnParent, H!ToCaller, H!HistoryAssumption, H!Facts
  <2>4. <<"live", m>> \in H!Facts
    BY DEF H!Facts
  <2>. QED
    BY <1>4, <2>1, <2>3, <2>4
<1>6. ever \subseteq H!Facts /\ always = ever
  BY <1>3 DEF HistoryInv, HistoryTypes, H!Init, H!WorldInit
<1>7. H!Answer = "none" /\ H!Shown = {}
  BY DEF H!Init, H!Answer, H!Answered, H!Shown
<1>. QED
  BY <1>1, <1>4, <1>5, <1>6, <1>7 DEF Opens, Facts

LEMMA ModerationOpens ==
    ASSUME ReadsAssumption, serving = "moderation", M!Init
    PROVE  Opens
<1>1. /\ Entry = M!Entry /\ Answer = M!Answer /\ Shown = M!Shown
      /\ \A t : Ways(t) = IF t \in Documents THEN M!Ways(t) ELSE {}
  BY ModerationServes
<1>2. M!ModerationAssumption
  BY DEF ReadsAssumption
<1>3. ModerationInv
  BY <1>2, ModerationStarts
<1>4. ASSUME NEW p \in Posts  PROVE <<"readable", p>> \in M!Facts
  BY DEF M!Facts
<1>5. M!Entry \subseteq SUBSET M!Facts
  <2>1. route = "post" => M!Range(ids) \subseteq Posts
    BY <1>2, <1>3, RequestForms DEF ModerationInv, ModerationTypes, M!Range
  <2>. QED
    BY <1>4, <2>1 DEF M!Entry
<1>6. ASSUME NEW d \in Documents  PROVE M!Ways(d) \subseteq SUBSET M!Facts
  <2>. SUFFICES ASSUME NEW way \in M!Ways(d)  PROVE way \subseteq M!Facts
    OBVIOUS
  <2>. DEFINE id == Subject[d]
  <2>1. id \in M!Range(ids) /\ Family[d] = route
    BY DEF M!Ways
  <2>2. PICK rights \in M!Rights(id) : way = rights \cup {<<"document", d>>}
    BY DEF M!Ways
  <2>3. <<"document", d>> \in M!Facts
    <3>1. <<"document", d>> \in {"document"} \X Documents
      OBVIOUS
    <3>. QED
      BY <3>1 DEF M!Facts
  <2>4. route \in {"messages", "post", "comments"}
    BY <1>2, <1>3, RequestForms DEF ModerationInv, ModerationTypes
  <2>. HIDE DEF id
  <2>5. CASE route = "messages"
    <3>1. id \in MediaMessages
      BY <1>2, <1>3, <2>1, <2>5, RequestForms DEF ModerationInv, ModerationTypes, M!Range
    <3>2. Holding[id] \in Conversations /\ KindOf[Holding[id]] \in H!Kinds
      BY <1>2, <3>1, SameAccess DEF M!ModerationAssumption
    <3>3. PICK grounds \in H!Enough(KindOf[Holding[id]]) :
             rights = {<<"message", id>>} \cup (grounds \X {Holding[id]})
      BY <2>2, <2>5, SameAccess DEF M!Rights
    <3>4. grounds \subseteq H!Grounds
      BY <3>2 DEF H!Enough, H!Grounds, H!Kinds
    <3>5. grounds \X {Holding[id]} \subseteq M!Facts
      BY <3>2, <3>4, SameAccess DEF M!Facts, M!Access
    <3>6. <<"message", id>> \in M!Facts
      BY <3>1 DEF M!Facts
    <3>. QED
      BY <2>2, <2>3, <3>3, <3>5, <3>6
  <2>6. CASE route = "post"
    BY <1>5, <2>2, <2>3, <2>6 DEF M!Rights
  <2>7. CASE route = "comments"
    <3>1. id \in Comments
      BY <1>2, <1>3, <2>1, <2>7, RequestForms DEF ModerationInv, ModerationTypes, M!Range
    <3>2. PostOf[id] \in Posts
      BY <1>2, <3>1 DEF M!ModerationAssumption, M!CommentRowsAssumption
    <3>3. <<"comment", id>> \in M!Facts
      BY <3>1 DEF M!Facts
    <3>4. rights = {<<"comment", id>>, <<"readable", PostOf[id]>>}
      BY <2>2, <2>7 DEF M!Rights
    <3>. QED
      BY <1>4, <2>2, <2>3, <3>2, <3>3, <3>4
  <2>. QED
    BY <2>4, <2>5, <2>6, <2>7
<1>7. ever \subseteq M!Facts /\ always = ever
  BY <1>3 DEF ModerationInv, ModerationTypes, M!Init, M!WorldInit
<1>8. M!Answer = "none" /\ M!Shown = {}
  BY DEF M!Init, M!Answer, M!Answered, M!Shown, M!Range
<1>. QED
  BY <1>1, <1>5, <1>6, <1>7, <1>8 DEF Opens, Facts

(***************************************************************************)
(* Post and mention reads.  The comments are asked for post by post while  *)
(* they and the posts change: what is kept was there and readable at some  *)
(* moment, and what was throughout is kept.                                *)
(***************************************************************************)
PostTypes ==
    /\ route \in {"thread", "mentions", "replies"} /\ most \in Nat \ {0}
    /\ Nested /\ ever \subseteq P!Facts /\ RowsTypes
    /\ stage \in {"access", "post", "comments", "notices", "rows", "posts", "handles",
                  "shown", "refused", "failed"}

\* Each route has its stages, and who comes by the thread's was let in.
PostStages ==
    /\ stage \in {"access", "post", "comments", "refused"} => route = "thread"
    /\ stage \in {"notices", "rows", "posts"} => route # "thread"
    /\ stage \in {"post", "comments", "handles", "shown"} /\ route = "thread"
          => <<"readable", Post>> \in ever
    /\ stage = "refused" => <<"readable", Post>> \notin always

\* What there was that is newer.
UnreadAbove(n)   == {u \in P!Unread(ever) : u > n}
CommentsAbove(c) == {u \in P!Has("comment", ever) : u > c /\ PostOf[u] = Post}

\* The notifications found, and of the comments they are about the rows.
PostPending ==
    /\ \A n \in pending : /\ n \in Notices /\ Sort[n] = route /\ Mention[n] \in Comments
                          /\ <<"unread", n>> \in ever
    /\ stage \in {"rows", "posts", "handles", "shown"} /\ route # "thread" =>
          \A n \in Notices :
              <<"unread", n>> \in always /\ Sort[n] = route /\ Mention[n] \in Comments
              /\ n \notin pending
              => Cardinality(UnreadAbove(n)) >= most
    /\ RowsSound
    /\ stage \in {"posts", "handles", "shown"} /\ route # "thread" =>
          RowsDue({Mention[n] : n \in pending})

\* What is listed.
PostListed ==
    /\ stage \notin {"handles", "shown"} => listed = <<>>
    /\ \A i, j \in DOMAIN listed : i < j => (listed[i] < listed[j] <=> route = "thread")
    /\ stage \in {"handles", "shown"} /\ route = "thread" =>
          /\ \A c \in Range(listed) : c \in Comments /\ PostOf[c] = Post /\ <<"comment", c>> \in ever
          /\ \A c \in Comments :
                <<"comment", c>> \in always /\ PostOf[c] = Post /\ c \notin Range(listed)
                => Cardinality(CommentsAbove(c)) >= most
    /\ stage \in {"handles", "shown"} /\ route # "thread" =>
          /\ pending # {} => toAsk = {}
          /\ Range(listed) = {n \in pending : P!Resolved(n)}

\* Who is told to have written it.
PostNames ==
    /\ stage \notin {"handles", "shown"} => signed = {}
    /\ stage # "shown" => handled = {}
    /\ \A t \in signed : (IF t \in Notices THEN Mention[t] ELSE t) \in P!Written \ Anonymous
    /\ handled \subseteq signed

PostInv == PostTypes /\ PostStages /\ PostPending /\ PostListed /\ PostNames

-----------------------------------------------------------------------------
LEMMA PostHas ==
    ASSUME NEW facts, facts \subseteq P!Facts, NEW what, NEW x
    PROVE  x \in P!Has(what, facts) <=> <<what, x>> \in facts
<1>1. \A f \in facts : f = <<f[1], f[2]>>
  BY DEF P!Facts
<1>2. x \in P!Has(what, facts) <=> \E f \in facts : f[1] = what /\ f[2] = x
  BY DEF P!Has
<1>. QED
  BY <1>1, <1>2

\* What there was is finite, and there may be more of it.
LEMMA MoreThere ==
    ASSUME NEW U, NEW V, V \subseteq U, IsFiniteSet(U), NEW n \in Nat, Cardinality(V) >= n
    PROVE  Cardinality(U) >= n
<1>1. IsFiniteSet(V) /\ Cardinality(V) <= Cardinality(U)
  BY FS_Subset
<1>2. Cardinality(V) \in Nat /\ Cardinality(U) \in Nat
  BY <1>1, FS_CardinalityType
<1>. QED
  BY <1>1, <1>2

LEMMA AboveIsFinite ==
    ASSUME P!PostReadsAssumption, ever \subseteq P!Facts
    PROVE  \A n : /\ IsFiniteSet(UnreadAbove(n)) /\ IsFiniteSet(CommentsAbove(n))
                  /\ UnreadAbove(n) = {u \in Notices : <<"unread", u>> \in ever /\ Sort[u] = route
                                                       /\ u > n}
                  /\ CommentsAbove(n) = {u \in Comments : <<"comment", u>> \in ever /\ u > n
                                                          /\ PostOf[u] = Post}
<1>1. IsFiniteSet(Notices) /\ IsFiniteSet(Comments)
  BY DEF P!PostReadsAssumption, P!IsFiniteSet, IsFiniteSet
<1>2. \A u : <<"unread", u>> \in ever => u \in Notices
  BY DEF P!Facts
<1>3. \A u : <<"comment", u>> \in ever => u \in Comments
  BY DEF P!Facts
<1>4. \A u : u \in P!Has("unread", ever) <=> <<"unread", u>> \in ever
  BY PostHas
<1>5. \A u : u \in P!Has("comment", ever) <=> <<"comment", u>> \in ever
  BY PostHas
<1>6. TAKE n
<1>7. UnreadAbove(n) = {u \in Notices : <<"unread", u>> \in ever /\ Sort[u] = route /\ u > n}
  BY <1>2, <1>4 DEF UnreadAbove, P!Unread
<1>8. CommentsAbove(n) = {u \in Comments : <<"comment", u>> \in ever /\ u > n /\ PostOf[u] = Post}
  BY <1>3, <1>5 DEF CommentsAbove
<1>9. UnreadAbove(n) \subseteq Notices /\ CommentsAbove(n) \subseteq Comments
  BY <1>7, <1>8
<1>. QED
  BY <1>1, <1>7, <1>8, <1>9, FS_Subset

LEMMA PostStarts ==
    ASSUME M!CommentRowsAssumption, P!PostReadsAssumption, P!Init
    PROVE  PostInv
<1>1. PICK late \in SUBSET LateNotices :
         holds = ({"comment"} \X Starting) \cup P!ReadablePosts(posts, communities)
                     \cup ({"unread"} \X (Notices \ late))
  BY DEF P!Init
<1>2. /\ route \in {"thread", "mentions", "replies"} /\ most \in Windows
      /\ stage = IF route = "thread" THEN "access" ELSE "notices"
      /\ pending = {} /\ listed = <<>> /\ signed = {} /\ handled = {}
  BY DEF P!Init
<1>3. /\ posts \in PostStates /\ communities \in RealmStates
      /\ rows = {} /\ toAsk = {} /\ open = {}
      /\ ever = holds /\ always = holds
  BY DEF P!Init, P!RowsInit, P!WorldInit
<1>4. P!ReadablePosts(posts, communities) = M!ReadablePosts(posts, communities)
  BY SameRowSteps
<1>5. RowsTypes
  BY <1>1, <1>3, <1>4 DEF RowsTypes, M!ReadablePosts
<1>6. holds \subseteq P!Facts
  BY <1>1, <1>4 DEF P!Facts, M!ReadablePosts, P!PostReadsAssumption
<1>7. PostTypes
  <2>1. most \in Nat \ {0}
    BY <1>2 DEF P!PostReadsAssumption
  <2>. QED
    BY <1>2, <1>3, <1>5, <1>6, <2>1 DEF PostTypes, Nested
<1>8. PostStages
  BY <1>2 DEF PostStages
<1>9. PostPending
  BY <1>2, <1>3 DEF PostPending, RowsSound
<1>10. PostListed
  <2>1. listed = <<>>
    BY <1>2
  <2>2. DOMAIN listed = {}
    BY <2>1
  <2>. QED
    BY <1>2, <2>1, <2>2 DEF PostListed
<1>11. PostNames
  BY <1>2 DEF PostNames
<1>. QED
  BY <1>7, <1>8, <1>9, <1>10, <1>11 DEF PostInv

LEMMA PostOthersWrite ==
    ASSUME M!CommentRowsAssumption, P!PostReadsAssumption, PostTypes, P!Others
    PROVE  /\ ~P!Answered /\ Grown /\ ever' \subseteq P!Facts /\ RowsTypes'
           /\ UNCHANGED <<route, most, stage, rows, toAsk, open, pending, listed, signed, handled>>
<1>. USE DEF PostTypes
<1>1. ~P!Answered /\ UNCHANGED <<route, most, stage, pending, listed, signed, handled>>
  BY DEF P!Others, P!request, P!reading
<1>2. CASE P!Comment \/ P!Notify \/ P!MarkRead
  <2>1. \E facts : /\ holds' = facts /\ ever' = ever \cup facts /\ always' = always \cap facts
                   /\ facts \subseteq P!Facts
                   /\ \A p \in Posts : <<"readable", p>> \in facts <=> <<"readable", p>> \in holds
    <3>0. holds \subseteq P!Facts
      BY DEF Nested
    <3>1. CASE P!Comment
      <4>1. PICK c \in Comments :
               /\ holds' = holds \cup {<<"comment", c>>}
               /\ ever' = ever \cup holds' /\ always' = always \cap holds'
        BY <3>1 DEF P!Comment, P!Becomes
      <4>2. holds \cup {<<"comment", c>>} \subseteq P!Facts
        BY <3>0 DEF P!Facts
      <4>. QED
        BY <4>1, <4>2
    <3>2. CASE P!Notify
      <4>1. PICK n \in Notices :
               /\ holds' = holds \cup {<<"unread", n>>}
               /\ ever' = ever \cup holds' /\ always' = always \cap holds'
        BY <3>2 DEF P!Notify, P!Becomes
      <4>2. holds \cup {<<"unread", n>>} \subseteq P!Facts
        BY <3>0 DEF P!Facts
      <4>. QED
        BY <4>1, <4>2
    <3>3. CASE P!MarkRead
      <4>1. PICK n : /\ holds' = holds \ {<<"unread", n>>}
                     /\ ever' = ever \cup holds' /\ always' = always \cap holds'
        BY <3>3 DEF P!MarkRead, P!Becomes
      <4>. QED
        BY <4>1, <3>0
    <3>. QED
      BY <1>2, <3>1, <3>2, <3>3
  <2>2. UNCHANGED <<posts, communities, rows, toAsk, open>>
    BY <1>2 DEF P!Comment, P!Notify, P!MarkRead, P!scope, P!looking
  <2>3. RowsTypes'
    BY <2>1, <2>2 DEF RowsTypes
  <2>. QED
    BY <1>1, <2>1, <2>2, <2>3 DEF Grown, Nested
<1>3. CASE M!Rescope \/ M!DeleteComment
  <2>1. /\ RowsTypes' /\ Grown /\ UNCHANGED <<rows, toAsk, open>>
        /\ \E facts \in SUBSET (holds \cup ({"readable"} \X Posts)) :
                 ever' = ever \cup facts /\ holds' = facts
    BY <1>3, RowsRescoped
  <2>2. ever' \subseteq P!Facts
    BY <2>1 DEF P!Facts, Nested
  <2>. QED
    BY <1>1, <2>1, <2>2
<1>. QED
  BY <1>2, <1>3, SameRowSteps DEF P!Others

LEMMA PostOthersKeep ==
    ASSUME M!CommentRowsAssumption, P!PostReadsAssumption, PostInv, P!Others
    PROVE  PostInv'
<1>. USE DEF PostInv
<1>1. /\ ~P!Answered /\ Grown /\ ever' \subseteq P!Facts /\ RowsTypes'
      /\ UNCHANGED <<route, most, stage, rows, toAsk, open, pending, listed, signed, handled>>
  BY PostOthersWrite
<1>2. PostTypes'
  BY <1>1 DEF PostTypes, Grown, Nested
<1>3. PostStages'
  BY <1>1 DEF PostStages, P!Answered, Grown
<1>4. /\ \A n : UnreadAbove(n) \subseteq UnreadAbove(n)' /\ CommentsAbove(n) \subseteq CommentsAbove(n)'
      /\ \A n : IsFiniteSet(UnreadAbove(n)') /\ IsFiniteSet(CommentsAbove(n)')
  <2>1. \A n : /\ UnreadAbove(n) = {u \in Notices : <<"unread", u>> \in ever /\ Sort[u] = route
                                                       /\ u > n}
               /\ CommentsAbove(n) = {u \in Comments : <<"comment", u>> \in ever /\ u > n
                                                          /\ PostOf[u] = Post}
    BY AboveIsFinite DEF PostTypes
  <2>2. \A n : /\ UnreadAbove(n)' \subseteq Notices /\ CommentsAbove(n)' \subseteq Comments
               /\ UnreadAbove(n) \subseteq UnreadAbove(n)'
               /\ CommentsAbove(n) \subseteq CommentsAbove(n)'
    <3>1. \A u : u \in P!Has("unread", ever') <=> <<"unread", u>> \in ever'
      BY <1>1, PostHas
    <3>2. \A u : u \in P!Has("comment", ever') <=> <<"comment", u>> \in ever'
      BY <1>1, PostHas
    <3>3. \A u : <<"unread", u>> \in ever' => u \in Notices
      BY <1>1 DEF P!Facts
    <3>4. \A u : <<"comment", u>> \in ever' => u \in Comments
      BY <1>1 DEF P!Facts
    <3>. QED
      BY <1>1, <2>1, <3>1, <3>2, <3>3, <3>4 DEF UnreadAbove, CommentsAbove, P!Unread, Grown
  <2>3. IsFiniteSet(Notices) /\ IsFiniteSet(Comments)
    BY DEF P!PostReadsAssumption, P!IsFiniteSet, IsFiniteSet
  <2>. QED
    BY <2>2, <2>3, FS_Subset
<1>5. most \in Nat /\ most' = most
  BY <1>1 DEF PostTypes
<1>6. \A n : /\ Cardinality(UnreadAbove(n)) >= most => Cardinality(UnreadAbove(n)') >= most
             /\ Cardinality(CommentsAbove(n)) >= most => Cardinality(CommentsAbove(n)') >= most
  BY <1>4, <1>5, MoreThere
<1>7. PostPending'
  <2>1. RowsSound' /\ \A wanted : RowsDue(wanted) => RowsDue(wanted)'
    BY <1>1, RowsGrow DEF PostPending
  <2>2. RowsDue({Mention[n] : n \in pending}) => RowsDue({Mention[n] : n \in pending})'
    BY <1>1, <2>1 DEF RowsDue, Grown
  <2>3. stage' \in {"rows", "posts", "handles", "shown"} /\ route' # "thread" =>
          \A n \in Notices :
              <<"unread", n>> \in always' /\ Sort[n] = route' /\ Mention[n] \in Comments
              /\ n \notin pending'
              => Cardinality(UnreadAbove(n)') >= most'
    BY <1>1, <1>5, <1>6 DEF PostPending, Grown
  <2>4. \A n \in pending' : /\ n \in Notices /\ Sort[n] = route' /\ Mention[n] \in Comments
                            /\ <<"unread", n>> \in ever'
    BY <1>1 DEF PostPending, Grown
  <2>. QED
    BY <1>1, <2>1, <2>2, <2>3, <2>4 DEF PostPending
<1>8. PostListed'
  <2>1. \A n : P!Resolved(n)' <=> P!Resolved(n)
    BY <1>1 DEF P!Resolved, P!Kept
  <2>2. stage' \in {"handles", "shown"} /\ route' = "thread" =>
          /\ \A c \in Range(listed') : c \in Comments /\ PostOf[c] = Post /\ <<"comment", c>> \in ever'
          /\ \A c \in Comments :
                <<"comment", c>> \in always' /\ PostOf[c] = Post /\ c \notin Range(listed')
                => Cardinality(CommentsAbove(c)') >= most'
    BY <1>1, <1>5, <1>6 DEF PostListed, Grown
  <2>3. stage' \in {"handles", "shown"} /\ route' # "thread" =>
          (pending' # {} => toAsk' = {}) /\ Range(listed') = {n \in pending' : P!Resolved(n)'}
    BY <1>1, <2>1 DEF PostListed
  <2>4. /\ stage' \notin {"handles", "shown"} => listed' = <<>>
        /\ \A i, j \in DOMAIN listed' : i < j => (listed'[i] < listed'[j] <=> route' = "thread")
    BY <1>1 DEF PostListed
  <2>. QED
    BY <2>2, <2>3, <2>4 DEF PostListed
<1>9. PostNames'
  BY <1>1 DEF PostNames
<1>. QED
  BY <1>2, <1>3, <1>7, <1>8, <1>9
-----------------------------------------------------------------------------
\* What a step of the request's own leaves as it is.
PostQuiet == UNCHANGED <<route, most, holds, ever, always>>

LEMMA PendingAsItIs ==
    ASSUME PostPending, PostQuiet, UNCHANGED <<rows, toAsk, open, pending>>,
           \/ route = "thread"
           \/ stage' \in {"rows", "posts", "handles", "shown"}
              => stage \in {"rows", "posts", "handles", "shown"},
           \/ route = "thread"
           \/ stage' \in {"posts", "handles", "shown"} => stage \in {"posts", "handles", "shown"}
    PROVE  PostPending'
<1>1. \A n : UnreadAbove(n)' = UnreadAbove(n)
  BY DEF UnreadAbove, P!Unread, PostQuiet
<1>2. RowsDue({Mention[n] : n \in pending})' <=> RowsDue({Mention[n] : n \in pending})
  BY DEF RowsDue, PostQuiet
<1>3. RowsSound'
  BY DEF PostPending, RowsSound, PostQuiet
<1>. QED
  BY <1>1, <1>2, <1>3 DEF PostPending, PostQuiet

LEMMA NothingListedYet ==
    ASSUME PostListed, PostNames, stage \notin {"handles", "shown"},
           stage' \notin {"handles", "shown"}, UNCHANGED <<listed, signed, handled>>
    PROVE  PostListed' /\ PostNames'
<1>1. listed' = <<>> /\ signed' = {} /\ handled' = {}
  BY DEF PostListed, PostNames
<1>2. DOMAIN listed' = {}
  BY <1>1
<1>. QED
  BY <1>1, <1>2 DEF PostListed, PostNames

\* The statement about the post.
LEMMA PostAsItHolds ==
    ASSUME M!CommentRowsAssumption, P!PostReadsAssumption, PostTypes
    PROVE  /\ P!MayRead(posts[Post], communities) <=> <<"readable", Post>> \in holds
           /\ posts[Post].deleted => <<"readable", Post>> \notin holds
<1>1. Post \in Posts
  BY DEF P!PostReadsAssumption
<1>2. posts[Post] \in M!PostRows
  BY <1>1 DEF PostTypes, RowsTypes, M!CommentRowsAssumption
<1>3. <<"readable", Post>> \in holds <=> M!Readable(posts[Post], communities)
  BY <1>1 DEF PostTypes, RowsTypes
<1>4. M!MayRead(posts[Post], communities) <=> M!Readable(posts[Post], communities)
  BY <1>2, PermittedIsReadable
<1>5. P!MayRead(posts[Post], communities) <=> M!MayRead(posts[Post], communities)
  BY RowsWords
<1>. QED
  BY <1>3, <1>4, <1>5 DEF M!Readable

LEMMA AccessKeeps ==
    ASSUME M!CommentRowsAssumption, P!PostReadsAssumption, PostInv, P!Access \/ P!LoadPost
    PROVE  PostInv'
<1>. USE DEF PostInv
<1>1. /\ PostQuiet
      /\ UNCHANGED <<posts, communities, rows, toAsk, open, pending, listed, signed, handled>>
      /\ \/ /\ stage = "access"
            /\ stage' = IF P!MayRead(posts[Post], communities) THEN "post" ELSE "refused"
         \/ /\ stage = "post"
            /\ stage' = IF posts[Post].deleted THEN "refused" ELSE "comments"
  BY DEF P!Access, P!LoadPost, P!request, P!world, P!scope, P!looking, P!reading, PostQuiet
<1>2. route = "thread" /\ stage' \in {"post", "comments", "refused"}
  BY <1>1 DEF PostStages
<1>3. PostTypes'
  BY <1>1, <1>2 DEF PostTypes, PostQuiet, Nested, RowsTypes
<1>4. PostStages'
  <2>1. always \subseteq holds /\ holds \subseteq ever
    BY DEF PostTypes, Nested
  <2>2. /\ P!MayRead(posts[Post], communities) <=> <<"readable", Post>> \in holds
        /\ posts[Post].deleted => <<"readable", Post>> \notin holds
    BY PostAsItHolds
  <2>3. CASE stage = "access"
    <3>1. /\ stage' = "post" => <<"readable", Post>> \in ever
          /\ stage' = "refused" => <<"readable", Post>> \notin always
          /\ stage' \in {"post", "refused"}
      BY <1>1, <2>1, <2>2, <2>3
    <3>. QED
      BY <1>1, <1>2, <3>1 DEF PostStages, PostQuiet
  <2>4. CASE stage = "post"
    <3>1. /\ stage' = "refused" => <<"readable", Post>> \notin always
          /\ <<"readable", Post>> \in ever /\ stage' \in {"comments", "refused"}
      BY <1>1, <1>2, <2>1, <2>2, <2>4 DEF PostStages
    <3>. QED
      BY <1>1, <1>2, <3>1 DEF PostStages, PostQuiet
  <2>. QED
    BY <1>1, <2>3, <2>4
<1>5. PostPending'
  BY <1>1, <1>2, PendingAsItIs
<1>6. PostListed' /\ PostNames'
  <2>1. stage \notin {"handles", "shown"}
    BY <1>1
  <2>. QED
    BY <1>1, <1>2, <2>1, NothingListedYet
<1>. QED
  BY <1>3, <1>4, <1>5, <1>6

LEMMA LoadCommentsKeeps ==
    ASSUME P!PostReadsAssumption, PostInv, P!LoadComments
    PROVE  PostInv'
<1>. USE DEF PostInv
<1>. DEFINE found == P!Newest(P!OnPost)
<1>1. /\ PostQuiet /\ stage = "comments" /\ stage' = "handles"
      /\ listed' \in P!Ascending(found) /\ signed' = P!Signed(found \cup {Post})
      /\ UNCHANGED <<posts, communities, rows, toAsk, open, pending, handled>>
  BY DEF P!LoadComments, P!request, P!world, P!scope, P!looking, PostQuiet
<1>2. route = "thread" /\ <<"readable", Post>> \in ever /\ handled = {}
  BY <1>1 DEF PostStages, PostNames
<1>3. /\ P!OnPost = {c \in Comments : <<"comment", c>> \in holds /\ PostOf[c] = Post}
      /\ found = {c \in P!OnPost : Cardinality({u \in P!OnPost : u > c}) < most}
  BY RowsWords DEF P!OnPost, P!LiveComments, P!Newest
<1>. HIDE DEF found
<1>4. IsFiniteSet(Comments) /\ found \subseteq Comments /\ IsFiniteSet(found)
  <2>1. IsFiniteSet(Comments)
    BY DEF P!PostReadsAssumption, P!IsFiniteSet, IsFiniteSet
  <2>. QED
    BY <1>3, <2>1, FS_Subset
<1>5. /\ listed' \in Orders(found)
      /\ \A i, j \in DOMAIN listed' : i < j => listed'[i] < listed'[j]
  BY <1>1, RowsWords DEF P!Ascending, P!Orders, Orders, P!Injection, Injection,
           P!IsInjective, IsInjective
<1>6. listed' \in Seq(found) /\ Range(listed') = found
  BY <1>4, <1>5, OrdersHave
<1>7. PostTypes'
  BY <1>1 DEF PostTypes, PostQuiet, Nested, RowsTypes
<1>8. PostStages'
  BY <1>1, <1>2 DEF PostStages, PostQuiet
<1>9. PostPending'
  BY <1>1, <1>2, PendingAsItIs
<1>10. PostListed'
  <2>1. \A i, j \in DOMAIN listed' : i < j => listed'[i] < listed'[j]
    BY <1>5, <1>6
  <2>2. \A i, j \in DOMAIN listed' : i < j => (listed'[i] < listed'[j] <=> route' = "thread")
    BY <1>1, <1>2, <2>1 DEF PostQuiet
  <2>3. \A c \in found : c \in Comments /\ PostOf[c] = Post /\ <<"comment", c>> \in ever'
    BY <1>1, <1>3 DEF PostTypes, Nested, PostQuiet
  <2>4. ASSUME NEW c \in Comments, <<"comment", c>> \in always', PostOf[c] = Post, c \notin found
        PROVE  Cardinality(CommentsAbove(c)') >= most'
    <3>1. c \in P!OnPost
      BY <1>1, <1>3, <2>4 DEF PostTypes, Nested, PostQuiet
    <3>2. ~(Cardinality({u \in P!OnPost : u > c}) < most)
      BY <1>3, <2>4, <3>1
    <3>3. /\ CommentsAbove(c) = {u \in Comments : <<"comment", u>> \in ever /\ u > c
                                                   /\ PostOf[u] = Post}
          /\ IsFiniteSet(CommentsAbove(c))
      BY AboveIsFinite DEF PostTypes
    <3>4. {u \in P!OnPost : u > c} \subseteq CommentsAbove(c)
      BY <1>3, <3>3 DEF PostTypes, Nested
    <3>5. most \in Nat
      BY DEF PostTypes
    <3>6. Cardinality(CommentsAbove(c)) >= most
      BY <3>2, <3>3, <3>4, <3>5, PushedOut
    <3>7. CommentsAbove(c)' = CommentsAbove(c) /\ most' = most
      BY <1>1 DEF CommentsAbove, PostQuiet
    <3>. QED
      BY <3>6, <3>7
  <2>5. stage' = "handles" /\ route' = "thread"
    BY <1>1, <1>2 DEF PostQuiet
  <2>. QED
    BY <1>6, <2>2, <2>3, <2>4, <2>5 DEF PostListed
<1>11. PostNames'
  <2>1. signed' = (found \cup {Post}) \ Anonymous
    BY <1>1 DEF P!Signed
  <2>2. Post \notin Notices /\ \A c \in Comments : c \notin Notices
    BY DEF P!PostReadsAssumption
  <2>3. \A t \in signed' :
           (IF t \in Notices THEN Mention[t] ELSE t) \in P!Written \ Anonymous
    BY <1>4, <2>1, <2>2 DEF P!Written
  <2>4. handled' = {}
    BY <1>1, <1>2
  <2>. QED
    BY <1>1, <2>3, <2>4 DEF PostNames
<1>. QED
  BY <1>7, <1>8, <1>9, <1>10, <1>11

LEMMA FindNoticesKeeps ==
    ASSUME P!PostReadsAssumption, PostInv, P!FindNotices
    PROVE  PostInv'
<1>. USE DEF PostInv
<1>1. /\ PostQuiet /\ stage = "notices"
      /\ pending' = {n \in P!Newest(P!Unread(holds)) : Mention[n] # Zero}
      /\ stage' = IF pending' = {} THEN "shown" ELSE "rows"
      /\ UNCHANGED <<posts, communities, rows, toAsk, open, listed, signed, handled>>
  BY DEF P!FindNotices, P!request, P!world, P!scope, P!looking, PostQuiet
<1>2. route # "thread" /\ stage' \in {"shown", "rows"} /\ (stage' = "shown" => pending' = {})
  BY <1>1 DEF PostStages
<1>3. holds \subseteq P!Facts /\ holds \subseteq ever /\ always \subseteq holds
  BY DEF PostTypes, Nested
<1>4. \A n : n \in P!Unread(holds) <=> <<"unread", n>> \in holds /\ Sort[n] = route /\ n \in Notices
  <2>1. \A n : n \in P!Has("unread", holds) <=> <<"unread", n>> \in holds
    BY <1>3, PostHas
  <2>2. \A n : <<"unread", n>> \in holds => n \in Notices
    BY <1>3 DEF P!Facts
  <2>. QED
    BY <2>1, <2>2 DEF P!Unread
<1>5. \A n : n \in P!Newest(P!Unread(holds)) <=>
                /\ n \in P!Unread(holds)
                /\ Cardinality({u \in P!Unread(holds) : u > n}) < most
  BY RowsWords DEF P!Newest
<1>6. \A n \in Notices : Mention[n] # Zero <=> Mention[n] \in Comments
  BY DEF P!PostReadsAssumption
<1>7. PostTypes'
  BY <1>1, <1>2 DEF PostTypes, PostQuiet, Nested, RowsTypes
<1>8. PostStages'
  BY <1>1, <1>2 DEF PostStages, PostQuiet
<1>9. PostPending'
  <2>1. \A n \in pending' : /\ n \in Notices /\ Sort[n] = route /\ Mention[n] \in Comments
                            /\ <<"unread", n>> \in ever
    BY <1>1, <1>3, <1>4, <1>5, <1>6
  <2>2. ASSUME NEW n \in Notices, <<"unread", n>> \in always, Sort[n] = route,
               Mention[n] \in Comments, n \notin pending'
        PROVE  Cardinality(UnreadAbove(n)) >= most
    <3>1. n \in P!Unread(holds) /\ ~(Cardinality({u \in P!Unread(holds) : u > n}) < most)
      BY <1>1, <1>3, <1>4, <1>5, <1>6, <2>2
    <3>2. /\ UnreadAbove(n) = {u \in Notices : <<"unread", u>> \in ever /\ Sort[u] = route
                                                       /\ u > n}
          /\ IsFiniteSet(UnreadAbove(n))
      BY AboveIsFinite DEF PostTypes
    <3>3. {u \in P!Unread(holds) : u > n} \subseteq UnreadAbove(n)
      BY <1>3, <1>4, <3>2
    <3>4. most \in Nat
      BY DEF PostTypes
    <3>. QED
      BY <3>1, <3>2, <3>3, <3>4, PushedOut
  <2>3. \A n : UnreadAbove(n)' = UnreadAbove(n)
    BY <1>1 DEF UnreadAbove, P!Unread, PostQuiet
  <2>4. RowsSound'
    BY <1>1 DEF PostPending, RowsSound, PostQuiet
  <2>5. stage' = "shown" => RowsDue({Mention[n] : n \in pending})'
    BY <1>2 DEF RowsDue
  <2>6. /\ UNCHANGED <<route, most, ever, always>>
        /\ stage' \in {"posts", "handles", "shown"} => stage' = "shown"
    BY <1>1, <1>2 DEF PostQuiet
  <2>. QED
    BY <2>1, <2>2, <2>3, <2>4, <2>5, <2>6 DEF PostPending
<1>10. listed' = <<>> /\ signed' = {} /\ handled' = {}
  BY <1>1 DEF PostListed, PostNames
<1>11. PostListed'
  <2>1. Range(listed') = {} /\ DOMAIN listed' = {}
    BY <1>10 DEF Range
  <2>2. stage' \in {"handles", "shown"} => pending' = {}
    BY <1>2
  <2>. QED
    BY <1>1, <1>2, <1>10, <2>1, <2>2 DEF PostListed, PostQuiet
<1>12. PostNames'
  BY <1>10 DEF PostNames
<1>. QED
  BY <1>7, <1>8, <1>9, <1>11, <1>12

LEMMA PostRowsKeep ==
    ASSUME M!CommentRowsAssumption, P!PostReadsAssumption, PostInv, P!LoadRows \/ P!LoadAccess
    PROVE  PostInv'
<1>. USE DEF PostInv
<1>. DEFINE wanted == {Mention[n] : n \in pending}
<1>1. /\ PostQuiet /\ stage' = "posts" /\ UNCHANGED <<pending, listed, signed, handled>>
      /\ \/ stage = "rows" /\ M!FindRows(wanted)
         \/ stage = "posts" /\ M!AskPost
  BY SameRowSteps DEF P!LoadRows, P!LoadAccess, P!request, P!world, P!reading, PostQuiet
<1>2. route # "thread"
  BY <1>1 DEF PostStages
<1>3. RowsTypes' /\ RowsSound' /\ RowsDue(wanted)'
  <2>0. RowsTypes /\ Nested /\ RowsSound /\ UNCHANGED <<holds, ever, always, pending>>
    BY <1>1 DEF PostTypes, PostPending, PostQuiet
  <2>1. CASE stage = "rows" /\ M!FindRows(wanted)
    <3>1. PICK w : w = wanted
      OBVIOUS
    <3>2. M!FindRows(w)
      BY <2>1, <3>1
    <3>3. RowsTypes' /\ RowsSound' /\ RowsDue(w)'
      BY <2>0, <3>2, RowsFound
    <3>. QED
      BY <2>0, <3>1, <3>3 DEF RowsDue
  <2>2. CASE stage = "posts" /\ M!AskPost
    <3>1. PICK w : w = wanted
      OBVIOUS
    <3>2. RowsTypes' /\ RowsSound' /\ (RowsDue(w) => RowsDue(w)')
      BY <2>0, <2>2, PostAsked
    <3>3. RowsDue(wanted)
      BY <1>2, <2>2 DEF PostPending
    <3>. QED
      BY <2>0, <3>1, <3>2, <3>3 DEF RowsDue
  <2>. QED
    BY <1>1, <2>1, <2>2
<1>4. PostTypes'
  BY <1>1, <1>3 DEF PostTypes, PostQuiet, Nested
<1>5. PostStages'
  BY <1>1, <1>2 DEF PostStages, PostQuiet
<1>6. PostPending'
  <2>1. \A n : UnreadAbove(n)' = UnreadAbove(n)
    BY <1>1 DEF UnreadAbove, P!Unread, PostQuiet
  <2>. QED
    BY <1>1, <1>3, <2>1 DEF PostPending, PostQuiet
<1>7. PostListed' /\ PostNames'
  BY <1>1, NothingListedYet
<1>. QED
  BY <1>4, <1>5, <1>6, <1>7

LEMMA ResolveNoticesKeeps ==
    ASSUME P!PostReadsAssumption, PostInv, P!Resolve
    PROVE  PostInv'
<1>. USE DEF PostInv
<1>. DEFINE kept == {n \in pending : P!Resolved(n)}
<1>1. /\ PostQuiet /\ stage = "posts" /\ stage' = "handles" /\ toAsk = {}
      /\ listed' \in P!Descending(kept)
      /\ signed' = {n \in kept : Mention[n] \in Comments \ Anonymous}
      /\ UNCHANGED <<posts, communities, rows, toAsk, open, pending, handled>>
  BY DEF P!Resolve, P!request, P!world, P!scope, P!looking, P!Signed, PostQuiet
<1>2. route # "thread" /\ handled = {}
  BY <1>1 DEF PostStages, PostNames
<1>3. kept \subseteq Notices /\ IsFiniteSet(kept)
  <2>1. kept \subseteq Notices
    BY DEF PostPending
  <2>2. IsFiniteSet(Notices)
    BY DEF P!PostReadsAssumption, P!IsFiniteSet, IsFiniteSet
  <2>. QED
    BY <2>1, <2>2, FS_Subset
<1>4. \A n : P!Resolved(n)' <=> P!Resolved(n)
  BY <1>1 DEF P!Resolved, P!Kept, PostQuiet
<1>5. kept' = kept
  BY <1>1, <1>4
<1>. HIDE DEF kept
<1>6. /\ listed' \in Orders(kept)
      /\ \A i, j \in DOMAIN listed' : i < j => listed'[j] < listed'[i]
  BY <1>1, RowsWords DEF P!Descending, P!Orders, Orders, P!Injection, Injection,
           P!IsInjective, IsInjective
<1>7. listed' \in Seq(kept) /\ Range(listed') = kept
  BY <1>3, <1>6, OrdersHave
<1>8. PostTypes'
  BY <1>1 DEF PostTypes, PostQuiet, Nested, RowsTypes
<1>9. PostStages'
  BY <1>1, <1>2 DEF PostStages, PostQuiet
<1>10. PostPending'
  BY <1>1, PendingAsItIs
<1>11. PostListed'
  <2>1. \A i \in DOMAIN listed' : listed'[i] \in Nat
    <3>1. \A i \in DOMAIN listed' : listed'[i] \in kept
      BY <1>7
    <3>2. Notices \subseteq Nat
      BY DEF P!PostReadsAssumption
    <3>. QED
      BY <1>3, <3>1, <3>2
  <2>2. \A i, j \in DOMAIN listed' : i < j => ~(listed'[i] < listed'[j])
    BY <1>6, <2>1
  <2>3. route' # "thread" /\ stage' = "handles" /\ toAsk' = {}
    BY <1>1, <1>2 DEF PostQuiet
  <2>4. Range(listed') = {n \in pending' : P!Resolved(n)'}
    BY <1>5, <1>7 DEF kept
  <2>. QED
    BY <2>2, <2>3, <2>4 DEF PostListed
<1>12. PostNames'
  <2>1. \A t \in signed' : t \in Notices /\ Mention[t] \in Comments \ Anonymous
    BY <1>1, <1>3
  <2>. QED
    BY <1>1, <1>2, <2>1 DEF PostNames, P!Written
<1>. QED
  BY <1>8, <1>9, <1>10, <1>11, <1>12

LEMMA HandlesKeeps ==
    ASSUME PostInv, P!Handles
    PROVE  PostInv'
<1>. USE DEF PostInv
<1>1. /\ PostQuiet /\ stage = "handles" /\ stage' = "shown" /\ handled' \subseteq signed
      /\ UNCHANGED <<posts, communities, rows, toAsk, open, pending, listed, signed>>
  BY DEF P!Handles, P!request, P!world, P!scope, P!looking, PostQuiet
<1>2. PostTypes' /\ PostStages'
  BY <1>1 DEF PostTypes, PostStages, PostQuiet, Nested, RowsTypes
<1>3. PostPending'
  BY <1>1, PendingAsItIs
<1>4. PostListed'
  <2>1. \A n : /\ P!Resolved(n)' <=> P!Resolved(n)
               /\ CommentsAbove(n)' = CommentsAbove(n)
    BY <1>1 DEF P!Resolved, P!Kept, PostQuiet, CommentsAbove
  <2>. QED
    BY <1>1, <2>1 DEF PostListed, PostQuiet
<1>5. PostNames'
  BY <1>1 DEF PostNames
<1>. QED
  BY <1>2, <1>3, <1>4, <1>5

LEMMA PostFailsKeeps ==
    ASSUME PostInv, P!Fails
    PROVE  PostInv'
<1>. USE DEF PostInv
<1>1. /\ PostQuiet /\ stage \notin {"handles", "shown"} /\ stage' = "failed"
      /\ UNCHANGED <<posts, communities, rows, toAsk, open, pending, listed, signed, handled>>
  BY DEF P!Fails, P!request, P!world, P!scope, P!looking, P!reading, PostQuiet
<1>2. PostTypes' /\ PostStages'
  BY <1>1 DEF PostTypes, PostStages, PostQuiet, Nested, RowsTypes
<1>3. PostPending'
  BY <1>1, PendingAsItIs
<1>4. PostListed' /\ PostNames'
  BY <1>1, NothingListedYet
<1>. QED
  BY <1>2, <1>3, <1>4

LEMMA PostKeeps ==
    ASSUME M!CommentRowsAssumption, P!PostReadsAssumption, PostInv, P!Next
    PROVE  PostInv'
BY PostOthersKeep, AccessKeeps, LoadCommentsKeeps, FindNoticesKeeps, PostRowsKeep,
   ResolveNoticesKeeps, HandlesKeeps, PostFailsKeeps DEF P!Next

LEMMA PostServes ==
    ASSUME serving = "posts"
    PROVE  /\ Entry = P!Entry /\ Answer = P!Answer /\ Shown = P!Shown
           /\ \A t : Ways(t) = IF t \in Comments \cup Notices THEN P!Ways(t) ELSE {}
           /\ NothingSkipped <=> P!NothingSkipped
BY DEF Entry, Answer, Shown, Ways, NothingSkipped

LEMMA PostSteps ==
    ASSUME M!CommentRowsAssumption, P!PostReadsAssumption, PostInv, P!Next
    PROVE  /\ ~P!Answered /\ UNCHANGED route
           /\ \/ /\ Grown /\ ever' \subseteq P!Facts /\ UNCHANGED <<stage, listed>>
              \/ UNCHANGED <<ever, always>>
<1>1. CASE P!Others
  BY <1>1, PostOthersWrite DEF PostInv
<1>2. CASE ~P!Others
  BY <1>2 DEF P!Next, P!Access, P!LoadPost, P!LoadComments, P!FindNotices, P!LoadRows,
     P!LoadAccess, P!Resolve, P!Handles, P!Fails, P!Answered, P!request, P!world
<1>. QED
  BY <1>1, <1>2

\* Each route has ways of its own.
LEMMA PostWays ==
    ASSUME P!PostReadsAssumption, PostTypes, NEW t
    PROVE  P!Ways(t) =
              IF route = "thread"
              THEN IF t \in Comments /\ PostOf[t] = Post
                   THEN {{<<"readable", Post>>, <<"comment", t>>}} ELSE {}
              ELSE IF /\ t \in Notices /\ Sort[t] = route /\ Mention[t] \in Comments \ Empty
                      /\ (route = "replies" => Mention[t] \in Answers)
                   THEN {{<<"unread", t>>, <<"comment", Mention[t]>>,
                          <<"readable", PostOf[Mention[t]]>>}}
                   ELSE {}
<1>1. t \in Notices => Sort[t] # "thread"
  BY DEF P!PostReadsAssumption
<1>2. CASE route = "thread"
  BY <1>1, <1>2 DEF P!Ways
<1>3. CASE route # "thread"
  BY <1>3 DEF P!Ways
<1>. QED
  BY <1>2, <1>3

\* What is in the answer was allowed.
LEMMA PostTellsNoMore ==
    ASSUME P!PostReadsAssumption, PostInv, stage = "shown", NEW t \in Range(listed)
    PROVE  t \in Comments \cup Notices /\ \E way \in P!Ways(t) : way \subseteq ever
<1>. USE DEF PostInv
<1>1. CASE route = "thread"
  <2>1. t \in Comments /\ PostOf[t] = Post /\ <<"comment", t>> \in ever
    BY <1>1 DEF PostListed
  <2>2. <<"readable", Post>> \in ever
    BY <1>1 DEF PostStages
  <2>3. P!Ways(t) = {{<<"readable", Post>>, <<"comment", t>>}}
    BY <1>1, <2>1, PostWays
  <2>. QED
    BY <2>1, <2>2, <2>3
<1>2. CASE route # "thread"
  <2>1. t \in pending /\ P!Resolved(t)
    BY <1>2 DEF PostListed
  <2>2. t \in Notices /\ Sort[t] = route /\ Mention[t] \in Comments /\ <<"unread", t>> \in ever
    BY <2>1 DEF PostPending
  <2>3. /\ Mention[t] \in rows /\ PostOf[Mention[t]] \in open /\ Mention[t] \notin Empty
        /\ route = "replies" => Mention[t] \in Answers
    BY <2>1 DEF P!Resolved, P!Kept
  <2>4. <<"comment", Mention[t]>> \in ever /\ <<"readable", PostOf[Mention[t]]>> \in ever
    BY <2>3 DEF PostPending, RowsSound
  <2>5. P!Ways(t) = {{<<"unread", t>>, <<"comment", Mention[t]>>,
                      <<"readable", PostOf[Mention[t]]>>}}
    BY <1>2, <2>2, <2>3, PostWays
  <2>. QED
    BY <2>2, <2>4, <2>5
<1>. QED
  BY <1>1, <1>2

LEMMA PostJustified ==
    ASSUME ReadsAssumption, serving = "posts", PostInv
    PROVE  Justified
<1>0. P!PostReadsAssumption
  BY DEF ReadsAssumption
<1>1. /\ Entry = P!Entry /\ Answer = P!Answer
      /\ Shown = IF stage = "shown" THEN Range(listed) ELSE {}
      /\ \A t : Ways(t) = IF t \in Comments \cup Notices THEN P!Ways(t) ELSE {}
  BY PostServes, RowsWords DEF P!Shown
<1>2. /\ Answer \in {"none", "shown", "refused", "failed"}
      /\ Answer = "shown" <=> stage = "shown"
      /\ Answer = "refused" => stage = "refused"
  BY <1>1 DEF P!Answer, P!Answered
<1>3. Answer # "shown" => Shown = {}
  BY <1>1, <1>2
<1>4. ASSUME Answer = "shown"
      PROVE  In(ever) /\ \A t \in Shown : t \in Things /\ May(t, ever)
  <2>1. In(ever)
    BY <1>1, <1>2, <1>4 DEF In, Guard!Entitled, P!Entry, PostInv, PostStages
  <2>2. ASSUME NEW t \in Range(listed)  PROVE t \in Things /\ May(t, ever)
    <3>1. t \in Comments \cup Notices /\ \E way \in P!Ways(t) : way \subseteq ever
      BY <1>0, <1>2, <1>4, PostTellsNoMore
    <3>. QED
      BY <1>1, <3>1 DEF May, Guard!Entitled, Things
  <2>. QED
    BY <1>1, <1>2, <1>4, <2>1, <2>2
<1>5. Answer = "refused" => ~In(always)
  BY <1>1, <1>2 DEF In, Guard!Entitled, P!Entry, PostInv, PostStages
<1>. QED
  BY <1>2, <1>3, <1>4, <1>5 DEF Justified

LEMMA PostGoes ==
    ASSUME ReadsAssumption, serving = "posts", serving' = serving, PostInv, P!Next
    PROVE  Goes
<1>1. /\ Entry = P!Entry /\ Answer = P!Answer /\ Shown = P!Shown
      /\ Entry' = P!Entry' /\ Answer' = P!Answer' /\ Shown' = P!Shown'
      /\ \A t : Ways(t) = IF t \in Comments \cup Notices THEN P!Ways(t) ELSE {}
      /\ \A t : Ways(t)' = IF t \in Comments \cup Notices THEN P!Ways(t)' ELSE {}
  BY PostServes DEF Entry, Answer, Shown, Ways
<1>2. /\ ~P!Answered /\ UNCHANGED route
      /\ \/ /\ Grown /\ ever' \subseteq P!Facts /\ UNCHANGED <<stage, listed>>
         \/ UNCHANGED <<ever, always>>
  BY PostSteps DEF ReadsAssumption, M!ModerationAssumption
<1>3. P!Entry' = P!Entry /\ \A t : P!Ways(t)' = P!Ways(t)
  BY <1>2 DEF P!Entry, P!Ways
<1>4. Still
  BY <1>1, <1>3 DEF Still
<1>5. P!Answer = "none"
  BY <1>2 DEF P!Answer
<1>6. UNCHANGED <<stage, listed>> => UNCHANGED <<P!Answer, P!Shown>>
  BY DEF P!Answer, P!Answered, P!Shown
<1>. QED
  BY <1>1, <1>2, <1>4, <1>5, <1>6 DEF Goes, Grown, Facts

LEMMA PostSkipsNothing ==
    ASSUME P!PostReadsAssumption, PostInv
    PROVE  P!NothingSkipped
<1>. USE DEF PostInv
<1>. SUFFICES ASSUME stage = "shown" PROVE P!NothingSkipped
  BY DEF P!NothingSkipped
<1>1. \A i, j \in DOMAIN listed : i < j => (listed[i] < listed[j] <=> route = "thread")
  BY DEF PostListed
<1>2. ASSUME NEW t \in Comments \cup Notices, NEW way \in P!Ways(t), way \subseteq always,
             t \notin Range(listed)
      PROVE  Cardinality(IF route = "thread" THEN CommentsAbove(t) ELSE UnreadAbove(t)) >= most
  <2>1. CASE route = "thread"
    <3>1. t \in Comments /\ PostOf[t] = Post /\ <<"comment", t>> \in always
      BY <1>2, <2>1, PostWays
    <3>2. Cardinality(CommentsAbove(t)) >= most
      BY <1>2, <2>1, <3>1 DEF PostListed
    <3>. QED
      BY <2>1, <3>2
  <2>2. CASE route # "thread"
    <3>1. /\ t \in Notices /\ Sort[t] = route /\ Mention[t] \in Comments \ Empty
          /\ route = "replies" => Mention[t] \in Answers
          /\ <<"unread", t>> \in always /\ <<"comment", Mention[t]>> \in always
          /\ <<"readable", PostOf[Mention[t]]>> \in always
      BY <1>2, <2>2, PostWays
    <3>2. ASSUME t \in pending PROVE FALSE
      <4>1. toAsk = {} /\ RowsDue({Mention[n] : n \in pending})
        BY <2>2, <3>2 DEF PostListed, PostPending
      <4>2. Mention[t] \in rows /\ PostOf[Mention[t]] \in open
        BY <3>1, <3>2, <4>1 DEF RowsDue
      <4>3. P!Resolved(t)
        BY <3>1, <4>2 DEF P!Resolved, P!Kept
      <4>. QED
        BY <1>2, <2>2, <3>2, <4>3 DEF PostListed
    <3>3. Cardinality(UnreadAbove(t)) >= most
      BY <2>2, <3>1, <3>2 DEF PostPending
    <3>. QED
      BY <2>2, <3>3
  <2>. QED
    BY <2>1, <2>2
<1>3. ASSUME NEW t
      PROVE  /\ CommentsAbove(t) = {c \in P!Has("comment", ever) : c > t /\ PostOf[c] = Post}
             /\ UnreadAbove(t) = {n \in P!Unread(ever) : n > t}
  BY DEF CommentsAbove, UnreadAbove
<1>4. P!Range(listed) = Range(listed)
  BY RowsWords
<1>5. \A U : P!Cardinality(U) = Cardinality(U)
  BY RowsWords
<1>6. \A t \in Comments \cup Notices :
          /\ \E way \in P!Ways(t) : way \subseteq always
          /\ t \notin P!Range(listed)
          => P!Cardinality(IF route = "thread" THEN CommentsAbove(t) ELSE UnreadAbove(t)) >= most
  BY <1>2, <1>4, <1>5
<1>. QED
  BY <1>1, <1>3, <1>6 DEF P!NothingSkipped

LEMMA PostOpens ==
    ASSUME ReadsAssumption, serving = "posts", P!Init
    PROVE  Opens
<1>1. /\ Entry = P!Entry /\ Answer = P!Answer /\ Shown = P!Shown
      /\ \A t : Ways(t) = IF t \in Comments \cup Notices THEN P!Ways(t) ELSE {}
  BY PostServes
<1>2. P!PostReadsAssumption /\ M!CommentRowsAssumption
  BY DEF ReadsAssumption, M!ModerationAssumption
<1>3. PostInv
  BY <1>2, PostStarts
<1>4. /\ \A p \in Posts : <<"readable", p>> \in P!Facts
      /\ \A c \in Comments : <<"comment", c>> \in P!Facts /\ PostOf[c] \in Posts
      /\ \A n \in Notices : <<"unread", n>> \in P!Facts
      /\ Post \in Posts
  BY <1>2 DEF P!Facts, P!PostReadsAssumption, M!CommentRowsAssumption
<1>5. P!Entry \subseteq SUBSET P!Facts
  BY <1>4 DEF P!Entry
<1>6. ASSUME NEW t  PROVE P!Ways(t) \subseteq SUBSET P!Facts
  <2>1. CASE route = "thread" /\ t \in Comments /\ PostOf[t] = Post
    <3>1. P!Ways(t) = {{<<"readable", Post>>, <<"comment", t>>}}
      BY <1>2, <1>3, <2>1, PostWays DEF PostInv
    <3>. QED
      BY <1>4, <2>1, <3>1
  <2>2. CASE /\ route # "thread" /\ t \in Notices /\ Mention[t] \in Comments
             /\ P!Ways(t) = {{<<"unread", t>>, <<"comment", Mention[t]>>,
                              <<"readable", PostOf[Mention[t]]>>}}
    BY <1>4, <2>2
  <2>3. CASE P!Ways(t) = {}
    BY <2>3
  <2>. QED
    BY <1>2, <1>3, <2>1, <2>2, <2>3, PostWays DEF PostInv
<1>7. ever \subseteq P!Facts /\ always = ever
  BY <1>3 DEF PostInv, PostTypes, P!Init, P!WorldInit
<1>8. P!Answer = "none" /\ P!Shown = {}
  BY DEF P!Init, P!Answer, P!Answered, P!Shown
<1>. QED
  BY <1>1, <1>5, <1>6, <1>7, <1>8 DEF Opens, Facts

(***************************************************************************)
(* The announcement.  Whoever is told had a ground when it was read, and   *)
(* whoever had one throughout is told or was lost to a failure.            *)
(***************************************************************************)
\* Who may be told: whose ground was there at some moment.
Grounded == A!Are("contact", ever) \cup A!Are("partner", ever)

\* Nobody is on the way to be told without a ground, and none of those whose
\* ground lasts is dropped on the way but by a failure.
Witnessed ==
    /\ holds \subseteq ever /\ ever \subseteq A!Facts /\ always \subseteq holds
    /\ stage \in {"contacts", "partners", "sign", "publish"}
    /\ saying \in BOOLEAN /\ dot \in [People -> BOOLEAN]
    /\ seen \subseteq Grounded \cup {Self} /\ left \subseteq Grounded
    /\ \A p \in People : dot[p] = saying => p \in Grounded
    /\ stage # "publish" => left = {}

StillDue ==
    /\ stage # "contacts" /\ "contacts" \notin lost => A!Are("contact", always) \subseteq seen
    /\ stage \in {"sign", "publish"} /\ "partners" \notin lost
          => A!Are("partner", always) \subseteq seen
    /\ stage = "publish" /\ "frame" \notin lost
          => \A p \in People \cap seen : p \in left \/ p \in lost \/ dot[p] = saying

ScopeInv == Witnessed /\ StillDue

LEMMA ScopeStarts ==
    ASSUME A!Init
    PROVE  ScopeInv
<1>1. Witnessed
  BY DEF A!Init, A!WorldInit, Witnessed
<1>2. StillDue
  BY DEF A!Init, StillDue
<1>. QED
  BY <1>1, <1>2 DEF ScopeInv

\* What has been read stays read, and what has held has held.
LEMMA ScopeWorld ==
    ASSUME Witnessed, A!Next
    PROVE  /\ ever \subseteq ever' /\ ever' \subseteq A!Facts
           /\ always' \subseteq always /\ always' \subseteq holds' /\ holds' \subseteq ever'
           /\ Grounded \subseteq Grounded'
           /\ ~A!Others => UNCHANGED <<holds, ever, always, changes>>
<1>1. CASE A!Others
  <2>1. PICK facts : /\ facts \subseteq A!Facts
                     /\ holds' = facts /\ ever' = ever \cup facts
                     /\ always' = always \cap facts
    BY <1>1 DEF A!Others, A!Becomes, Witnessed
  <2>. QED
    BY <1>1, <2>1 DEF Witnessed, Grounded, A!Are
<1>2. CASE ~A!Others
  <2>1. UNCHANGED <<holds, ever, always, changes>>
    BY <1>2 DEF A!Next, A!AskContacts, A!ContactsFail, A!AskPartners, A!PartnersFail,
                A!Sign, A!SignFails, A!Publish, A!world
  <2>. QED
    BY <2>1 DEF Witnessed, Grounded
<1>. QED
  BY <1>1, <1>2

LEMMA WitnessedKeeps ==
    ASSUME A!ScopeAssumption, Witnessed, A!Next
    PROVE  Witnessed'
<1>1. CASE A!Others
  BY <1>1, ScopeWorld DEF A!Others, Witnessed, A!Next
<1>2. CASE A!AskContacts \/ A!ContactsFail
  BY <1>2 DEF A!AskContacts, A!ContactsFail, A!world, A!Are, Witnessed, Grounded
<1>3. CASE A!AskPartners \/ A!PartnersFail
  BY <1>3 DEF A!AskPartners, A!PartnersFail, A!Conversing, A!world, A!Are, Witnessed, Grounded
<1>4. CASE A!Sign \/ A!SignFails
  BY <1>4 DEF A!Sign, A!SignFails, A!Recipients, A!world, Witnessed, Grounded
<1>5. CASE A!Publish
  <2>1. /\ UNCHANGED <<holds, ever, always, saying, stage, seen>>
        /\ stage = "publish" \/ left = {}
        /\ \E p \in left : /\ left' = left \ {p}
                           /\ dot' = [dot EXCEPT ![p] = saying] \/ dot' = dot
    BY <1>5 DEF A!Publish, A!world, Witnessed
  <2>. QED
    BY <2>1 DEF Witnessed, Grounded
<1>. QED
  BY <1>1, <1>2, <1>3, <1>4, <1>5 DEF A!Next

LEMMA StillDueKeeps ==
    ASSUME A!ScopeAssumption, Witnessed, StillDue, A!Next
    PROVE  StillDue'
<1>1. CASE A!Others
  <2>1. UNCHANGED <<saying, stage, seen, left, dot, lost>> /\ always' \subseteq always
    BY <1>1, ScopeWorld DEF A!Others, A!Next
  <2>. QED
    BY <2>1 DEF StillDue, A!Are
<1>2. CASE A!AskContacts \/ A!ContactsFail
  BY <1>2 DEF A!AskContacts, A!ContactsFail, A!world, A!Are, Witnessed, StillDue
<1>3. CASE A!AskPartners \/ A!PartnersFail
  BY <1>3 DEF A!AskPartners, A!PartnersFail, A!Conversing, A!world, A!Are, Witnessed, StillDue
<1>4. CASE A!Sign \/ A!SignFails
  BY <1>4 DEF A!Sign, A!SignFails, A!Recipients, A!world, A!Are, StillDue,
              A!ScopeAssumption
<1>5. CASE A!Publish
  <2>1. PICK p \in left : /\ left' = left \ {p}
                          /\ \/ dot' = [dot EXCEPT ![p] = saying] /\ lost' = lost
                             \/ lost' = lost \cup {p} /\ dot' = dot
    BY <1>5 DEF A!Publish
  <2>2. UNCHANGED <<always, saying, stage, seen>>
    BY <1>5 DEF A!Publish, A!world
  <2>3. \A q \in People : q # p => dot'[q] = dot[q]
    BY <2>1 DEF Witnessed
  <2>4. p \in People => dot'[p] = saying \/ p \in lost'
    BY <2>1 DEF Witnessed
  <2>. QED
    BY <2>1, <2>2, <2>3, <2>4 DEF StillDue, A!Are
<1>. QED
  BY <1>1, <1>2, <1>3, <1>4, <1>5 DEF A!Next
LEMMA ScopeKeeps ==
    ASSUME A!ScopeAssumption, ScopeInv, A!Next
    PROVE  ScopeInv'
BY WitnessedKeeps, StillDueKeeps DEF ScopeInv

LEMMA ScopeServes ==
    ASSUME serving = "scope"
    PROVE  /\ Entry = A!Entry /\ Answer = A!Answer /\ Shown = A!Shown
           /\ \A t : Ways(t) = IF t \in People THEN A!Ways(t) ELSE {}
           /\ NothingSkipped <=> A!NothingSkipped
BY DEF Entry, Answer, Shown, Ways, NothingSkipped

LEMMA ScopeJustified ==
    ASSUME serving = "scope", ScopeInv
    PROVE  Justified
<1>1. /\ Entry = {{}} /\ Answer = IF A!Told THEN "shown" ELSE "none"
      /\ Shown = IF A!Told THEN {p \in People : dot[p] = saying} ELSE {}
      /\ \A t : Ways(t) = IF t \in People THEN A!Ways(t) ELSE {}
  BY ScopeServes DEF A!Entry, A!Answer, A!Shown
<1>2. In(ever)
  BY <1>1 DEF In, Guard!Entitled
<1>3. ASSUME NEW p \in People, dot[p] = saying  PROVE p \in Things /\ May(p, ever)
  <2>1. <<"contact", p>> \in ever \/ <<"partner", p>> \in ever
    BY <1>3 DEF ScopeInv, Witnessed, Grounded, A!Are
  <2>2. {<<"contact", p>>} \in Ways(p) /\ {<<"partner", p>>} \in Ways(p)
    BY <1>1, <1>3 DEF A!Ways
  <2>3. CASE <<"contact", p>> \in ever
    <3>1. {<<"contact", p>>} \subseteq ever
      BY <2>3
    <3>. QED
      BY <1>3, <2>2, <3>1 DEF May, Guard!Entitled, Things
  <2>4. CASE <<"partner", p>> \in ever
    <3>1. {<<"partner", p>>} \subseteq ever
      BY <2>4
    <3>. QED
      BY <1>3, <2>2, <3>1 DEF May, Guard!Entitled, Things
  <2>. QED
    BY <2>1, <2>3, <2>4
<1>. QED
  BY <1>1, <1>2, <1>3 DEF Justified

LEMMA ScopeGoes ==
    ASSUME serving = "scope", serving' = serving, ScopeInv, A!Next
    PROVE  Goes
<1>1. /\ Entry = A!Entry /\ Answer = A!Answer /\ Shown = A!Shown
      /\ Entry' = A!Entry' /\ Answer' = A!Answer' /\ Shown' = A!Shown'
      /\ \A t : Ways(t) = IF t \in People THEN A!Ways(t) ELSE {}
      /\ \A t : Ways(t)' = IF t \in People THEN A!Ways(t)' ELSE {}
  BY ScopeServes DEF Entry, Answer, Shown, Ways
<1>2. Still
  BY <1>1 DEF Still, A!Entry, A!Ways
<1>3. ~A!Told
  BY DEF A!Told, A!Next, A!AskContacts, A!ContactsFail, A!AskPartners, A!PartnersFail, A!Sign,
         A!SignFails, A!Publish, A!Others
<1>4. CASE A!Others
  <2>1. /\ ever \subseteq ever' /\ ever' \subseteq A!Facts /\ always' \subseteq always
    BY ScopeWorld DEF ScopeInv
  <2>2. UNCHANGED <<saying, dot, stage, left>>
    BY <1>4 DEF A!Others
  <2>. QED
    BY <1>1, <1>2, <1>3, <2>1, <2>2 DEF Goes, Facts, A!Answer, A!Shown, A!Told
<1>5. CASE ~A!Others
  BY <1>1, <1>2, <1>3, <1>5, ScopeWorld DEF Goes, ScopeInv, A!Answer
<1>. QED
  BY <1>4, <1>5

LEMMA ScopeSkipsNobody ==
    ASSUME ScopeInv
    PROVE  A!NothingSkipped
BY DEF ScopeInv, Witnessed, StillDue, A!NothingSkipped, A!Told, A!Are

LEMMA ScopeOpens ==
    ASSUME serving = "scope", A!Init
    PROVE  Opens
<1>1. /\ Entry = {{}} /\ Answer = A!Answer /\ Shown = A!Shown
      /\ \A t : Ways(t) = IF t \in People THEN A!Ways(t) ELSE {}
  BY ScopeServes DEF A!Entry
<1>2. A!Answer = "none" /\ A!Shown = {}
  BY DEF A!Init, A!Answer, A!Shown, A!Told
<1>3. \A p \in People : A!Ways(p) \subseteq SUBSET A!Facts
  BY DEF A!Ways, A!Facts
<1>4. ever \subseteq A!Facts /\ always = ever
  BY DEF A!Init, A!WorldInit
<1>. QED
  BY <1>1, <1>2, <1>3, <1>4 DEF Opens, Facts

(***************************************************************************)
(* Search.  The query takes the best rows of one moment, and the blocked   *)
(* are dropped of them at another.                                         *)
(***************************************************************************)
SearchTypes ==
    /\ query \in Queries /\ most \in Nat \ {0} /\ standing \in StandingStates
    /\ Nested /\ ever \subseteq S!Facts /\ holds = S!Hold(standing, blocks)
    /\ stage \in {"term", "find", "blocks", "shown", "failed"}
    /\ listed \in Seq(Directory \ {Viewer})

SearchFound ==
    /\ stage \notin {"blocks", "shown"} => listed = <<>>
    /\ \A i \in 1 .. Len(listed) : <<"findable", listed[i]>> \in ever
    /\ stage = "shown" => \A i \in 1 .. Len(listed) : <<"unblocked", listed[i]>> \in ever
    /\ \A i, j \in 1 .. Len(listed) : i < j => ~S!Before(listed[j], listed[i])

Rivals(e) == {f \in Directory \ {Viewer, e} :
                 <<"findable", f>> \in ever /\ S!IsMatch(f) /\ ~S!Before(e, f)}

SearchDue ==
    stage \in {"blocks", "shown"} /\ ~S!TooShort =>
        \A e \in Directory \ {Viewer} :
            /\ {<<"findable", e>>, <<"unblocked", e>>} \subseteq always
            /\ Kind[e] \in S!Wanted /\ S!IsMatch(e)
            /\ e \notin Range(listed)
            => Cardinality(Rivals(e)) >= most

SearchInv == SearchTypes /\ SearchFound /\ SearchDue
-----------------------------------------------------------------------------
LEMMA SearchWords ==
    /\ \A U : S!Cardinality(U) = Cardinality(U)
    /\ \A U : S!Range(U) = Range(U)
    /\ \A U, V : S!Only(U, V) = Only(U, V)
    /\ \A U : S!Orders(U) = Orders(U)
BY DEF S!Cardinality, Cardinality, S!Range, Range, S!Only, Only, S!Orders, Orders, S!Injection,
       Injection, S!IsInjective, IsInjective

LEMMA WhatHolds ==
    ASSUME NEW of, NEW pairs
    PROVE  /\ S!Hold(of, pairs) \subseteq S!Facts
           /\ \A e : <<"findable", e>> \in S!Hold(of, pairs)
                        <=> e \in Directory /\ S!Findable(e, of[e])
           /\ \A e : <<"unblocked", e>> \in S!Hold(of, pairs)
                        <=> e \in Directory \ S!Blocked(pairs)
BY DEF S!Hold, S!Facts

LEMMA RivalsAreFinite ==
    ASSUME S!SearchAssumption, NEW e
    PROVE  IsFiniteSet(Rivals(e)) /\ IsFiniteSet(Directory)
<1>1. IsFiniteSet(Directory)
  BY DEF S!SearchAssumption, S!IsFiniteSet, IsFiniteSet
<1>. QED
  BY <1>1, FS_Subset DEF Rivals

LEMMA SearchStarts ==
    ASSUME S!SearchAssumption, S!Init
    PROVE  SearchInv
<1>1. /\ query \in Queries /\ most \in Pages /\ standing \in StandingStates
      /\ holds = S!Hold(standing, blocks) /\ stage = "term" /\ listed = <<>>
  BY DEF S!Init
<1>2. ever = holds /\ always = holds
  BY DEF S!Init, S!WorldInit
<1>3. SearchTypes
  BY <1>1, <1>2, WhatHolds DEF SearchTypes, Nested, S!SearchAssumption
<1>4. SearchFound
  BY <1>1 DEF SearchFound
<1>. QED
  BY <1>1, <1>3, <1>4 DEF SearchInv, SearchDue

LEMMA SearchOthersWrite ==
    ASSUME SearchTypes, S!Others
    PROVE  /\ ~S!Answered /\ Grown /\ ever' \subseteq S!Facts
           /\ standing' \in StandingStates /\ holds' = S!Hold(standing', blocks')
           /\ UNCHANGED <<query, kinds, most, stage, listed>>
<1>1. /\ ~S!Answered /\ UNCHANGED <<query, kinds, most, stage, listed>>
      /\ holds' = S!Hold(standing', blocks') /\ ever' = ever \cup holds'
      /\ always' = always \cap holds'
  BY DEF S!Others, S!Becomes, S!request
<1>2. standing' \in StandingStates
  BY DEF S!Others, S!Restand, S!Block, SearchTypes
<1>3. holds' \subseteq S!Facts
  BY <1>1, WhatHolds
<1>. QED
  BY <1>1, <1>2, <1>3 DEF Grown, SearchTypes

LEMMA SearchOthersKeep ==
    ASSUME S!SearchAssumption, SearchInv, S!Others
    PROVE  SearchInv'
<1>. USE DEF SearchInv
<1>1. /\ ~S!Answered /\ Grown /\ ever' \subseteq S!Facts
      /\ standing' \in StandingStates /\ holds' = S!Hold(standing', blocks')
      /\ UNCHANGED <<query, kinds, most, stage, listed>>
  BY SearchOthersWrite
<1>2. SearchTypes'
  BY <1>1 DEF SearchTypes, Grown, Nested
<1>3. SearchFound'
  BY <1>1 DEF SearchFound, Grown, S!Before, S!StartsWith, S!Term
<1>4. \A e : S!IsMatch(e)' = S!IsMatch(e) /\ \A f : S!Before(e, f)' = S!Before(e, f)
  BY <1>1 DEF S!IsMatch, S!Before, S!StartsWith, S!Term
<1>5. S!TooShort' = S!TooShort /\ S!Wanted' = S!Wanted
  BY <1>1 DEF S!TooShort, S!Term, S!Wanted
<1>6. \A e : Rivals(e) \subseteq Rivals(e)'
  BY <1>1, <1>4 DEF Rivals, Grown
<1>7. \A e : IsFiniteSet(Rivals(e)')
  <2>1. IsFiniteSet(Directory) /\ \A e : Rivals(e)' \subseteq Directory
    BY RivalsAreFinite DEF Rivals
  <2>. QED
    BY <2>1, FS_Subset
<1>8. most \in Nat /\ most' = most
  BY <1>1 DEF SearchTypes
<1>9. \A e : Cardinality(Rivals(e)) >= most => Cardinality(Rivals(e)') >= most'
  BY <1>6, <1>7, <1>8, MoreThere
<1>10. SearchDue'
  BY <1>1, <1>4, <1>5, <1>9 DEF SearchDue, Grown
<1>. QED
  BY <1>2, <1>3, <1>10
-----------------------------------------------------------------------------
\* What a step of the search's own leaves as it is.
SearchQuiet == UNCHANGED <<query, kinds, most, holds, ever, always, standing, blocks>>

LEMMA SameSearch ==
    ASSUME SearchQuiet
    PROVE  /\ \A e : /\ S!IsMatch(e)' = S!IsMatch(e) /\ Rivals(e)' = Rivals(e)
                     /\ \A f : S!Before(e, f)' = S!Before(e, f)
           /\ S!TooShort' = S!TooShort /\ S!Wanted' = S!Wanted
           /\ SearchTypes /\ stage' \in {"term", "find", "blocks", "shown", "failed"}
              /\ listed' \in Seq(Directory \ {Viewer}) => SearchTypes'
BY DEF SearchQuiet, S!IsMatch, S!Before, S!StartsWith, S!Term, Rivals, S!TooShort, S!Wanted,
   SearchTypes, Nested

LEMMA SearchArriveKeeps ==
    ASSUME SearchInv, S!Arrive
    PROVE  SearchInv'
<1>. USE DEF SearchInv
<1>1. /\ SearchQuiet /\ stage = "term" /\ UNCHANGED listed
      /\ stage' = IF S!TooShort THEN "shown" ELSE "find"
  BY DEF S!Arrive, S!request, S!world, S!stores, SearchQuiet
<1>2. listed' = <<>> /\ stage' \in {"shown", "find"}
  BY <1>1 DEF SearchFound
<1>3. SearchTypes'
  BY <1>1, <1>2, SameSearch DEF SearchTypes
<1>4. SearchFound'
  BY <1>2 DEF SearchFound
<1>5. S!TooShort' = S!TooShort
  BY <1>1, SameSearch
<1>6. SearchDue'
  BY <1>1, <1>5 DEF SearchDue
<1>. QED
  BY <1>3, <1>4, <1>6

\* The first m of a sequence, or all of it.
CutTo(t, s, m) ==
    /\ t \in Seq(Range(s)) /\ Len(t) <= Len(s) /\ (Len(t) = Len(s) \/ Len(t) = m)
    /\ \A i \in 1 .. Len(t) : t[i] = s[i] /\ i \in 1 .. Len(s)

LEMMA CutShort ==
    ASSUME NEW Set, NEW s \in Seq(Set), NEW m \in Nat
    PROVE  CutTo(SubSeq(s, 1, IF Len(s) < m THEN Len(s) ELSE m), s, m)
<1>1. Len(s) \in Nat /\ s \in Seq(Range(s))
  <2>1. DOMAIN s = 1 .. Len(s) /\ Len(s) \in Nat /\ s \in [1 .. Len(s) -> Range(s)]
    BY DEF Range
  <2>. QED
    BY <2>1
<1>2. PICK k \in Nat : k = IF Len(s) < m THEN Len(s) ELSE m
  BY <1>1
<1>3. k <= Len(s) /\ (k = Len(s) \/ k = m)
  BY <1>1, <1>2
<1>4. /\ SubSeq(s, 1, k) \in Seq(Range(s)) /\ Len(SubSeq(s, 1, k)) = k
      /\ \A i \in 1 .. k : SubSeq(s, 1, k)[i] = s[i] /\ i \in 1 .. Len(s)
  BY <1>1, <1>3
<1>5. CutTo(SubSeq(s, 1, k), s, m)
  BY <1>3, <1>4 DEF CutTo
<1>. QED
  BY <1>2, <1>5

\* As many as there are of them.
LEMMA AsManyAs ==
    ASSUME NEW s, NEW n \in Nat, \A i, j \in 1 .. n : i # j => s[i] # s[j]
    PROVE  /\ IsFiniteSet({s[i] : i \in 1 .. n})
           /\ Cardinality({s[i] : i \in 1 .. n}) = n
<1>. DEFINE f == [i \in 1 .. n |-> s[i]]
            U == {s[i] : i \in 1 .. n}
<1>1. f \in [1 .. n -> U] /\ \A i, j \in 1 .. n : f[i] = f[j] => i = j
  OBVIOUS
<1>2. \A b \in U : \E i \in 1 .. n : f[i] = b
  OBVIOUS
<1>3. IsFiniteSet(1 .. n) /\ Cardinality(1 .. n) = n
  BY FS_Interval
<1>. HIDE DEF f, U
<1>4. f \in Bijection(1 .. n, U)
  BY <1>1, <1>2 DEF Bijection, Injection, IsInjective, Surjection
<1>5. IsFiniteSet(U) /\ Cardinality(U) = n
  BY <1>3, <1>4, FS_Bijection DEF ExistsBijection
<1>. QED
  BY <1>5 DEF U

LEMMA FindKeeps ==
    ASSUME S!SearchAssumption, SearchInv, S!Find
    PROVE  SearchInv'
<1>. USE DEF SearchInv
<1>. DEFINE found == S!Candidates(standing)
<1>1. PICK s \in S!Ordered(found) : listed' = SubSeq(s, 1, IF Len(s) < most THEN Len(s) ELSE most)
  BY DEF S!Find
<1>2. /\ SearchQuiet /\ stage = "find" /\ stage' = IF listed' = <<>> THEN "shown" ELSE "blocks"
  BY DEF S!Find, S!request, S!world, S!stores, SearchQuiet
<1>3. found = {e \in Directory \ {Viewer} :
                 S!Findable(e, standing[e]) /\ Kind[e] \in S!Wanted /\ S!IsMatch(e)}
  BY DEF S!Candidates
<1>. HIDE DEF found
<1>4. IsFiniteSet(found)
  <2>1. IsFiniteSet(Directory) /\ found \subseteq Directory
    BY <1>3, RivalsAreFinite
  <2>. QED
    BY <2>1, FS_Subset
<1>5. s \in Orders(found) /\ \A i, j \in DOMAIN s : i < j => ~S!Before(s[j], s[i])
  BY SearchWords DEF S!Ordered
<1>6. /\ s \in Seq(found) /\ Range(s) = found
      /\ \A i, j \in 1 .. Len(s) : i # j => s[i] # s[j]
  BY <1>4, <1>5, OrdersHave
<1>7. DOMAIN s = 1 .. Len(s) /\ Len(s) \in Nat /\ \A i \in 1 .. Len(s) : s[i] \in found
  BY <1>6
<1>0. most \in Nat
  BY DEF SearchTypes
<1>8. CutTo(listed', s, most)
  BY <1>0, <1>1, <1>6, CutShort
<1>9. PICK n \in Nat : n = Len(listed')
  BY <1>6, <1>8 DEF CutTo
<1>10. /\ listed' \in Seq(found) /\ Len(listed') = n /\ DOMAIN listed' = 1 .. n
       /\ n <= Len(s) /\ (n = Len(s) \/ n = most)
       /\ \A i \in 1 .. n : listed'[i] = s[i] /\ i \in 1 .. Len(s)
  BY <1>6, <1>8, <1>9 DEF CutTo
<1>11. SearchTypes'
  <2>1. found \subseteq Directory \ {Viewer}
    BY <1>3
  <2>2. listed' \in Seq(Directory \ {Viewer})
    BY <1>10, <2>1
  <2>. QED
    BY <1>2, <2>2, SameSearch
<1>12. \A e : e \in found => <<"findable", e>> \in ever
  BY <1>3, WhatHolds DEF SearchTypes, Nested
<1>13. SearchFound'
  <2>1. \A i, j \in 1 .. n : i < j => ~S!Before(listed'[j], listed'[i])
    BY <1>5, <1>7, <1>10
  <2>2. \A e, f : S!Before(e, f)' = S!Before(e, f)
    BY <1>2, SameSearch
  <2>3. \A i \in 1 .. n : <<"findable", listed'[i]>> \in ever'
    BY <1>2, <1>7, <1>10, <1>12 DEF SearchQuiet
  <2>4. stage' = "shown" => \A i \in 1 .. n : FALSE
    BY <1>2, <1>10
  <2>5. stage' \in {"blocks", "shown"}
    BY <1>2
  <2>. QED
    BY <1>10, <2>1, <2>2, <2>3, <2>4, <2>5 DEF SearchFound
<1>14. SearchDue'
  <2>. SUFFICES ASSUME NEW e \in Directory \ {Viewer},
                       {<<"findable", e>>, <<"unblocked", e>>} \subseteq always,
                       Kind[e] \in S!Wanted, S!IsMatch(e), e \notin Range(listed')
                PROVE  Cardinality(Rivals(e)) >= most
    BY <1>2, SameSearch DEF SearchDue, SearchQuiet
  <2>1. e \in found
    BY <1>3, WhatHolds DEF SearchTypes, Nested
  <2>2. PICK k \in 1 .. Len(s) : s[k] = e
    BY <1>6, <1>7, <2>1 DEF Range
  <2>3. k \notin 1 .. n
    <3>1. \A i \in 1 .. n : listed'[i] # e
      BY <1>10 DEF Range
    <3>. QED
      BY <1>10, <2>2, <3>1
  <2>4. n = most /\ n < k
    <3>1. k \in Nat /\ n \in Nat /\ k >= 1 /\ k <= Len(s)
      BY <1>7, <1>9, <2>2
    <3>2. n < k
      BY <2>3, <3>1
    <3>3. ASSUME n = Len(s) PROVE FALSE
      <4>1. k <= n
        BY <3>1, <3>3
      <4>. QED
        BY <3>1, <3>2, <4>1
    <3>. QED
      BY <1>10, <3>2, <3>3
  <2>. DEFINE better == {s[i] : i \in 1 .. n}
  <2>5. better \subseteq Rivals(e)
    <3>. SUFFICES ASSUME NEW i \in 1 .. n PROVE s[i] \in Rivals(e)
      OBVIOUS
    <3>1. i \in 1 .. Len(s) /\ i < k
      BY <1>10, <1>7, <2>4
    <3>2. s[i] \in found /\ s[i] # e /\ ~S!Before(e, s[i])
      BY <1>5, <1>6, <1>7, <2>2, <3>1
    <3>. QED
      BY <1>3, <1>12, <3>2 DEF Rivals
  <2>6. IsFiniteSet(better) /\ Cardinality(better) = n
    <3>1. \A i, j \in 1 .. n : i # j => s[i] # s[j]
      BY <1>6, <1>10
    <3>2. n \in Nat
      BY <1>9
    <3>. QED
      BY <3>1, <3>2, AsManyAs
  <2>. HIDE DEF better
  <2>7. Cardinality(better) >= most
    BY <2>4, <2>6
  <2>. QED
    BY <2>4, <2>5, <2>7, RivalsAreFinite, MoreThere
<1>. QED
  BY <1>11, <1>13, <1>14

LEMMA DropBlockedKeeps ==
    ASSUME S!SearchAssumption, SearchInv, S!DropBlocked
    PROVE  SearchInv'
<1>. USE DEF SearchInv
<1>. DEFINE these == Directory \ S!Blocked(blocks)
<1>1. /\ SearchQuiet /\ stage = "blocks" /\ stage' = "shown" /\ listed' = Only(listed, these)
  BY SearchWords DEF S!DropBlocked, S!request, S!world, S!stores, SearchQuiet
<1>2. listed \in Seq(Directory \ {Viewer})
  BY DEF SearchTypes
<1>3. \A e : e \in these <=> <<"unblocked", e>> \in holds
  BY WhatHolds DEF SearchTypes
<1>. HIDE DEF these
<1>4. listed' \in Seq(Directory \ {Viewer}) /\ Selects(listed', listed, these)
  BY <1>1, <1>2, OnlySelects
<1>5. PICK f \in [1 .. Len(listed') -> 1 .. Len(listed)] :
         /\ \A k \in 1 .. Len(listed') : listed'[k] = listed[f[k]] /\ listed'[k] \in these
         /\ \A j, k \in 1 .. Len(listed') : j < k => f[j] < f[k]
         /\ \A k \in 1 .. Len(listed) : listed[k] \in these => \E j \in 1 .. Len(listed') : f[j] = k
  BY <1>4 DEF Selects
<1>6. SearchTypes'
  BY <1>1, <1>4, SameSearch DEF SearchTypes
<1>7. SearchFound'
  <2>1. \A k \in 1 .. Len(listed') : f[k] \in 1 .. Len(listed)
    BY <1>5
  <2>2. \A i \in 1 .. Len(listed') : <<"findable", listed'[i]>> \in ever'
    BY <1>1, <1>5, <2>1 DEF SearchFound, SearchQuiet
  <2>3. \A i \in 1 .. Len(listed') : <<"unblocked", listed'[i]>> \in ever'
    BY <1>1, <1>3, <1>5 DEF SearchTypes, Nested, SearchQuiet
  <2>4. \A i, j \in 1 .. Len(listed') : i < j => ~S!Before(listed'[j], listed'[i])
    BY <1>5, <2>1 DEF SearchFound
  <2>5. \A e, g : S!Before(e, g)' = S!Before(e, g)
    BY <1>1, SameSearch
  <2>. QED
    BY <1>1, <2>2, <2>3, <2>4, <2>5 DEF SearchFound
<1>8. SearchDue'
  <2>. SUFFICES ASSUME ~S!TooShort, NEW e \in Directory \ {Viewer},
                       {<<"findable", e>>, <<"unblocked", e>>} \subseteq always,
                       Kind[e] \in S!Wanted, S!IsMatch(e), e \notin Range(listed')
                PROVE  Cardinality(Rivals(e)) >= most
    BY <1>1, SameSearch DEF SearchDue, SearchQuiet
  <2>1. e \in these
    BY <1>3 DEF SearchTypes, Nested
  <2>2. ASSUME e \in Range(listed)  PROVE FALSE
    <3>1. PICK k \in 1 .. Len(listed) : listed[k] = e
      BY <1>2, <2>2 DEF Range
    <3>2. PICK j \in 1 .. Len(listed') : f[j] = k
      BY <1>5, <2>1, <3>1
    <3>3. listed'[j] = e /\ DOMAIN listed' = 1 .. Len(listed')
      BY <1>4, <1>5, <3>1, <3>2
    <3>. QED
      BY <2>2, <3>2, <3>3 DEF Range
  <2>. QED
    BY <1>1, <2>2 DEF SearchDue
<1>. QED
  BY <1>6, <1>7, <1>8

LEMMA SearchFailsKeeps ==
    ASSUME SearchInv, S!Fails
    PROVE  SearchInv'
<1>. USE DEF SearchInv
<1>1. SearchQuiet /\ stage' = "failed" /\ listed' = <<>>
  BY DEF S!Fails, S!request, S!world, S!stores, SearchQuiet
<1>2. SearchTypes'
  BY <1>1, SameSearch DEF SearchTypes
<1>3. Len(listed') = 0
  BY <1>1
<1>4. \A i \in 1 .. Len(listed') : FALSE
  BY <1>3
<1>5. SearchFound'
  BY <1>1, <1>4 DEF SearchFound
<1>6. SearchDue'
  BY <1>1 DEF SearchDue
<1>. QED
  BY <1>2, <1>5, <1>6

LEMMA SearchKeeps ==
    ASSUME S!SearchAssumption, SearchInv, S!Next
    PROVE  SearchInv'
BY SearchOthersKeep, SearchArriveKeeps, FindKeeps, DropBlockedKeeps, SearchFailsKeeps DEF S!Next
-----------------------------------------------------------------------------
LEMMA SearchServes ==
    ASSUME serving = "search"
    PROVE  /\ Entry = S!Entry /\ Answer = S!Answer /\ Shown = S!Shown
           /\ \A t : Ways(t) = IF t \in Directory THEN S!Ways(t) ELSE {}
           /\ NothingSkipped <=> S!NothingSkipped
BY DEF Entry, Answer, Shown, Ways, NothingSkipped

LEMMA SearchJustified ==
    ASSUME serving = "search", SearchInv
    PROVE  Justified
<1>. USE DEF SearchInv
<1>1. /\ Entry = {{}} /\ Answer = S!Answer
      /\ Shown = IF stage = "shown" THEN Range(listed) ELSE {}
      /\ \A t : Ways(t) = IF t \in Directory THEN S!Ways(t) ELSE {}
  BY SearchServes, SearchWords DEF S!Entry, S!Shown
<1>2. /\ Answer \in {"none", "shown", "failed"}
      /\ Answer = "shown" <=> stage = "shown"
  BY <1>1 DEF S!Answer, S!Answered
<1>3. In(ever)
  BY <1>1 DEF In, Guard!Entitled
<1>4. ASSUME stage = "shown", NEW t \in Range(listed)  PROVE t \in Things /\ May(t, ever)
  <2>1. PICK i \in 1 .. Len(listed) : listed[i] = t
    BY <1>4 DEF Range, SearchTypes
  <2>2. t \in Directory \ {Viewer} /\ <<"findable", t>> \in ever /\ <<"unblocked", t>> \in ever
    BY <1>4, <2>1 DEF SearchTypes, SearchFound
  <2>3. {<<"findable", t>>, <<"unblocked", t>>} \in Ways(t)
    BY <1>1, <2>2 DEF S!Ways
  <2>4. {<<"findable", t>>, <<"unblocked", t>>} \subseteq ever
    BY <2>2
  <2>. QED
    BY <2>2, <2>3, <2>4 DEF May, Guard!Entitled, Things
<1>. QED
  BY <1>1, <1>2, <1>3, <1>4 DEF Justified

LEMMA SearchGoes ==
    ASSUME serving = "search", serving' = serving, SearchInv, S!Next
    PROVE  Goes
<1>1. /\ Entry = S!Entry /\ Answer = S!Answer /\ Shown = S!Shown
      /\ Entry' = S!Entry' /\ Answer' = S!Answer' /\ Shown' = S!Shown'
      /\ \A t : Ways(t) = IF t \in Directory THEN S!Ways(t) ELSE {}
      /\ \A t : Ways(t)' = IF t \in Directory THEN S!Ways(t)' ELSE {}
  BY SearchServes DEF Entry, Answer, Shown, Ways
<1>2. Still
  BY <1>1 DEF Still, S!Entry, S!Ways
<1>3. CASE S!Others
  <2>1. ~S!Answered /\ Grown /\ ever' \subseteq S!Facts /\ UNCHANGED <<stage, listed>>
    BY <1>3, SearchOthersWrite DEF SearchInv
  <2>. QED
    BY <1>1, <1>2, <2>1 DEF Goes, Grown, Facts, S!Answer, S!Answered, S!Shown
<1>4. CASE ~S!Others
  <2>1. ~S!Answered /\ UNCHANGED <<ever, always>>
    BY <1>4 DEF S!Next, S!Arrive, S!Find, S!DropBlocked, S!Fails, S!Answered, S!world
  <2>. QED
    BY <1>1, <1>2, <2>1 DEF Goes, S!Answer
<1>. QED
  BY <1>3, <1>4

LEMMA SearchOpens ==
    ASSUME ReadsAssumption, serving = "search", S!Init
    PROVE  Opens
<1>1. /\ Entry = {{}} /\ Answer = S!Answer /\ Shown = S!Shown
      /\ \A t : Ways(t) = IF t \in Directory THEN S!Ways(t) ELSE {}
  BY SearchServes DEF S!Entry
<1>2. S!Answer = "none" /\ S!Shown = {}
  BY DEF S!Init, S!Answer, S!Answered, S!Shown
<1>3. \A e \in Directory : S!Ways(e) \subseteq SUBSET S!Facts
  BY DEF S!Ways, S!Facts
<1>4. ever \subseteq S!Facts /\ always = ever
  <2>1. holds \subseteq S!Facts
    BY WhatHolds DEF S!Init
  <2>. QED
    BY <2>1 DEF S!Init, S!WorldInit
<1>. QED
  BY <1>1, <1>2, <1>3, <1>4 DEF Opens, Facts

(***************************************************************************)
(* LIKE, for a term without wildcards: with "%" around it, it matches      *)
(* where the text contains the term, and with "%" after it, where the text *)
(* begins with it.                                                         *)
(***************************************************************************)
Means(pattern, j, c) == pattern[j] = c /\ ~S!Escaped(pattern, j)

From(txt, pattern) ==
    LET from[j \in 1 .. Len(pattern) + 1] ==
            IF j > Len(pattern) THEN {Len(txt) + 1}
            ELSE IF Means(pattern, j, "\\") THEN from[j + 1]
            ELSE IF Means(pattern, j, "%")
            THEN {i \in 1 .. Len(txt) + 1 : \E k \in from[j + 1] : i <= k}
            ELSE {i \in 1 .. Len(txt) :
                    (Means(pattern, j, "_") \/ pattern[j] = txt[i]) /\ i + 1 \in from[j + 1]}
    IN  from

\* What is before a set of places, by the pattern's letter before it.
Earlier(txt, pattern, j, places) ==
    IF Means(pattern, j, "\\") THEN places
    ELSE IF Means(pattern, j, "%") THEN {i \in 1 .. Len(txt) + 1 : \E k \in places : i <= k}
    ELSE {i \in 1 .. Len(txt) :
            (Means(pattern, j, "_") \/ pattern[j] = txt[i]) /\ i + 1 \in places}

\* The recursive definition has the value it says at each place.
LEMMA FromEquation ==
    ASSUME NEW W, NEW txt \in Seq(W), NEW pattern \in Seq(W)
    PROVE  /\ S!Like(txt, pattern) <=> 1 \in From(txt, pattern)[1]
           /\ From(txt, pattern)[Len(pattern) + 1] = {Len(txt) + 1}
           /\ \A j \in 1 .. Len(pattern) :
                 From(txt, pattern)[j] = Earlier(txt, pattern, j, From(txt, pattern)[j + 1])
<1>1. S!Like(txt, pattern) <=> 1 \in From(txt, pattern)[1]
  BY DEF S!Like, From, Means
<1>2. PICK m \in Nat : m = Len(pattern)
  OBVIOUS
<1>3. PICK n \in Nat : n = Len(txt)
  OBVIOUS
<1>. DEFINE IsSo(f) == f = [j \in 1 .. Len(pattern) + 1 |->
                IF j > Len(pattern) THEN {Len(txt) + 1}
                ELSE IF Means(pattern, j, "\\") THEN f[j + 1]
                ELSE IF Means(pattern, j, "%")
                THEN {i \in 1 .. Len(txt) + 1 : \E k \in f[j + 1] : i <= k}
                ELSE {i \in 1 .. Len(txt) :
                        (Means(pattern, j, "_") \/ pattern[j] = txt[i]) /\ i + 1 \in f[j + 1]}]
            D == SUBSET (1 .. n + 1)
            F == [p \in (1 .. m) \X D |-> Earlier(txt, pattern, m + 1 - p[1], p[2])]
<1>4. \A i \in 1 .. m, x \in D : F[<<i, x>>] \in D /\ F[<<i, x>>] = Earlier(txt, pattern, m + 1 - i, x)
  <2>. TAKE i \in 1 .. m, x \in D
  <2>1. F[<<i, x>>] = Earlier(txt, pattern, m + 1 - i, x)
    OBVIOUS
  <2>2. Earlier(txt, pattern, m + 1 - i, x) \subseteq 1 .. n + 1
    <3>1. ASSUME NEW j  PROVE Earlier(txt, pattern, j, x) \subseteq 1 .. n + 1
      <4>0. \A k \in 1 .. n : k \in 1 .. n + 1
        OBVIOUS
      <4>1. {k \in 1 .. n : (Means(pattern, j, "_") \/ pattern[j] = txt[k]) /\ k + 1 \in x}
              \subseteq 1 .. n + 1
        BY <4>0, Zenon
      <4>2. {k \in 1 .. n + 1 : \E l \in x : k <= l} \subseteq 1 .. n + 1
        OBVIOUS
      <4>. QED
        BY <1>3, <4>1, <4>2 DEF Earlier
    <3>. QED
      BY <1>3, <3>1
  <2>. QED
    BY <2>1, <2>2
<1>5. {n + 1} \in D
  BY <1>3
<1>. HIDE DEF F, D
<1>6. PICK h \in [0 .. m -> D] : Iterates(h, m, {n + 1}, F)
  BY <1>2, <1>4, <1>5, Iteration
<1>7. PICK f : f = [j \in 1 .. m + 1 |-> h[m + 1 - j]]
  OBVIOUS
<1>8. f[m + 1] = {n + 1}
  BY <1>2, <1>6, <1>7 DEF Iterates
<1>9. \A j \in 1 .. m : f[j] = Earlier(txt, pattern, j, f[j + 1])
  <2>. TAKE j \in 1 .. m
  <2>1. /\ m + 1 - j \in 1 .. m /\ m + 1 - (j + 1) = (m + 1 - j) - 1 /\ m + 1 - (m + 1 - j) = j
        /\ (m + 1 - j) - 1 \in 0 .. m /\ j \in 1 .. m + 1 /\ j + 1 \in 1 .. m + 1
    BY <1>2
  <2>2. f[j] = h[m + 1 - j] /\ f[j + 1] = h[(m + 1 - j) - 1]
    BY <1>7, <2>1
  <2>3. h[m + 1 - j] = F[<<m + 1 - j, h[(m + 1 - j) - 1]>>] /\ h[(m + 1 - j) - 1] \in D
    BY <1>6, <2>1 DEF Iterates
  <2>. QED
    BY <1>4, <2>1, <2>2, <2>3
<1>10. IsSo(f)
  <2>1. f = [j \in 1 .. m + 1 |-> f[j]]
    BY <1>7
  <2>2. \A j \in 1 .. m + 1 :
           f[j] = IF j > m THEN {n + 1}
                  ELSE IF Means(pattern, j, "\\") THEN f[j + 1]
                  ELSE IF Means(pattern, j, "%")
                  THEN {i \in 1 .. n + 1 : \E k \in f[j + 1] : i <= k}
                  ELSE {i \in 1 .. n :
                          (Means(pattern, j, "_") \/ pattern[j] = txt[i]) /\ i + 1 \in f[j + 1]}
    <3>. TAKE j \in 1 .. m + 1
    <3>1. CASE j = m + 1
      <4>1. j > m /\ f[j] = {n + 1}
        BY <1>2, <1>8, <3>1
      <4>. QED
        BY <4>1
    <3>2. CASE j \in 1 .. m
      <4>1. f[j] = Earlier(txt, pattern, j, f[j + 1]) /\ ~(j > m)
        BY <1>9, <3>2
      <4>. QED
        BY <1>3, <4>1 DEF Earlier
    <3>3. j = m + 1 \/ j \in 1 .. m
      BY <1>2
    <3>. QED
      BY <3>1, <3>2, <3>3
  <2>3. f = [j \in 1 .. m + 1 |->
                IF j > m THEN {n + 1}
                ELSE IF Means(pattern, j, "\\") THEN f[j + 1]
                ELSE IF Means(pattern, j, "%")
                THEN {i \in 1 .. n + 1 : \E k \in f[j + 1] : i <= k}
                ELSE {i \in 1 .. n :
                        (Means(pattern, j, "_") \/ pattern[j] = txt[i]) /\ i + 1 \in f[j + 1]}]
    BY <2>1, <2>2
  <2>. QED
    BY <1>2, <1>3, <2>3
<1>11. IsSo(From(txt, pattern))
  BY <1>10 DEF From
<1>. DEFINE g == From(txt, pattern)
<1>12. \A j \in 1 .. Len(pattern) + 1 :
          g[j] = IF j > Len(pattern) THEN {Len(txt) + 1}
                 ELSE IF Means(pattern, j, "\\") THEN g[j + 1]
                 ELSE IF Means(pattern, j, "%")
                 THEN {i \in 1 .. Len(txt) + 1 : \E k \in g[j + 1] : i <= k}
                 ELSE {i \in 1 .. Len(txt) :
                         (Means(pattern, j, "_") \/ pattern[j] = txt[i]) /\ i + 1 \in g[j + 1]}
  BY <1>11
<1>. HIDE DEF IsSo, g
<1>13. g[m + 1] = {n + 1}
  <2>1. m + 1 \in 1 .. Len(pattern) + 1 /\ m + 1 > Len(pattern)
    BY <1>2
  <2>. QED
    BY <1>3, <1>12, <2>1
<1>14. \A j \in 1 .. m : g[j] = Earlier(txt, pattern, j, g[j + 1])
  <2>. TAKE j \in 1 .. m
  <2>1. j \in 1 .. Len(pattern) + 1 /\ ~(j > Len(pattern))
    BY <1>2
  <2>. QED
    BY <1>12, <2>1 DEF Earlier
<1>. QED
  BY <1>1, <1>2, <1>3, <1>13, <1>14 DEF g

\* MatchesAt place i the text goes on with the term from its letter k.
MatchesAt(txt, term, i, k) ==
    /\ i + (Len(term) + 1 - k) <= Len(txt) + 1
    /\ \A l \in k .. Len(term) : txt[i + (l - k)] = term[l]

\* The places where it does.
Places(txt, term, k) == {i \in 1 .. Len(txt) + 1 : MatchesAt(txt, term, i, k)}

Plainly(term) == \A k \in 1 .. Len(term) : term[k] \notin {"%", "_", "\\"}

LEMMA OneLetterMore ==
    ASSUME NEW W, NEW txt \in Seq(W), NEW term \in Seq(W), Plainly(term),
           NEW k \in 1 .. Len(term), NEW pattern, NEW j, pattern[j] = term[k]
    PROVE  Earlier(txt, pattern, j, Places(txt, term, k + 1)) = Places(txt, term, k)
<1>1. PICK t \in Nat : t = Len(term)
  OBVIOUS
<1>2. PICK n \in Nat : n = Len(txt)
  OBVIOUS
<1>0. ~Means(pattern, j, "%") /\ ~Means(pattern, j, "_") /\ ~Means(pattern, j, "\\")
  BY DEF Plainly, Means
<1>3. k \in 1 .. t /\ k \in Nat /\ k <= t
  BY <1>1
<1>. DEFINE after == {i \in 1 .. n + 1 : MatchesAt(txt, term, i, k + 1)}
<1>4. Earlier(txt, pattern, j, after) = {i \in 1 .. n : term[k] = txt[i] /\ i + 1 \in after}
  <2>. HIDE DEF after
  <2>1. \A i \in 1 .. n : Means(pattern, j, "_") \/ pattern[j] = txt[i] <=> term[k] = txt[i]
    BY <1>0
  <2>2. Earlier(txt, pattern, j, after)
          = {i \in 1 .. n : (Means(pattern, j, "_") \/ pattern[j] = txt[i]) /\ i + 1 \in after}
    BY <1>2, <1>0 DEF Earlier
  <2>. QED
    BY <2>1, <2>2, Zenon
<1>5. ASSUME NEW i \in 1 .. n, term[k] = txt[i], MatchesAt(txt, term, i + 1, k + 1)
      PROVE  MatchesAt(txt, term, i, k)
  <2>1. i + (t + 1 - k) <= n + 1
    BY <1>1, <1>2, <1>5 DEF MatchesAt
  <2>0. i \in Nat /\ i <= n
    BY <1>2
  <2>2. ASSUME NEW l \in k .. t  PROVE txt[i + (l - k)] = term[l]
    <3>0. l \in Nat /\ k <= l /\ l <= t
      BY <1>1, <1>3
    <3>1. CASE l = k
      <4>1. i + (l - k) = i
        BY <1>3, <2>0, <3>0, <3>1
      <4>. QED
        BY <1>5, <3>1, <4>1
    <3>2. CASE l # k
      <4>1. l \in k + 1 .. t /\ (i + 1) + (l - (k + 1)) = i + (l - k)
        BY <1>1, <1>3, <2>0, <3>0, <3>2
      <4>. QED
        BY <1>1, <1>5, <4>1 DEF MatchesAt
    <3>. QED
      BY <3>1, <3>2
  <2>. QED
    BY <1>1, <1>2, <2>1, <2>2 DEF MatchesAt
<1>6. ASSUME NEW i \in 1 .. n + 1, MatchesAt(txt, term, i, k)
      PROVE  i \in 1 .. n /\ term[k] = txt[i] /\ i + 1 \in 1 .. n + 1 /\ MatchesAt(txt, term, i + 1, k + 1)
  <2>0. i \in Nat /\ i >= 1
    BY <1>2
  <2>1. i + (t + 1 - k) <= n + 1 /\ \A l \in k .. t : txt[i + (l - k)] = term[l]
    BY <1>1, <1>2, <1>6 DEF MatchesAt
  <2>2. i \in 1 .. n /\ i + 1 \in 1 .. n + 1 /\ (i + 1) + (t + 1 - (k + 1)) <= n + 1
    BY <1>1, <1>2, <1>3, <2>0, <2>1
  <2>3. term[k] = txt[i]
    <3>1. k \in k .. t /\ i + (k - k) = i
      BY <1>1, <1>3, <2>0
    <3>. QED
      BY <2>1, <3>1
  <2>4. ASSUME NEW l \in k + 1 .. t  PROVE txt[(i + 1) + (l - (k + 1))] = term[l]
    <3>0. l \in Nat /\ k + 1 <= l /\ l <= t
      BY <1>1, <1>3
    <3>1. l \in k .. t /\ (i + 1) + (l - (k + 1)) = i + (l - k)
      BY <1>1, <1>3, <2>0, <3>0
    <3>. QED
      BY <2>1, <3>1
  <2>. QED
    BY <1>1, <1>2, <2>2, <2>3, <2>4 DEF MatchesAt
<1>7. {i \in 1 .. n : term[k] = txt[i] /\ i + 1 \in after}
         = {i \in 1 .. n + 1 : MatchesAt(txt, term, i, k)}
  <2>1. \A i \in 1 .. n : i \in 1 .. n + 1
    BY <1>2
  <2>. QED
    BY <1>5, <1>6, <2>1
<1>. QED
  BY <1>2, <1>4, <1>7 DEF Places

\* A pattern that ends with the term and a wildcard.
Trails(pattern, q, term, wild) ==
    /\ Len(pattern) = q + (Len(term) + 1)
    /\ \A k \in 1 .. Len(term) : pattern[q + k] = term[k]
    /\ pattern[q + (Len(term) + 1)] = wild

\* What follows no escape is none's letter.
LEMMA NotEscaped ==
    ASSUME NEW pattern, NEW j \in Nat \ {0}, j > 1 => pattern[j - 1] # "\\"
    PROVE  ~S!Escaped(pattern, j)
<1>. SUFFICES ASSUME NEW k \in 1 .. j, (j - k) % 2 = 1,
                     \A l \in k .. j - 1 : pattern[l] = "\\"
              PROVE  FALSE
  BY DEF S!Escaped
<1>1. k # j
  <2>1. k = j => j - k = 0
    OBVIOUS
  <2>2. 0 % 2 = 0
    OBVIOUS
  <2>. QED
    BY <2>1, <2>2
<1>2. j > 1 /\ j - 1 \in k .. j - 1
  BY <1>1
<1>. QED
  BY <1>2

LEMMA TermIsThere ==
    ASSUME NEW W, NEW txt \in Seq(W), NEW term \in Seq(W), NEW pattern \in Seq(W), NEW q \in Nat,
           Plainly(term), Trails(pattern, q, term, "%"), q > 0 => pattern[q] # "\\"
    PROVE  From(txt, pattern)[q + 1] = Places(txt, term, 1)
<1>1. PICK t \in Nat : t = Len(term)
  OBVIOUS
<1>2. PICK n \in Nat : n = Len(txt)
  OBVIOUS
<1>. DEFINE g == From(txt, pattern)
            There(k) == Places(txt, term, k)
            I == {d \in Nat : d <= t => g[q + (t + 1 - d)] = There(t + 1 - d)}
<1>3. /\ g[Len(pattern) + 1] = {Len(txt) + 1}
      /\ \A j \in 1 .. Len(pattern) : g[j] = Earlier(txt, pattern, j, g[j + 1])
  BY FromEquation
<1>. HIDE DEF g, There
<1>4. /\ Len(pattern) = q + (t + 1) /\ pattern[q + (t + 1)] = "%"
      /\ \A k \in 1 .. t : pattern[q + k] = term[k] /\ q + k \in 1 .. Len(pattern)
  BY <1>1 DEF Trails
<1>5. 0 \in I
  <2>1. q + (t + 1) \in 1 .. Len(pattern) /\ g[(q + (t + 1)) + 1] = {n + 1}
    BY <1>2, <1>3, <1>4
  <2>2. g[q + (t + 1)] = Earlier(txt, pattern, q + (t + 1), {n + 1})
    BY <1>3, <1>4, <2>1
  <2>3. Earlier(txt, pattern, q + (t + 1), {n + 1}) = 1 .. n + 1
    <3>1. Means(pattern, q + (t + 1), "%") /\ ~Means(pattern, q + (t + 1), "\\")
      <4>1. (q + (t + 1)) - 1 = q + t /\ q + (t + 1) \in Nat \ {0}
        BY <1>1
      <4>2. q + t > 0 => pattern[q + t] # "\\"
        <5>1. CASE t = 0
          <6>1. q + t = q
            BY <5>1
          <6>. QED
            BY <6>1
        <5>2. CASE t # 0
          <6>1. t \in 1 .. t /\ t \in 1 .. Len(term)
            BY <1>1, <5>2
          <6>. QED
            BY <1>4, <6>1 DEF Plainly
        <5>. QED
          BY <5>1, <5>2
      <4>3. ~S!Escaped(pattern, q + (t + 1))
        BY <4>1, <4>2, NotEscaped
      <4>. QED
        BY <1>4, <4>3 DEF Means
    <3>2. Earlier(txt, pattern, q + (t + 1), {n + 1})
            = {i \in 1 .. n + 1 : \E k \in {n + 1} : i <= k}
      BY <1>2, <3>1 DEF Earlier
    <3>3. \A i \in 1 .. n + 1 : i <= n + 1
      BY <1>2
    <3>. QED
      BY <3>2, <3>3
  <2>4. \A i \in 1 .. n + 1 : MatchesAt(txt, term, i, t + 1)
    BY <1>1, <1>2 DEF MatchesAt
  <2>5. There(t + 1) = 1 .. n + 1
    BY <1>2, <2>4 DEF There, Places
  <2>6. t + 1 - 0 = t + 1
    OBVIOUS
  <2>. QED
    BY <2>2, <2>3, <2>5, <2>6
<1>6. ASSUME NEW d \in Nat, d \in I  PROVE d + 1 \in I
  <2>. SUFFICES ASSUME d + 1 <= t PROVE g[q + (t + 1 - (d + 1))] = There(t + 1 - (d + 1))
    OBVIOUS
  <2>1. PICK k \in 1 .. t : k = t + 1 - (d + 1)
    BY <1>1
  <2>2. k + 1 = t + 1 - d /\ q + (k + 1) = (q + k) + 1
    BY <1>1, <2>1
  <2>3. g[(q + k) + 1] = There(k + 1)
    BY <1>6, <2>2
  <2>4. g[q + k] = Earlier(txt, pattern, q + k, There(k + 1))
    BY <1>3, <1>4, <2>3
  <2>5. Earlier(txt, pattern, q + k, There(k + 1)) = There(k)
    <3>1. k \in 1 .. Len(term) /\ pattern[q + k] = term[k]
      BY <1>1, <1>4
    <3>. QED
      BY <3>1, OneLetterMore DEF There
  <2>. QED
    BY <2>1, <2>4, <2>5
<1>. HIDE DEF I
<1>7. t \in I
  BY <1>5, <1>6, Induction
<1>8. t + 1 - t = 1
  OBVIOUS
<1>9. g[q + 1] = There(1)
  BY <1>7, <1>8 DEF I
<1>. QED
  BY <1>9 DEF g, There

\* A term is a sequence of letters.
LEMMA Trimmed ==
    ASSUME NEW W, NEW s \in Seq(W)
    PROVE  S!TrimSpace(s) \in Seq(W)
<1>1. PICK kept : kept = {i \in DOMAIN s : s[i] # " "}
  OBVIOUS
<1>2. S!TrimSpace(s) = IF kept = {} THEN <<>> ELSE SubSeq(s, S!Min(kept), S!Max(kept))
  BY <1>1, Zenon DEF S!TrimSpace
<1>3. kept \subseteq DOMAIN s
  BY <1>1, Zenon
<1>4. PICK n \in Nat : n = Len(s)
  OBVIOUS
<1>5. kept \subseteq 1 .. n
  BY <1>3, <1>4
<1>6. ASSUME kept # {}  PROVE SubSeq(s, S!Min(kept), S!Max(kept)) \in Seq(W)
  <2>1. kept \subseteq Nat
    BY <1>5
  <2>2. \E x \in kept : \A y \in kept : x <= y
    BY <1>6, <2>1, LeastNumber
  <2>3. \E x \in kept : \A y \in kept : x >= y
    <3>. DEFINE back == {n - i : i \in kept}
    <3>1. back \subseteq Nat /\ back # {}
      <4>1. \A i \in 1 .. n : n - i \in Nat
        BY <1>4
      <4>. QED
        BY <1>5, <1>6, <4>1
    <3>2. PICK b \in back : \A c \in back : b <= c
      BY <3>1, LeastNumber
    <3>3. PICK x \in kept : b = n - x
      BY <3>2
    <3>4. ASSUME NEW y \in kept  PROVE x >= y
      <4>1. n - x <= n - y
        BY <3>2, <3>3
      <4>. QED
        BY <1>4, <1>5, <3>3, <4>1
    <3>. QED
      BY <3>4
  <2>4. S!Min(kept) \in kept
    BY <2>2 DEF S!Min
  <2>5. S!Max(kept) \in kept
    BY <2>3 DEF S!Max
  <2>6. S!Min(kept) \in 1 .. Len(s) /\ S!Max(kept) \in 1 .. Len(s)
    BY <1>4, <1>5, <2>4, <2>5
  <2>. QED
    BY <2>6
<1>. QED
  BY <1>2, <1>6

LEMMA TermIsText ==
    ASSUME S!SearchAssumption, query \in Queries
    PROVE  S!Term \in Seq(Letters)
<1>1. query \in Seq(Letters) /\ Lower \in [Letters -> Letters]
  BY DEF S!SearchAssumption
<1>2. S!TrimSpace(query) \in Seq(Letters)
  BY <1>1, Trimmed
<1>3. \A s \in Seq(Letters) : S!TrimAt(s) \in Seq(Letters)
  <2>. TAKE s \in Seq(Letters)
  <2>1. s # <<>> => Tail(s) \in Seq(Letters)
    OBVIOUS
  <2>2. S!TrimAt(s) = s \/ (s # <<>> /\ S!TrimAt(s) = Tail(s))
    BY Zenon DEF S!TrimAt
  <2>. QED
    BY <2>1, <2>2
<1>4. PICK t : t = S!TrimSpace(S!TrimAt(S!TrimSpace(query)))
  OBVIOUS
<1>5. t \in Seq(Letters)
  BY <1>2, <1>3, <1>4, Trimmed
<1>6. S!Term = [i \in DOMAIN t |-> Lower[t[i]]]
  BY <1>4 DEF S!Term
<1>. QED
  BY <1>1, <1>5, <1>6

\* The two patterns.
LEMMA Patterns ==
    ASSUME NEW W, NEW term \in Seq(W), NEW wild \in W
    PROVE  /\ term \o <<wild>> \in Seq(W) /\ Trails(term \o <<wild>>, 0, term, wild)
           /\ <<wild>> \o term \o <<wild>> \in Seq(W)
           /\ Trails(<<wild>> \o term \o <<wild>>, 1, term, wild)
           /\ (<<wild>> \o term \o <<wild>>)[1] = wild
BY DEF Trails

\* Of a text: it starts with the term, or has it somewhere.
LEMMA LikeStarts ==
    ASSUME NEW W, NEW txt \in Seq(W), NEW term \in Seq(W), "%" \in W, Plainly(term)
    PROVE  S!Like(txt, term \o <<"%">>) <=> MatchesAt(txt, term, 1, 1)
<1>1. PICK wild : wild = "%"
  OBVIOUS
<1>2. PICK pattern : pattern = term \o <<wild>>
  OBVIOUS
<1>3. wild \in W
  BY <1>1, Zenon
<1>4. pattern \in Seq(W) /\ Trails(pattern, 0, term, wild)
  BY <1>2, <1>3, Patterns
<1>5. S!Like(txt, pattern) <=> 1 \in From(txt, pattern)[1]
  BY <1>4, FromEquation
<1>6. From(txt, pattern)[0 + 1] = Places(txt, term, 1)
  <2>1. Trails(pattern, 0, term, "%")
    BY <1>1, <1>4, Zenon
  <2>2. 0 \in Nat
    OBVIOUS
  <2>. QED
    BY <1>4, <2>1, <2>2, TermIsThere
<1>7. S!Like(txt, pattern) <=> MatchesAt(txt, term, 1, 1)
  <2>1. 0 + 1 = 1 /\ 1 \in 1 .. Len(txt) + 1
    OBVIOUS
  <2>. QED
    BY <1>5, <1>6, <2>1 DEF Places
<1>. QED
  BY <1>1, <1>2, <1>7, Zenon

LEMMA LikeHas ==
    ASSUME NEW W, NEW txt \in Seq(W), NEW term \in Seq(W), "%" \in W, Plainly(term),
           NEW i \in 1 .. Len(txt) + 1, MatchesAt(txt, term, i, 1)
    PROVE  S!Like(txt, <<"%">> \o term \o <<"%">>)
<1>1. PICK wild : wild = "%"
  OBVIOUS
<1>2. PICK pattern : pattern = <<wild>> \o term \o <<wild>>
  OBVIOUS
<1>3. wild \in W
  BY <1>1, Zenon
<1>4. pattern \in Seq(W) /\ Trails(pattern, 1, term, wild) /\ pattern[1] = wild
  BY <1>2, <1>3, Patterns
<1>5. /\ S!Like(txt, pattern) <=> 1 \in From(txt, pattern)[1]
      /\ \A j \in 1 .. Len(pattern) :
            From(txt, pattern)[j] = Earlier(txt, pattern, j, From(txt, pattern)[j + 1])
  BY <1>4, FromEquation
<1>6. From(txt, pattern)[1 + 1] = Places(txt, term, 1)
  <2>1. Trails(pattern, 1, term, "%")
    BY <1>1, <1>4, Zenon
  <2>2. 1 \in Nat /\ pattern[1] # "\\"
    BY <1>1, <1>4
  <2>. QED
    BY <1>4, <2>1, <2>2, TermIsThere
<1>7. From(txt, pattern)[1] = Earlier(txt, pattern, 1, Places(txt, term, 1))
  <2>1. 1 \in 1 .. Len(pattern)
    BY <1>4 DEF Trails
  <2>. QED
    BY <1>5, <1>6, <2>1
<1>8. Earlier(txt, pattern, 1, Places(txt, term, 1))
        = {j \in 1 .. Len(txt) + 1 : \E k \in Places(txt, term, 1) : j <= k}
  <2>1. ~S!Escaped(pattern, 1)
    BY NotEscaped
  <2>2. Means(pattern, 1, "%") /\ ~Means(pattern, 1, "\\")
    BY <1>1, <1>4, <2>1 DEF Means
  <2>. QED
    BY <2>2 DEF Earlier
<1>9. i \in Places(txt, term, 1)
  BY DEF Places
<1>10. 1 \in 1 .. Len(txt) + 1 /\ 1 <= i
  OBVIOUS
<1>11. S!Like(txt, pattern)
  BY <1>5, <1>7, <1>8, <1>9, <1>10
<1>. QED
  BY <1>1, <1>2, <1>11, Zenon

\* In the words of the statement.
LEMMA PrefixIsAt ==
    ASSUME NEW W, NEW txt \in Seq(W), NEW term \in Seq(W)
    PROVE  Len(term) <= Len(txt) /\ SubSeq(txt, 1, Len(term)) = term <=> MatchesAt(txt, term, 1, 1)
<1>1. PICK t \in Nat : t = Len(term)
  OBVIOUS
<1>2. PICK n \in Nat : n = Len(txt)
  OBVIOUS
<1>4. MatchesAt(txt, term, 1, 1) <=> t <= n /\ \A l \in 1 .. t : txt[l] = term[l]
  <2>1. 1 + (t + 1 - 1) <= n + 1 <=> t <= n
    BY <1>1, <1>2
  <2>2. \A l \in 1 .. t : 1 + (l - 1) = l
    BY <1>1
  <2>. QED
    BY <1>1, <1>2, <2>1, <2>2 DEF MatchesAt
<1>5. ASSUME t <= n
      PROVE  SubSeq(txt, 1, t) = term <=> \A l \in 1 .. t : txt[l] = term[l]
  <2>1. term = [l \in 1 .. t |-> term[l]]
    BY <1>1
  <2>2. SubSeq(txt, 1, t) = [l \in 1 .. t |-> txt[l]]
    BY <1>1, <1>2, <1>5
  <2>. QED
    BY <2>1, <2>2
<1>. QED
  BY <1>1, <1>2, <1>4, <1>5

LEMMA HoldsIsAt ==
    ASSUME NEW W, NEW txt \in Seq(W), S!Term \in Seq(W), S!Holds(txt)
    PROVE  \E i \in 1 .. Len(txt) + 1 : MatchesAt(txt, S!Term, i, 1)
<1>0. PICK term \in Seq(W) : term = S!Term
  OBVIOUS
<1>1. PICK t \in Nat : t = Len(term)
  OBVIOUS
<1>2. PICK n \in Nat : n = Len(txt)
  OBVIOUS
<1>3. PICK i \in 1 .. n + 1 - t : SubSeq(txt, i, i + t - 1) = term
  BY <1>0, <1>1, <1>2 DEF S!Holds
<1>4. i \in Nat /\ i >= 1 /\ i <= n + 1 - t
  BY <1>1, <1>2
<1>5. i \in 1 .. n + 1 /\ i + (t + 1 - 1) <= n + 1
  BY <1>1, <1>2, <1>4
<1>6. ASSUME NEW l \in 1 .. t  PROVE txt[i + (l - 1)] = term[l]
  <2>1. /\ i + t - 1 \in Int /\ i <= i + t - 1 /\ i + t - 1 <= n /\ l \in Nat
        /\ (i + t - 1) - i + 1 = t
    BY <1>1, <1>2, <1>4
  <2>2. SubSeq(txt, i, i + t - 1)[l] = txt[i + l - 1]
    BY <1>1, <1>2, <1>4, <2>1
  <2>3. i + l - 1 = i + (l - 1)
    BY <1>4, <2>1
  <2>. QED
    BY <1>3, <2>2, <2>3
<1>7. MatchesAt(txt, term, i, 1)
  BY <1>1, <1>2, <1>5, <1>6 DEF MatchesAt
<1>. QED
  BY <1>0, <1>2, <1>5, <1>7

\* For a term without wildcards the query's words are the statement's.
LEMMA PlainWords ==
    ASSUME S!SearchAssumption, query \in Queries, S!Plain
    PROVE  \A e \in Directory :
              /\ S!StartsWith(e) <=> S!Begins(Handle[e])
              /\ S!Holds(Handle[e]) \/ S!Holds(Name[e]) => S!IsMatch(e)
<1>1. PICK W : W = Letters \cup {"%"}
  OBVIOUS
<1>2. "%" \in W
  BY <1>1, Zenon
<1>3. Letters \subseteq W
  BY <1>1, Zenon
<1>4. S!Term \in Seq(W)
  BY <1>3, TermIsText
<1>5. Plainly(S!Term)
  <2>1. \A k \in 1 .. Len(S!Term) : S!Term[k] \in S!Range(S!Term)
    BY <1>4 DEF S!Range
  <2>. QED
    BY <2>1, Zenon DEF Plainly, S!Plain
<1>6. TAKE e \in Directory
<1>7. Handle[e] \in Seq(W) /\ Name[e] \in Seq(W)
  BY <1>3 DEF S!SearchAssumption
<1>8. S!StartsWith(e) <=> S!Begins(Handle[e])
  <2>1. S!Like(Handle[e], S!Term \o <<"%">>) <=> MatchesAt(Handle[e], S!Term, 1, 1)
    BY <1>2, <1>4, <1>5, <1>7, LikeStarts, Zenon
  <2>2. S!Begins(Handle[e]) <=> MatchesAt(Handle[e], S!Term, 1, 1)
    BY <1>4, <1>7, PrefixIsAt DEF S!Begins
  <2>. QED
    BY <2>1, <2>2, Zenon DEF S!StartsWith
<1>9. ASSUME NEW txt \in Seq(W), S!Holds(txt)
      PROVE  S!Like(txt, <<"%">> \o S!Term \o <<"%">>)
  <2>1. PICK i \in 1 .. Len(txt) + 1 : MatchesAt(txt, S!Term, i, 1)
    BY <1>4, <1>9, HoldsIsAt
  <2>. QED
    BY <1>2, <1>4, <1>5, <2>1, LikeHas, Zenon
<1>10. S!Holds(Handle[e]) \/ S!Holds(Name[e]) => S!IsMatch(e)
  BY <1>7, <1>9, Zenon DEF S!IsMatch
<1>. QED
  BY <1>8, <1>10

LEMMA SearchSkipsNothing ==
    ASSUME S!SearchAssumption, SearchInv
    PROVE  S!NothingSkipped
<1>. USE DEF SearchInv
<1>. DEFINE Starts(e)    == S!Begins(Handle[e])
            Better(e, f) == Starts(e) /\ ~Starts(f)
            due == {e \in Directory \ {Viewer} :
                       /\ {<<"findable", e>>, <<"unblocked", e>>} \subseteq always
                       /\ Kind[e] \in S!Wanted
                       /\ S!Holds(Handle[e]) \/ S!Holds(Name[e])}
            rivals(e) == {f \in Directory \ {Viewer, e} :
                            <<"findable", f>> \in ever /\ S!IsMatch(f) /\ ~Better(e, f)}
<1>1. SUFFICES ASSUME stage = "shown", S!Plain, ~S!TooShort
               PROVE  /\ \A i, j \in DOMAIN listed : i < j => ~Better(listed[j], listed[i])
                      /\ \A e \in due \ S!Range(listed) : S!Cardinality(rivals(e)) >= most
  BY DEF S!NothingSkipped
<1>2. \A e \in Directory : /\ S!StartsWith(e) <=> Starts(e)
                           /\ S!Holds(Handle[e]) \/ S!Holds(Name[e]) => S!IsMatch(e)
  BY <1>1, PlainWords DEF SearchTypes
<1>3. ASSUME NEW e \in Directory, NEW f \in Directory, Better(e, f)  PROVE S!Before(e, f)
  <2>1. S!StartsWith(e) /\ ~S!StartsWith(f)
    BY <1>2, <1>3
  <2>. QED
    BY <2>1 DEF S!Before
<1>4. DOMAIN listed = 1 .. Len(listed) /\ \A i \in 1 .. Len(listed) : listed[i] \in Directory
  BY DEF SearchTypes
<1>. HIDE DEF Better, Starts
<1>5. \A i, j \in DOMAIN listed : i < j => ~Better(listed[j], listed[i])
  BY <1>3, <1>4 DEF SearchFound
<1>6. ASSUME NEW e \in due \ Range(listed)  PROVE Cardinality(rivals(e)) >= most
  <2>1. e \in Directory \ {Viewer} /\ S!IsMatch(e)
    BY <1>2, <1>6
  <2>2. Cardinality(Rivals(e)) >= most
    BY <1>1, <1>6, <2>1 DEF SearchDue
  <2>3. Rivals(e) \subseteq rivals(e)
    BY <1>3, <2>1 DEF Rivals
  <2>4. IsFiniteSet(rivals(e))
    <3>1. IsFiniteSet(Directory) /\ rivals(e) \subseteq Directory
      BY RivalsAreFinite
    <3>. QED
      BY <3>1, FS_Subset
  <2>5. most \in Nat
    BY DEF SearchTypes
  <2>. HIDE DEF rivals
  <2>. QED
    BY <2>2, <2>3, <2>4, <2>5, MoreThere
<1>. QED
  BY <1>5, <1>6, SearchWords

(***************************************************************************)
(* All of them: what holds of each read holds while nothing is done.       *)
(***************************************************************************)
Nothing == UNCHANGED reads

LEMMA AllAsItIs ==
    ASSUME Nothing
    PROVE  UNCHANGED <<serving, holds, ever, always, changes, stage, route, most, listed, handled,
                       left, kind, transcript, named, scanned, posts, communities, rows, toAsk,
                       open, ids, known, decided, allowed, records, pending, signed, query, kinds,
                       standing, blocks, saying, seen, dot, lost>>
BY DEF Nothing, reads, ofHistory, ofRows, ofModeration, ofPosts, ofSearch, ofScope

LEMMA HistoryStays ==
    ASSUME HistoryInv, Nothing
    PROVE  HistoryInv'
<1>1. /\ UNCHANGED <<route, kind, most, holds, ever, always, changes, transcript, stage>>
      /\ H!Entry' = H!Entry
  BY AllAsItIs, HistoryWaysStay
<1>2. HistoryTypes'
  BY <1>1 DEF HistoryInv, HistoryTypes
<1>3. HistoryWay'
  BY <1>1 DEF HistoryInv, HistoryWay, Asking
<1>4. HistoryFound' /\ HistoryDue'
  BY <1>1, ListedAsItIs
<1>. QED
  BY <1>2, <1>3, <1>4 DEF HistoryInv

LEMMA ModerationStays ==
    ASSUME ModerationInv, Nothing
    PROVE  ModerationInv'
<1>1. UNCHANGED <<holds, ever, always, stage, route, left, posts, communities, rows, toAsk, open,
                  ids, known, decided, allowed, records>>
  BY AllAsItIs
<1>. USE DEF ModerationInv
<1>2. ModerationTypes'
  BY <1>1 DEF ModerationTypes, Nested, RowsTypes
<1>3. ModerationStages'
  BY <1>1 DEF ModerationStages
<1>4. ModerationDecided'
  <2>1. InHand' = InHand /\ \A c : Around(c, ever)' = Around(c, ever)
                                   /\ Around(c, always)' = Around(c, always)
    BY <1>1 DEF InHand, Around
  <2>2. Around(InHand, ever)' = Around(InHand, ever)
        /\ Around(InHand, always)' = Around(InHand, always)
    BY <1>1 DEF InHand, Around
  <2>. QED
    BY <1>1, <2>1, <2>2 DEF ModerationDecided
<1>5. ModerationSifted'
  BY <1>1 DEF ModerationSifted
<1>6. ModerationOpen'
  <2>1. M!Kept' = M!Kept
    BY <1>1 DEF M!Kept
  <2>2. RowsSound'
    BY <1>1 DEF ModerationOpen, RowsSound
  <2>3. RowsDue(M!Range(ids))' <=> RowsDue(M!Range(ids))
    BY <1>1 DEF RowsDue
  <2>. QED
    BY <1>1, <2>1, <2>2, <2>3 DEF ModerationOpen
<1>7. ModerationTold'
  <2>1. \A d : M!Wanted(d)' = M!Wanted(d)
    BY <1>1 DEF M!Wanted
  <2>. QED
    BY <1>1, <2>1 DEF ModerationTold
<1>. QED
  BY <1>2, <1>3, <1>4, <1>5, <1>6, <1>7

LEMMA PostStays ==
    ASSUME PostInv, Nothing
    PROVE  PostInv'
<1>1. UNCHANGED <<holds, ever, always, stage, route, most, listed, handled, posts, communities,
                  rows, toAsk, open, pending, signed>>
  BY AllAsItIs
<1>. USE DEF PostInv
<1>2. PostTypes'
  BY <1>1 DEF PostTypes, Nested, RowsTypes
<1>3. PostStages'
  BY <1>1 DEF PostStages
<1>4. PostPending'
  BY <1>1, PendingAsItIs DEF PostQuiet
<1>5. PostListed'
  <2>1. \A c : CommentsAbove(c)' = CommentsAbove(c)
    BY <1>1 DEF CommentsAbove
  <2>2. \A n : P!Resolved(n)' = P!Resolved(n)
    BY <1>1 DEF P!Resolved, P!Kept
  <2>. QED
    BY <1>1, <2>1, <2>2 DEF PostListed
<1>6. PostNames'
  BY <1>1 DEF PostNames
<1>. QED
  BY <1>2, <1>3, <1>4, <1>5, <1>6

LEMMA SearchStays ==
    ASSUME SearchInv, Nothing
    PROVE  SearchInv'
<1>1. UNCHANGED <<query, kinds, most, holds, ever, always, standing, blocks, stage, listed>>
  BY AllAsItIs
<1>2. SearchQuiet
  BY <1>1 DEF SearchQuiet
<1>3. /\ \A e : /\ S!IsMatch(e)' = S!IsMatch(e) /\ Rivals(e)' = Rivals(e)
                /\ \A f : S!Before(e, f)' = S!Before(e, f)
      /\ S!TooShort' = S!TooShort /\ S!Wanted' = S!Wanted
  BY <1>2, SameSearch
<1>. USE DEF SearchInv
<1>4. SearchTypes'
  BY <1>1 DEF SearchTypes, Nested
<1>5. SearchFound'
  BY <1>1, <1>3 DEF SearchFound
<1>6. SearchDue'
  BY <1>1, <1>3 DEF SearchDue
<1>. QED
  BY <1>4, <1>5, <1>6

LEMMA ScopeStays ==
    ASSUME ScopeInv, Nothing
    PROVE  ScopeInv'
<1>1. UNCHANGED <<holds, ever, always, stage, left, saying, seen, dot, lost>>
  BY AllAsItIs
<1>2. Witnessed'
  <2>1. Grounded' = Grounded
    BY <1>1 DEF Grounded
  <2>. QED
    BY <1>1, <2>1 DEF ScopeInv, Witnessed
<1>3. StillDue'
  BY <1>1 DEF ScopeInv, StillDue
<1>. QED
  BY <1>2, <1>3 DEF ScopeInv

LEMMA AnswersStay ==
    ASSUME Nothing
    PROVE  UNCHANGED Guard!vars
<1>1. UNCHANGED <<serving, holds, ever, always, stage, route, listed, kind, transcript, ids,
                  records, saying, dot, left>>
  BY AllAsItIs
<1>2. \A m : H!Ways(m)' = H!Ways(m)
  BY <1>1, HistoryWaysStay
<1>3. \A d : M!Ways(d)' = M!Ways(d)
  <2>1. M!Entry' = M!Entry /\ \A id : M!Rights(id)' = M!Rights(id)
    BY <1>1 DEF M!Entry, M!Rights
  <2>. QED
    BY <1>1, <2>1 DEF M!Ways
<1>4. \A t : P!Ways(t)' = P!Ways(t)
  BY <1>1 DEF P!Ways
<1>5. /\ H!Entry' = H!Entry /\ M!Entry' = M!Entry /\ P!Entry' = P!Entry
      /\ S!Entry' = S!Entry /\ A!Entry' = A!Entry
  BY <1>1, HistoryWaysStay DEF M!Entry, P!Entry, S!Entry, A!Entry
<1>6. /\ H!Answer' = H!Answer /\ M!Answer' = M!Answer /\ P!Answer' = P!Answer
      /\ S!Answer' = S!Answer /\ A!Answer' = A!Answer
  BY <1>1 DEF H!Answer, M!Answer, P!Answer, S!Answer, A!Answer, H!Answered, M!Answered,
              P!Answered, S!Answered, A!Told
<1>7. /\ H!Shown' = H!Shown /\ M!Shown' = M!Shown /\ P!Shown' = P!Shown
      /\ S!Shown' = S!Shown /\ A!Shown' = A!Shown
  BY <1>1 DEF H!Shown, H!Listed, M!Shown, P!Shown, S!Shown, A!Shown, A!Told
<1>8. UNCHANGED <<Entry, Answer, Shown>>
  BY <1>1, <1>5, <1>6, <1>7 DEF Entry, Answer, Shown
<1>9. \A t \in Things : Ways(t)' = Ways(t)
  BY <1>1, <1>2, <1>3, <1>4 DEF Ways, S!Ways, A!Ways
<1>. QED
  BY <1>1, <1>8, <1>9 DEF Guard!vars

-----------------------------------------------------------------------------
(***************************************************************************)
(* Whatever is served, what holds of its read holds.                       *)
(***************************************************************************)
ReadsInv ==
    /\ serving \in {"history", "moderation", "posts", "search", "scope"}
    /\ serving = "history"    => HistoryInv
    /\ serving = "moderation" => ModerationInv
    /\ serving = "posts"      => PostInv
    /\ serving = "search"     => SearchInv
    /\ serving = "scope"      => ScopeInv

LEMMA EachAssumption ==
    /\ H!HistoryAssumption /\ M!ModerationAssumption /\ M!CommentRowsAssumption
    /\ P!PostReadsAssumption /\ S!SearchAssumption /\ A!ScopeAssumption
BY ReadsAssumption DEF ReadsAssumption, M!ModerationAssumption

LEMMA ReadsStarts == ReadsInit => ReadsInv
<1>. SUFFICES ASSUME ReadsInit PROVE ReadsInv
  OBVIOUS
<1>1. CASE serving = "history" /\ H!Init
  BY <1>1, EachAssumption, HistoryStarts DEF ReadsInv
<1>2. CASE serving = "moderation" /\ M!Init
  BY <1>2, EachAssumption, ModerationStarts DEF ReadsInv
<1>3. CASE serving = "posts" /\ P!Init
  BY <1>3, EachAssumption, PostStarts DEF ReadsInv
<1>4. CASE serving = "search" /\ S!Init
  BY <1>4, EachAssumption, SearchStarts DEF ReadsInv
<1>5. CASE serving = "scope" /\ A!Init
  BY <1>5, EachAssumption, ScopeStarts DEF ReadsInv
<1>. QED
  BY <1>1, <1>2, <1>3, <1>4, <1>5 DEF ReadsInit

LEMMA ReadsKeep == ReadsInv /\ [ReadsNext]_reads => ReadsInv'
<1>. SUFFICES ASSUME ReadsInv, [ReadsNext]_reads PROVE ReadsInv'
  OBVIOUS
<1>0. serving' = serving
  BY AllAsItIs DEF ReadsNext, Nothing
<1>1. CASE serving = "history" /\ H!Next
  BY <1>0, <1>1, EachAssumption, HistoryKeeps DEF ReadsInv
<1>2. CASE serving = "moderation" /\ M!Next
  BY <1>0, <1>2, EachAssumption, ModerationKeeps DEF ReadsInv
<1>3. CASE serving = "posts" /\ P!Next
  BY <1>0, <1>3, EachAssumption, PostKeeps DEF ReadsInv
<1>4. CASE serving = "search" /\ S!Next
  BY <1>0, <1>4, EachAssumption, SearchKeeps DEF ReadsInv
<1>5. CASE serving = "scope" /\ A!Next
  BY <1>0, <1>5, EachAssumption, ScopeKeeps DEF ReadsInv
<1>6. CASE Nothing
  BY <1>0, <1>6, HistoryStays, ModerationStays, PostStays, SearchStays, ScopeStays DEF ReadsInv
<1>. QED
  BY <1>1, <1>2, <1>3, <1>4, <1>5, <1>6 DEF ReadsNext, Nothing

LEMMA ReadsJustified == ReadsInv => Justified
BY ReadsAssumption, HistoryJustified, ModerationJustified, PostJustified, SearchJustified,
   ScopeJustified DEF ReadsInv

LEMMA ReadsGo == ReadsInv /\ ReadsNext => Goes
<1>. SUFFICES ASSUME ReadsInv, ReadsNext PROVE Goes
  OBVIOUS
<1>0. serving' = serving
  BY DEF ReadsNext
<1>1. CASE serving = "history" /\ H!Next
  BY <1>0, <1>1, ReadsAssumption, HistoryGoes DEF ReadsInv
<1>2. CASE serving = "moderation" /\ M!Next
  BY <1>0, <1>2, ReadsAssumption, ModerationGoes DEF ReadsInv
<1>3. CASE serving = "posts" /\ P!Next
  BY <1>0, <1>3, ReadsAssumption, PostGoes DEF ReadsInv
<1>4. CASE serving = "search" /\ S!Next
  BY <1>0, <1>4, SearchGoes DEF ReadsInv
<1>5. CASE serving = "scope" /\ A!Next
  BY <1>0, <1>5, ScopeGoes DEF ReadsInv
<1>. QED
  BY <1>1, <1>2, <1>3, <1>4, <1>5 DEF ReadsNext

LEMMA ReadsOpen == ReadsInit => Guard!Init
<1>. SUFFICES ASSUME ReadsInit PROVE Opens
  BY StartGuarded
<1>1. CASE serving = "history" /\ H!Init
  BY <1>1, ReadsAssumption, HistoryOpens
<1>2. CASE serving = "moderation" /\ M!Init
  BY <1>2, ReadsAssumption, ModerationOpens
<1>3. CASE serving = "posts" /\ P!Init
  BY <1>3, ReadsAssumption, PostOpens
<1>4. CASE serving = "search" /\ S!Init
  BY <1>4, ReadsAssumption, SearchOpens
<1>5. CASE serving = "scope" /\ A!Init
  BY <1>5, ScopeOpens
<1>. QED
  BY <1>1, <1>2, <1>3, <1>4, <1>5 DEF ReadsInit

LEMMA ReadsSkipNothing == ReadsInv => NothingSkipped
BY EachAssumption, HistorySkipsNothing, ModerationSkipsNothing, PostSkipsNothing,
   SearchSkipsNothing, ScopeSkipsNobody DEF ReadsInv, NothingSkipped

\* The inductive invariant: what each of the five reads has found, decided and
\* still owes at every stage of it, whatever others write meanwhile.
THEOREM ReadsInvariant == ReadsSpec => []ReadsInv
BY ReadsStarts, ReadsKeep, PTL DEF ReadsSpec

\* Whatever is shown was allowed, by facts each of which held at some moment
\* of the request, and a refusal was earned: every read of History, Moderation,
\* PostReads, Search and Scope implements GuardedRead.
THEOREM ReadsAreGuarded == ReadsSpec => AsGuarded
<1>1. ReadsInv /\ ReadsNext => Goes
  BY ReadsGo
<1>2. Justified /\ Justified' /\ Goes => [Guard!Next]_Guard!vars
  BY StepGuarded
<1>3. UNCHANGED reads => UNCHANGED Guard!vars
  BY AnswersStay DEF Nothing
<1>4. Justified /\ Justified' /\ ReadsInv /\ [ReadsNext]_reads => [Guard!Next]_Guard!vars
  BY <1>1, <1>2, <1>3
<1>. QED
  BY <1>4, ReadsOpen, ReadsJustified, ReadsInvariant, PTL DEF ReadsSpec, AsGuarded, Guard!Spec

\* Whatever was due throughout a request is in its answer, in its order, or
\* was pushed out of it by as many as the limit that were better or newer.
THEOREM ReadsSkipsNothing == ReadsSpec => []NothingSkipped
BY ReadsInvariant, ReadsSkipNothing, PTL
=============================================================================
