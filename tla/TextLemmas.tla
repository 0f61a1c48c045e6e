----------------------------- MODULE TextLemmas ------------------------------
(***************************************************************************)
(* What the operators of TextEdit compute, for every text.  Those that are *)
(* defined by a recursive function are treated in three steps: a function  *)
(* that satisfies the equation exists, its value at each argument has the  *)
(* wanted shape (both by induction on the argument, in the form of         *)
(* UpTo: a set that holds 0 and with each number below n the next), and    *)
(* the operator is that value.                                             *)
(***************************************************************************)
EXTENDS TextProperties, SequenceTheorems, WellFoundedInduction, TLAPS

-----------------------------------------------------------------------------
(* Induction, over sets of numbers.                                        *)

LEMMA Least ==
    ASSUME NEW S \in SUBSET Nat, S # {}
    PROVE  \E x \in S : \A y \in S : x <= y
<1> DEFINE R == {ss \in Nat \X Nat : ss[1] < ss[2]}
<1>1. IsWellFoundedOn(R, Nat)
    BY NatLessThanWellFounded DEF OpToRel
<1> HIDE DEF R
<1>2. PICK x \in S : \A y \in S : ~ (<<y, x>> \in R)
    BY <1>1, WFMin
<1>3. ASSUME NEW y \in S
      PROVE  x <= y
  <2>1. ~ (<<y, x>> \in R) /\ x \in Nat /\ y \in Nat
      BY <1>2
  <2> QED BY <2>1 DEF R
<1> QED BY <1>3

LEMMA UpTo ==
    ASSUME NEW n \in Nat, NEW S,
           0 \in S,
           \A k \in Nat : k < n /\ k \in S => k + 1 \in S
    PROVE  \A k \in 0..n : k \in S
<1> DEFINE T == {k \in 0..n : k \notin S}
<1>1. SUFFICES ASSUME T # {}
               PROVE  FALSE
    OBVIOUS
<1>2. PICK x \in T : \A y \in T : x <= y
  <2>1. T \in SUBSET Nat
      OBVIOUS
  <2> QED BY <1>1, <2>1, Least
<1>3. x \in 0..n /\ x \notin S /\ x # 0
    OBVIOUS
<1>4. x - 1 \in Nat /\ x - 1 < n /\ x - 1 \in 0..n
    BY <1>3
<1>5. x - 1 \notin S
    BY <1>3, <1>4
<1>6. x - 1 \in T
    BY <1>4, <1>5
<1>7. x <= x - 1
    BY <1>2, <1>6
<1> QED BY <1>3, <1>7

-----------------------------------------------------------------------------
(* The members of a set of numbers, in order.                              *)

\* e lists the members of I that are at most k.
Lists(e, I, k) ==
    /\ e \in Seq(Nat)
    /\ \A i \in 1..Len(e) : e[i] \in I /\ e[i] \in 1..k
    /\ \A i, j \in 1..Len(e) : i < j => e[i] < e[j]
    /\ \A x \in 1..k : x \in I => \E i \in 1..Len(e) : e[i] = x

AscendingDef(I, n, u) ==
    u = [k \in 0..n |->
            IF k = 0 THEN <<>>
            ELSE IF k \in I THEN Append(u[k - 1], k) ELSE u[k - 1]]

LEMMA AscendingFunction ==
    ASSUME NEW n \in Nat, NEW I
    PROVE  \E u : AscendingDef(I, n, u)
<1> DEFINE Good(k) == \E u : AscendingDef(I, k, u)
           S == {k \in Nat : Good(k)}
<1>1. 0 \in S
  <2> DEFINE u == [k \in 0..0 |-> <<>>]
  <2>1. AscendingDef(I, 0, u)
      BY DEF AscendingDef
  <2> QED BY <2>1
<1>2. ASSUME NEW k \in Nat, k < n, k \in S
      PROVE  k + 1 \in S
  <2>1. PICK u : AscendingDef(I, k, u)
      BY <1>2
  <2> DEFINE v == [i \in 0..(k + 1) |->
                      IF i = k + 1
                      THEN IF k + 1 \in I THEN Append(u[k], k + 1) ELSE u[k]
                      ELSE u[i]]
  <2>2. \A i \in 0..k : v[i] = u[i]
      OBVIOUS
  <2>3. ASSUME NEW i \in 0..(k + 1)
        PROVE  v[i] = IF i = 0 THEN <<>>
                      ELSE IF i \in I THEN Append(v[i - 1], i) ELSE v[i - 1]
    <3>1. CASE i = k + 1
      <4>1. v[i - 1] = u[k] /\ i # 0
          BY <2>2, <3>1
      <4>2. v[i] = IF k + 1 \in I THEN Append(u[k], k + 1) ELSE u[k]
          BY <3>1
      <4> HIDE DEF v
      <4> QED BY <3>1, <4>1, <4>2
    <3>2. CASE i = 0
        BY <2>1, <3>2 DEF AscendingDef
    <3>3. CASE i \in 1..k
      <4>1. v[i] = u[i] /\ v[i - 1] = u[i - 1]
          BY <2>2, <3>3
      <4>2. u[i] = IF i \in I THEN Append(u[i - 1], i) ELSE u[i - 1]
        <5>1. i \in 0..k /\ i # 0
            BY <3>3
        <5> HIDE DEF v
        <5> QED BY <2>1, <5>1 DEF AscendingDef
      <4> HIDE DEF v
      <4> QED BY <3>3, <4>1, <4>2
    <3> QED BY <3>1, <3>2, <3>3
  <2>4. AscendingDef(I, k + 1, v)
    <3>1. v = [i \in 0..(k + 1) |-> v[i]]
        OBVIOUS
    <3> HIDE DEF v
    <3> QED BY <2>3, <3>1 DEF AscendingDef
  <2> HIDE DEF v
  <2> QED BY <2>4
<1> HIDE DEF S
<1>3. n \in S
    BY <1>1, <1>2, UpTo
<1> QED BY <1>3 DEF S

LEMMA AscendingLists ==
    ASSUME NEW n \in Nat, NEW I
    PROVE  Lists(Ascending(I, n), I, n)
<1> DEFINE u == CHOOSE u : AscendingDef(I, n, u)
<1>1. Ascending(I, n) = u[n]
    BY DEF Ascending, AscendingDef
<1>2. AscendingDef(I, n, u)
    BY AscendingFunction
<1> HIDE DEF u
<1> DEFINE S == {k \in Nat : k <= n => Lists(u[k], I, k)}
<1>3. 0 \in S
  <2>1. u[0] = <<>>
      BY <1>2 DEF AscendingDef
  <2>2. Lists(<<>>, I, 0)
      BY EmptySeq DEF Lists
  <2> QED BY <2>1, <2>2
<1>4. ASSUME NEW k \in Nat, k < n, k \in S
      PROVE  k + 1 \in S
  <2>1. Lists(u[k], I, k)
      BY <1>4
  <2>2. u[k + 1] = IF k + 1 \in I THEN Append(u[k], k + 1) ELSE u[k]
    <3>1. k + 1 \in 0..n /\ k + 1 # 0 /\ (k + 1) - 1 = k
        BY <1>4
    <3> QED BY <1>2, <3>1 DEF AscendingDef
  <2> DEFINE e == u[k]
  <2>3. e \in Seq(Nat) /\ Len(e) \in Nat
      BY <2>1, LenProperties DEF Lists
  <2>4. CASE k + 1 \in I
    <3> DEFINE f == Append(e, k + 1)
    <3>1. /\ f \in Seq(Nat) /\ Len(f) = Len(e) + 1
          /\ \A i \in 1..Len(e) : f[i] = e[i]
          /\ f[Len(e) + 1] = k + 1
        BY <2>3, AppendProperties
    <3> HIDE DEF f, e
    <3>2. \A i \in 1..Len(f) : f[i] \in I /\ f[i] \in 1..(k + 1)
      <4> TAKE i \in 1..Len(f)
      <4>1. CASE i = Len(e) + 1
          BY <2>4, <3>1, <4>1
      <4>2. CASE i \in 1..Len(e)
        <5>1. e[i] \in I /\ e[i] \in 1..k
            BY <2>1, <4>2 DEF Lists, e
        <5> QED BY <3>1, <4>2, <5>1
      <4> QED BY <2>3, <3>1, <4>1, <4>2
    <3>3. \A i, j \in 1..Len(f) : i < j => f[i] < f[j]
      <4> SUFFICES ASSUME NEW i \in 1..Len(f), NEW j \in 1..Len(f), i < j
                   PROVE  f[i] < f[j]
          OBVIOUS
      <4>1. i \in 1..Len(e)
          BY <2>3, <3>1
      <4>2. e[i] \in 1..k
          BY <2>1, <4>1 DEF Lists, e
      <4>3. CASE j = Len(e) + 1
          BY <3>1, <4>1, <4>2, <4>3
      <4>4. CASE j \in 1..Len(e)
        <5>1. e[i] < e[j]
            BY <2>1, <4>1, <4>4 DEF Lists, e
        <5>2. f[i] = e[i] /\ f[j] = e[j]
            BY <3>1, <4>1, <4>4
        <5> QED BY <5>1, <5>2
      <4>5. j = Len(e) + 1 \/ j \in 1..Len(e)
          BY <2>3, <3>1
      <4> QED BY <4>3, <4>4, <4>5
    <3>4. ASSUME NEW x \in 1..(k + 1), x \in I
          PROVE  \E i \in 1..Len(f) : f[i] = x
      <4>1. CASE x = k + 1
          BY <2>3, <3>1, <4>1
      <4>2. CASE x \in 1..k
        <5>1. PICK i \in 1..Len(e) : e[i] = x
            BY <2>1, <3>4, <4>2 DEF Lists, e
        <5>2. i \in 1..Len(f) /\ f[i] = x
            BY <2>3, <3>1, <5>1
        <5> QED BY <5>2
      <4> QED BY <3>4, <4>1, <4>2
    <3>5. Lists(f, I, k + 1)
        BY <3>1, <3>2, <3>3, <3>4 DEF Lists
    <3>6. u[k + 1] = f
        BY <2>2, <2>4 DEF f, e
    <3> QED BY <3>5, <3>6
  <2>5. CASE k + 1 \notin I
    <3>1. \A x \in 1..(k + 1) : x \in I => x \in 1..k
        BY <2>5
    <3>2. \A x : x \in 1..k => x \in 1..(k + 1)
        OBVIOUS
    <3>3. Lists(e, I, k + 1)
        BY <2>1, <3>1, <3>2 DEF Lists
    <3>4. u[k + 1] = e
        BY <2>2, <2>5
    <3> QED BY <3>3, <3>4
  <2> QED BY <2>4, <2>5
<1> HIDE DEF S
<1>5. n \in S
    BY <1>3, <1>4, UpTo
<1> QED BY <1>1, <1>5 DEF S

(* A set of numbers can be listed in order in one way only.                *)
LEMMA ListsStep ==
    ASSUME NEW n \in Nat, NEW I, NEW e, NEW f, Lists(e, I, n), Lists(f, I, n),
           NEW k \in Nat, k < Len(e),
           \A i \in 1..k : i <= Len(f) /\ e[i] = f[i]
    PROVE  k < Len(f) /\ f[k + 1] <= e[k + 1]
<1>1. Len(e) \in Nat /\ Len(f) \in Nat
    BY LenProperties DEF Lists
<1>2. k + 1 \in 1..Len(e)
    BY <1>1
<1>3. e[k + 1] \in 1..n /\ e[k + 1] \in I
    BY <1>2 DEF Lists
<1>4. PICK j \in 1..Len(f) : f[j] = e[k + 1]
    BY <1>3 DEF Lists
<1>5. ASSUME j <= k
      PROVE  FALSE
  <2>1. j \in 1..k /\ j \in 1..Len(e) /\ j < k + 1
      BY <1>1, <1>5
  <2>2. e[j] < e[k + 1]
      BY <1>2, <2>1 DEF Lists
  <2>3. e[j] = e[k + 1]
      BY <1>4, <2>1
  <2> QED BY <1>3, <2>2, <2>3
<1>6. k + 1 <= j /\ k < Len(f) /\ k + 1 \in 1..Len(f)
    BY <1>1, <1>4, <1>5
<1>7. f[k + 1] <= f[j]
  <2>1. CASE k + 1 = j
      BY <1>3, <1>4, <2>1
  <2>2. CASE k + 1 < j
    <3>1. f[k + 1] < f[j]
        BY <1>6, <2>2 DEF Lists
    <3>2. f[k + 1] \in Nat /\ f[j] \in Nat
        BY <1>6 DEF Lists
    <3> QED BY <3>1, <3>2
  <2> QED BY <1>6, <2>1, <2>2
<1> QED BY <1>4, <1>6, <1>7

LEMMA ListsAgree ==
    ASSUME NEW n \in Nat, NEW I, NEW e, NEW f, Lists(e, I, n), Lists(f, I, n)
    PROVE  Len(e) <= Len(f) /\ \A i \in 1..Len(e) : e[i] = f[i]
<1>1. Len(e) \in Nat /\ Len(f) \in Nat
    BY LenProperties DEF Lists
<1> DEFINE S == {k \in Nat : \A i \in 1..k : i <= Len(f) /\ e[i] = f[i]}
<1>2. 0 \in S
    OBVIOUS
<1>3. ASSUME NEW k \in Nat, k < Len(e), k \in S
      PROVE  k + 1 \in S
  <2>1. \A i \in 1..k : i <= Len(f) /\ e[i] = f[i]
      BY <1>3
  <2>2. k < Len(f) /\ f[k + 1] <= e[k + 1]
      BY <1>3, <2>1, ListsStep
  <2>3. \A i \in 1..k : i <= Len(e) /\ f[i] = e[i]
      BY <1>1, <1>3, <2>1
  <2>4. e[k + 1] <= f[k + 1]
      BY <2>2, <2>3, ListsStep
  <2>5. e[k + 1] \in Nat /\ f[k + 1] \in Nat
    <3>1. k + 1 \in 1..Len(e) /\ k + 1 \in 1..Len(f)
        BY <1>1, <1>3, <2>2
    <3> QED BY <3>1 DEF Lists
  <2>6. e[k + 1] = f[k + 1] /\ k + 1 <= Len(f)
      BY <1>1, <2>2, <2>4, <2>5
  <2> QED BY <2>1, <2>6
<1>4. \A k \in 0..Len(e) : k \in S
  <2> HIDE DEF S
  <2> QED BY <1>1, <1>2, <1>3, UpTo
<1>5. Len(e) \in S
    BY <1>1, <1>4
<1> QED BY <1>1, <1>5

LEMMA AscendingIs ==
    ASSUME NEW n \in Nat, NEW I, NEW e, Lists(e, I, n)
    PROVE  Ascending(I, n) = e
<1> DEFINE f == Ascending(I, n)
<1>1. Lists(f, I, n)
    BY AscendingLists
<1> HIDE DEF f
<1>2. e \in Seq(Nat) /\ f \in Seq(Nat)
    BY <1>1 DEF Lists
<1>3. Len(e) <= Len(f) /\ \A i \in 1..Len(e) : e[i] = f[i]
    BY <1>1, ListsAgree
<1>4. Len(f) <= Len(e)
    BY <1>1, ListsAgree
<1>5. Len(e) = Len(f)
    BY <1>2, <1>3, <1>4, LenProperties
<1>6. e = f
    BY <1>2, <1>3, <1>5, SeqEqual
<1> QED BY <1>6 DEF f

-----------------------------------------------------------------------------
(* Line endings.                                                           *)

\* A normalised text.
NoReturns(t) == t \in Seq(Chars) /\ \A i \in 1..Len(t) : t[i] # CR

LEMMA CrLfToLfType ==
    ASSUME NEW t \in Seq(Chars)
    PROVE  CrLfToLf(t) \in Seq(Chars)
<1> DEFINE I == {i \in 1..Len(t) : ~ IsCrLf(t, i)}
           kept == Ascending(I, Len(t))
<1>1. Len(t) \in Nat
    BY LenProperties
<1>2. Lists(kept, I, Len(t))
    BY <1>1, AscendingLists
<1>3. CrLfToLf(t) = [k \in 1..Len(kept) |-> t[kept[k]]]
    BY DEF CrLfToLf
<1> HIDE DEF kept
<1>4. Len(kept) \in Nat
    BY <1>2, LenProperties DEF Lists
<1>5. \A k \in 1..Len(kept) : t[kept[k]] \in Chars
    BY <1>2, ElementOfSeq DEF Lists
<1> QED BY <1>3, <1>4, <1>5

LEMMA CrLfToLfSame ==
    ASSUME NEW t, NoReturns(t)
    PROVE  CrLfToLf(t) = t
<1> DEFINE I == {i \in 1..Len(t) : ~ IsCrLf(t, i)}
           e == [i \in 1..Len(t) |-> i]
<1>1. Len(t) \in Nat /\ t \in Seq(Chars) /\ t = [i \in 1..Len(t) |-> t[i]]
    BY LenProperties DEF NoReturns
<1>2. I = 1..Len(t)
    BY DEF NoReturns, IsCrLf
<1>3. /\ e \in Seq(Nat) /\ Len(e) = Len(t)
      /\ \A i \in 1..Len(t) : e[i] = i
    BY <1>1
<1> HIDE DEF I, e
<1>4. Lists(e, I, Len(t))
    BY <1>1, <1>2, <1>3 DEF Lists
<1>5. Ascending(I, Len(t)) = e
    BY <1>1, <1>4, AscendingIs
<1>6. CrLfToLf(t) = [k \in 1..Len(e) |-> t[e[k]]]
    BY <1>5 DEF CrLfToLf, I
<1>7. [k \in 1..Len(e) |-> t[e[k]]] = [k \in 1..Len(t) |-> t[k]]
    BY <1>3
<1> QED BY <1>1, <1>6, <1>7

(* A normalised text has no carriage return, and is its own normal form.   *)
LEMMA NormalizeNormal ==
    ASSUME NEW t \in Seq(Chars)
    PROVE  NoReturns(normalize_line_endings(t))
<1> DEFINE s == CrLfToLf(t)
<1>1. s \in Seq(Chars)
    BY CrLfToLfType
<1>2. normalize_line_endings(t) = [i \in 1..Len(s) |-> IF s[i] = CR THEN LF ELSE s[i]]
    BY DEF normalize_line_endings, ReplaceAll
<1> HIDE DEF s
<1>3. Len(s) \in Nat /\ \A i \in 1..Len(s) : s[i] \in Chars
    BY <1>1, LenProperties, ElementOfSeq
<1> QED BY <1>2, <1>3, TextAssumption DEF NoReturns

LEMMA NormalizeSame ==
    ASSUME NEW t, NoReturns(t)
    PROVE  normalize_line_endings(t) = t
<1>1. CrLfToLf(t) = t
    BY CrLfToLfSame
<1>2. t \in Seq(Chars) /\ t = [i \in 1..Len(t) |-> t[i]]
    BY LenProperties DEF NoReturns
<1> QED BY <1>1, <1>2 DEF normalize_line_endings, ReplaceAll, NoReturns

-----------------------------------------------------------------------------
(* FlattenSeq lays the pieces out one after the other.                     *)

\* Where each piece ends.
Offsets(P, pieces) ==
    /\ P \in [0..Len(pieces) -> Nat]
    /\ P[0] = 0
    /\ \A k \in 1..Len(pieces) : P[k] = P[k - 1] + Len(pieces[k])

Laid(P, pieces, t) ==
    /\ Offsets(P, pieces)
    /\ Len(t) = P[Len(pieces)]
    /\ \A k \in 1..Len(pieces) : \A j \in 1..Len(pieces[k]) :
          t[P[k - 1] + j] = pieces[k][j]

\* Kept folded, for the provers.
Cat(s, t) == s \o t

LEMMA CatProperties ==
    ASSUME NEW C, NEW s \in Seq(C), NEW t \in Seq(C)
    PROVE  /\ Cat(s, t) \in Seq(C)
           /\ Len(Cat(s, t)) = Len(s) + Len(t)
           /\ \A i \in 1..(Len(s) + Len(t)) :
                 Cat(s, t)[i] = IF i <= Len(s) THEN s[i] ELSE t[i - Len(s)]
BY ConcatProperties DEF Cat

FlattenDef(q, n, u) ==
    u = [i \in 1..n |-> IF i = 1 THEN q[i] ELSE Cat(u[i - 1], q[i])]

LEMMA FlattenFunction ==
    ASSUME NEW q, NEW n \in Nat
    PROVE  \E u : FlattenDef(q, n, u)
<1> DEFINE S == {k \in Nat : \E u : FlattenDef(q, k, u)}
<1>1. 0 \in S
  <2>1. FlattenDef(q, 0, [i \in 1..0 |-> 0])
      BY DEF FlattenDef
  <2> QED BY <2>1
<1>2. ASSUME NEW k \in Nat, k < n, k \in S
      PROVE  k + 1 \in S
  <2>1. PICK u : FlattenDef(q, k, u)
      BY <1>2
  <2> DEFINE v == [i \in 1..(k + 1) |->
                      IF i = k + 1
                      THEN IF k = 0 THEN q[1] ELSE Cat(u[k], q[k + 1])
                      ELSE u[i]]
  <2>2. ASSUME NEW i \in 1..(k + 1)
        PROVE  v[i] = IF i = 1 THEN q[i] ELSE Cat(v[i - 1], q[i])
    <3>1. CASE i = k + 1 /\ k = 0
        BY <3>1
    <3>2. CASE i = k + 1 /\ k # 0
      <4>1. v[i] = Cat(u[k], q[k + 1]) /\ v[i - 1] = u[k] /\ i # 1
          BY <3>2
      <4> HIDE DEF v
      <4> QED BY <3>2, <4>1
    <3>3. CASE i \in 1..k
      <4>1. v[i] = u[i] /\ (i # 1 => v[i - 1] = u[i - 1])
          BY <3>3
      <4>2. u[i] = IF i = 1 THEN q[i] ELSE Cat(u[i - 1], q[i])
          BY <2>1, <3>3 DEF FlattenDef
      <4> HIDE DEF v
      <4> QED BY <4>1, <4>2
    <3> QED BY <3>1, <3>2, <3>3
  <2>3. v = [i \in 1..(k + 1) |-> v[i]]
      OBVIOUS
  <2> HIDE DEF v
  <2>4. FlattenDef(q, k + 1, v)
      BY <2>2, <2>3 DEF FlattenDef
  <2> QED BY <2>4
<1> HIDE DEF S
<1>3. n \in S
    BY <1>1, <1>2, UpTo
<1> QED BY <1>3 DEF S

LEMMA OffsetsGrow ==
    ASSUME NEW C, NEW q \in Seq(Seq(C)), NEW P, Offsets(P, q),
           NEW i \in 0..Len(q), NEW k \in 0..Len(q), i <= k
    PROVE  P[i] <= P[k]
<1> DEFINE n == Len(q)
           S == {m \in Nat : i <= m => P[i] <= P[m]}
<1>1. n \in Nat /\ \A m \in 1..n : Len(q[m]) \in Nat
    BY LenProperties, ElementOfSeq
<1>2. \A m \in 0..n : P[m] \in Nat
    BY DEF Offsets
<1>3. 0 \in S
    BY <1>2
<1>4. ASSUME NEW m \in Nat, m < n, m \in S
      PROVE  m + 1 \in S
  <2>1. m + 1 \in 1..n /\ m \in 0..n
      BY <1>1, <1>4
  <2>2. P[m + 1] = P[m] + Len(q[m + 1])
      BY <2>1 DEF Offsets
  <2>3. P[m] <= P[m + 1] /\ P[m] \in Nat /\ P[m + 1] \in Nat /\ P[i] \in Nat
      BY <1>1, <1>2, <2>1, <2>2
  <2>4. CASE i <= m
      BY <1>4, <2>3, <2>4
  <2>5. CASE ~ (i <= m)
      BY <2>3, <2>5
  <2> QED BY <2>4, <2>5
<1>5. \A m \in 0..n : m \in S
  <2> HIDE DEF S
  <2> QED BY <1>1, <1>3, <1>4, UpTo
<1> QED BY <1>5

LEMMA FlattenLaid ==
    ASSUME NEW C, NEW q \in Seq(Seq(C))
    PROVE  FlattenSeq(q) \in Seq(C) /\ \E P : Laid(P, q, FlattenSeq(q))
<1> DEFINE n == Len(q)
<1>1. n \in Nat /\ \A k \in 1..n : q[k] \in Seq(C) /\ Len(q[k]) \in Nat
    BY LenProperties, ElementOfSeq
<1>2. CASE n = 0
  <2>1. q = <<>> /\ FlattenSeq(q) = <<>>
      BY <1>2, EmptySeq DEF FlattenSeq
  <2>2. Laid([k \in 0..0 |-> 0], <<>>, <<>>)
      BY EmptySeq DEF Laid, Offsets
  <2> QED BY <2>1, <2>2, EmptySeq
<1>3. CASE n # 0
  <2> DEFINE u == CHOOSE u : FlattenDef(q, n, u)
  <2>1. FlattenSeq(q) = u[n]
      BY <1>3 DEF FlattenSeq, FlattenDef, Cat
  <2>2. FlattenDef(q, n, u)
      BY <1>1, FlattenFunction
  <2> HIDE DEF u
  <2>3. \A i \in 1..n : u[i] = IF i = 1 THEN q[i] ELSE Cat(u[i - 1], q[i])
      BY <2>2 DEF FlattenDef
  <2>4. \A k \in 1..n : u[k] \in Seq(C)
    <3> DEFINE S == {k \in Nat : k # 0 => u[k] \in Seq(C)}
    <3>1. 0 \in S
        OBVIOUS
    <3>2. ASSUME NEW k \in Nat, k < n, k \in S
          PROVE  k + 1 \in S
      <4>1. k + 1 \in 1..n /\ q[k + 1] \in Seq(C)
          BY <1>1, <3>2
      <4>2. CASE k = 0
          BY <2>3, <4>1, <4>2
      <4>3. CASE k # 0
        <5>1. u[k] \in Seq(C) /\ u[k + 1] = Cat(u[k], q[k + 1])
            BY <2>3, <3>2, <4>1, <4>3
        <5>2. Cat(u[k], q[k + 1]) \in Seq(C)
            BY <4>1, <5>1, CatProperties
        <5> QED BY <5>1, <5>2
      <4> QED BY <4>2, <4>3
    <3>3. \A k \in 0..n : k \in S
      <4> HIDE DEF S
      <4> QED BY <1>1, <3>1, <3>2, UpTo
    <3> QED BY <1>1, <3>3
  <2> DEFINE P == [k \in 0..n |-> IF k = 0 THEN 0 ELSE Len(u[k])]
  <2>5. P[0] = 0 /\ \A k \in 1..n : P[k] = Len(u[k]) /\ P[k] \in Nat
      BY <1>1, <2>4, LenProperties
  <2>6. P \in [0..n -> Nat]
      BY <2>4, LenProperties
  <2> HIDE DEF P
  <2>7. ASSUME NEW k \in 1..n, k # 1
        PROVE  /\ k - 1 \in 1..n
               /\ P[k] = P[k - 1] + Len(q[k])
               /\ \A i \in 1..P[k] :
                     u[k][i] = IF i <= P[k - 1] THEN u[k - 1][i]
                               ELSE q[k][i - P[k - 1]]
    <3>1. k - 1 \in 1..n /\ u[k] = Cat(u[k - 1], q[k])
        BY <1>1, <2>3, <2>7
    <3>2. /\ u[k - 1] \in Seq(C) /\ q[k] \in Seq(C)
          /\ P[k - 1] = Len(u[k - 1]) /\ P[k] = Len(u[k])
        BY <1>1, <2>4, <2>5, <3>1
    <3> DEFINE a == u[k - 1]
               b == q[k]
               c == Cat(a, b)
    <3>a. a \in Seq(C) /\ b \in Seq(C)
        BY <3>2
    <3> HIDE DEF a, b
    <3>b. /\ Len(c) = Len(a) + Len(b)
          /\ \A i \in 1..(Len(a) + Len(b)) :
                c[i] = IF i <= Len(a) THEN a[i] ELSE b[i - Len(a)]
        BY <3>a, CatProperties
    <3> HIDE DEF c
    <3>3. /\ Len(c) = Len(u[k - 1]) + Len(q[k])
          /\ \A i \in 1..(Len(u[k - 1]) + Len(q[k])) :
                c[i] = IF i <= Len(u[k - 1]) THEN u[k - 1][i]
                       ELSE q[k][i - Len(u[k - 1])]
        BY <3>b DEF a, b
    <3>4. u[k] = c
        BY <3>1 DEF a, b, c
    <3>5. P[k] = P[k - 1] + Len(q[k])
        BY <3>2, <3>3, <3>4
    <3>6. Len(u[k - 1]) + Len(q[k]) = P[k]
        BY <3>2, <3>5
    <3>7. ASSUME NEW i \in 1..P[k]
          PROVE  u[k][i] = IF i <= P[k - 1] THEN u[k - 1][i]
                           ELSE q[k][i - P[k - 1]]
      <4>1. i \in 1..(Len(u[k - 1]) + Len(q[k]))
          BY <3>6
      <4>2. c[i] = IF i <= Len(u[k - 1]) THEN u[k - 1][i]
                   ELSE q[k][i - Len(u[k - 1])]
          BY <3>3, <4>1
      <4> QED BY <3>2, <3>4, <4>2
    <3> QED BY <3>1, <3>5, <3>7
  <2>8. Offsets(P, q)
    <3>1. ASSUME NEW k \in 1..n
          PROVE  P[k] = P[k - 1] + Len(q[k])
      <4>1. CASE k = 1
          BY <1>1, <2>3, <2>5, <4>1
      <4> QED BY <2>7, <4>1
    <3> QED BY <2>5, <2>6, <3>1 DEF Offsets
  <2> DEFINE Keeps(k) == \A i \in 1..k : \A j \in 1..Len(q[i]) :
                            u[k][P[i - 1] + j] = q[i][j]
             S == {k \in Nat : k # 0 => Keeps(k)}
  <2>9. 0 \in S
      OBVIOUS
  <2>10. ASSUME NEW k \in Nat, k < n, k \in S
         PROVE  k + 1 \in S
    <3>1. k + 1 \in 1..n
        BY <1>1, <2>10
    <3>2. CASE k = 0
      <4>1. u[1] = q[1] /\ \A j \in 1..Len(q[1]) : P[0] + j = j
          BY <1>1, <2>3, <2>5, <3>1, <3>2
      <4>2. Keeps(1)
          BY <4>1
      <4> QED BY <3>2, <4>2
    <3>3. CASE k # 0
      <4>1. k \in 1..n /\ Keeps(k) /\ (k + 1) - 1 = k /\ k + 1 # 1
          BY <1>1, <2>10, <3>3
      <4>2. /\ P[k + 1] = P[k] + Len(q[k + 1])
            /\ \A i \in 1..P[k + 1] :
                  u[k + 1][i] = IF i <= P[k] THEN u[k][i]
                                ELSE q[k + 1][i - P[k]]
          BY <2>7, <3>1, <4>1
      <4>3. ASSUME NEW i \in 1..(k + 1), NEW j \in 1..Len(q[i])
            PROVE  u[k + 1][P[i - 1] + j] = q[i][j]
        <5> HIDE DEF n
        <5>0. i \in 1..n /\ i - 1 \in 0..n /\ k \in 0..n
            BY <1>1, <3>1
        <5>1. P[i - 1] \in Nat /\ P[k] \in Nat /\ Len(q[i]) \in Nat /\ j \in Nat
            BY <1>1, <2>6, <5>0
        <5>2. CASE i = k + 1
          <6>1. P[i - 1] = P[k]
              BY <4>1, <5>2
          <6>2. P[k + 1] = P[k] + Len(q[i]) /\ 1 <= j /\ j <= Len(q[i])
              BY <4>2, <5>2
          <6>3. /\ P[k] + j \in 1..P[k + 1]
                /\ ~ (P[k] + j <= P[k])
                /\ (P[k] + j) - P[k] = j
              BY <5>1, <6>2
          <6> QED BY <4>2, <5>2, <6>1, <6>3
        <5>3. CASE i \in 1..k
          <6>1. P[i] = P[i - 1] + Len(q[i]) /\ 1 <= j /\ j <= Len(q[i])
              BY <2>8, <5>0 DEF Offsets, n
          <6>2. P[i] <= P[k]
              BY <2>8, <5>0, <5>3, OffsetsGrow DEF n
          <6>3. Len(q[k + 1]) \in Nat /\ P[k + 1] = P[k] + Len(q[k + 1])
              BY <1>1, <3>1, <4>2
          <6>4. P[i - 1] + j <= P[k] /\ 1 <= P[i - 1] + j
              BY <5>1, <6>1, <6>2
          <6>5. P[k] <= P[k + 1] /\ P[k + 1] \in Nat
              BY <5>1, <6>3
          <6>6. P[i - 1] + j \in 1..P[k + 1]
              BY <5>1, <6>4, <6>5
          <6>7. u[k][P[i - 1] + j] = q[i][j]
              BY <4>1, <5>3
          <6> QED BY <4>2, <6>4, <6>6, <6>7
        <5>4. i = k + 1 \/ i \in 1..k
            OBVIOUS
        <5> QED BY <5>2, <5>3, <5>4
      <4>4. Keeps(k + 1)
          BY <4>3
      <4> QED BY <4>4
    <3> QED BY <3>2, <3>3
  <2>11. n \in S
    <3> HIDE DEF S
    <3>1. \A k \in 0..n : k \in S
        BY <1>1, <2>9, <2>10, UpTo
    <3> QED BY <1>1, <3>1
  <2>12. Keeps(n) /\ Len(u[n]) = P[n] /\ u[n] \in Seq(C)
      BY <1>1, <1>3, <2>4, <2>5, <2>11
  <2>13. Laid(P, q, u[n])
      BY <2>8, <2>12 DEF Laid
  <2> QED BY <2>1, <2>12, <2>13
<1> QED BY <1>2, <1>3

\* Every position is in one of the pieces.
InPiece(P, pieces, p) ==
    \E k \in 1..Len(pieces) : \E j \in 1..Len(pieces[k]) : p = P[k - 1] + j

LEMMA LaidPosition ==
    ASSUME NEW C, NEW q \in Seq(Seq(C)), NEW P, NEW t, Laid(P, q, t),
           NEW p \in 1..Len(t)
    PROVE  InPiece(P, q, p)
<1> DEFINE n == Len(q)
           S == {k \in 0..n : p <= P[k]}
<1>1. n \in Nat /\ \A k \in 1..n : Len(q[k]) \in Nat
    BY LenProperties, ElementOfSeq
<1>2. /\ P[0] = 0 /\ Len(t) = P[n]
      /\ \A k \in 0..n : P[k] \in Nat
      /\ \A k \in 1..n : P[k] = P[k - 1] + Len(q[k])
    BY DEF Laid, Offsets
<1>3. n \in S /\ S \in SUBSET Nat
    BY <1>1, <1>2
<1>4. PICK k \in S : \A m \in S : k <= m
    BY <1>3, Least
<1>5. k \in 0..n /\ k # 0 /\ p <= P[k]
    BY <1>2
<1>6. k \in 1..n /\ k - 1 \in 0..n /\ ~ (k <= k - 1)
    BY <1>1, <1>5
<1>7. k - 1 \notin S
    BY <1>4, <1>6
<1>8. ~ (p <= P[k - 1])
    BY <1>6, <1>7
<1>9. /\ P[k - 1] \in Nat /\ P[k] = P[k - 1] + Len(q[k])
      /\ Len(q[k]) \in Nat /\ p \in Nat
    BY <1>1, <1>2, <1>6
<1>10. p - P[k - 1] \in 1..Len(q[k]) /\ p = P[k - 1] + (p - P[k - 1])
    BY <1>5, <1>8, <1>9
<1> QED BY <1>6, <1>10 DEF InPiece

-----------------------------------------------------------------------------
(* Lines.                                                                  *)

TextLine == {l \in Seq(Chars) : OneLine(l)}

Start(e, k) == IF k = 1 THEN 1 ELSE e[k - 1] + 1

\* lines are the lines of a normalised text t, which end at e.
LinesOf(lines, e, t) ==
    /\ Lists(e, LineEnds(t), Len(t) + 1)
    /\ lines \in Seq(TextLine) /\ Len(lines) = Len(e)
    /\ \A k \in 1..Len(e) :
          /\ Len(lines[k]) = e[k] - Start(e, k)
          /\ \A j \in 1..Len(lines[k]) : lines[k][j] = t[Start(e, k) + j - 1]

LEMMA StartType ==
    ASSUME NEW n \in Nat, NEW I, NEW e, Lists(e, I, n), NEW k \in 1..Len(e)
    PROVE  /\ Start(e, k) \in Nat /\ 1 <= Start(e, k)
           /\ Start(e, k) <= e[k] /\ e[k] \in 1..n /\ e[k] \in Nat
<1>1. Len(e) \in Nat /\ e[k] \in 1..n
    BY LenProperties DEF Lists
<1>2. CASE k = 1
    BY <1>1, <1>2 DEF Start
<1>3. CASE k # 1
  <2>1. k - 1 \in 1..Len(e) /\ k - 1 < k
      BY <1>1, <1>3
  <2>2. e[k - 1] \in 1..n /\ e[k - 1] < e[k]
      BY <2>1 DEF Lists
  <2>3. Start(e, k) = e[k - 1] + 1
      BY <1>3 DEF Start
  <2> QED BY <1>1, <2>2, <2>3
<1> QED BY <1>2, <1>3

LEMMA SplitEquals ==
    ASSUME NEW t, NoReturns(t), NEW e, Lists(e, LineEnds(t), Len(t) + 1)
    PROVE  splitlines(t) = [k \in 1..Len(e) |-> SubSeq(t, Start(e, k), e[k] - 1)]
<1>1. CrLfToLf(t) = t
    BY CrLfToLfSame
<1>2. Len(t) + 1 \in Nat
    BY LenProperties DEF NoReturns
<1>3. Ascending(LineEnds(t), Len(t) + 1) = e
    BY <1>2, AscendingIs
<1> QED BY <1>1, <1>3 DEF splitlines, Start

\* The stretch of a text that is its k-th line.
LEMMA LineStretch ==
    ASSUME NEW t, NoReturns(t), NEW e, Lists(e, LineEnds(t), Len(t) + 1),
           NEW k \in 1..Len(e)
    PROVE  LET l == SubSeq(t, Start(e, k), e[k] - 1)
           IN  /\ l \in Seq(Chars)
               /\ Len(l) = e[k] - Start(e, k)
               /\ \A j \in 1..Len(l) : l[j] = t[Start(e, k) + j - 1]
<1>1. t \in Seq(Chars) /\ Len(t) \in Nat /\ Len(t) + 1 \in Nat
    BY LenProperties DEF NoReturns
<1> DEFINE a == Start(e, k)
           b == e[k] - 1
<1>2. /\ a \in Nat /\ 1 <= a /\ a <= e[k] /\ e[k] \in 1..(Len(t) + 1)
    BY <1>1, StartType
<1>3. a \in Int /\ b \in Int /\ a <= b + 1 /\ b <= Len(t) /\ 1 <= a
      /\ b + 1 = e[k]
    BY <1>1, <1>2
<1> HIDE DEF a, b
<1>4. \A i \in a..b : t[i] \in Chars
    BY <1>1, <1>3, ElementOfSeq
<1>5. /\ SubSeq(t, a, b) \in Seq(Chars)
      /\ Len(SubSeq(t, a, b)) = IF a <= b THEN b - a + 1 ELSE 0
      /\ \A i \in 1..(b - a + 1) : SubSeq(t, a, b)[i] = t[a + i - 1]
    BY <1>3, <1>4, SubSeqProperties
<1>6. Len(SubSeq(t, a, b)) = b - a + 1 /\ b - a + 1 = e[k] - a
    BY <1>3, <1>5
<1> QED BY <1>5, <1>6 DEF a, b

LEMMA SplitIs ==
    ASSUME NEW t, NoReturns(t), NEW e, NEW lines, LinesOf(lines, e, t)
    PROVE  splitlines(t) = lines
<1>1. Lists(e, LineEnds(t), Len(t) + 1)
    BY DEF LinesOf
<1>2. splitlines(t) = [k \in 1..Len(e) |-> SubSeq(t, Start(e, k), e[k] - 1)]
    BY <1>1, SplitEquals
<1>3. ASSUME NEW k \in 1..Len(e)
      PROVE  SubSeq(t, Start(e, k), e[k] - 1) = lines[k]
  <2> DEFINE l == SubSeq(t, Start(e, k), e[k] - 1)
  <2>1. /\ l \in Seq(Chars)
        /\ Len(l) = e[k] - Start(e, k)
        /\ \A j \in 1..Len(l) : l[j] = t[Start(e, k) + j - 1]
      BY <1>1, <1>3, LineStretch
  <2> HIDE DEF l
  <2>2. /\ lines[k] \in TextLine
        /\ Len(lines[k]) = e[k] - Start(e, k)
        /\ \A j \in 1..Len(lines[k]) : lines[k][j] = t[Start(e, k) + j - 1]
      BY ElementOfSeq DEF LinesOf
  <2>3. lines[k] \in Seq(Chars)
      BY <2>2 DEF TextLine
  <2>4. l = lines[k]
      BY <2>1, <2>2, <2>3, SeqEqual
  <2> QED BY <2>4 DEF l
<1>4. lines = [k \in 1..Len(e) |-> lines[k]]
    BY LenProperties DEF LinesOf
<1> QED BY <1>2, <1>3, <1>4

LEMMA SplitShape ==
    ASSUME NEW t, NoReturns(t)
    PROVE  \E e : LinesOf(splitlines(t), e, t)
<1> DEFINE n == Len(t) + 1
           e == Ascending(LineEnds(t), n)
           lines == splitlines(t)
<1>1. n \in Nat /\ Len(t) \in Nat /\ t \in Seq(Chars)
    BY LenProperties DEF NoReturns
<1>2. Lists(e, LineEnds(t), n)
    BY <1>1, AscendingLists
<1> HIDE DEF e
<1>3. lines = [k \in 1..Len(e) |-> SubSeq(t, Start(e, k), e[k] - 1)]
    BY <1>2, SplitEquals
<1> HIDE DEF lines
<1>4. Len(e) \in Nat
    BY <1>2, LenProperties DEF Lists
<1>5. ASSUME NEW k \in 1..Len(e)
      PROVE  /\ lines[k] \in Seq(Chars)
             /\ Len(lines[k]) = e[k] - Start(e, k)
             /\ \A j \in 1..Len(lines[k]) : lines[k][j] = t[Start(e, k) + j - 1]
  <2>1. lines[k] = SubSeq(t, Start(e, k), e[k] - 1)
      BY <1>3
  <2> QED BY <1>2, <2>1, LineStretch
<1>6. ASSUME NEW k \in 1..Len(e)
      PROVE  OneLine(lines[k])
  <2>1. SUFFICES ASSUME NEW j \in 1..Len(lines[k])
                 PROVE  lines[k][j] \notin {LF, CR, FF}
      BY DEF OneLine
  <2> DEFINE p == Start(e, k) + j - 1
  <2>2. lines[k][j] = t[p]
      BY <1>5
  <2>3. Start(e, k) \in Nat /\ 1 <= Start(e, k) /\ e[k] \in 1..n /\ e[k] \in Nat
      BY <1>1, <1>2, StartType
  <2>4. p \in Nat /\ Start(e, k) <= p /\ p < e[k] /\ 1 <= p /\ p <= Len(t)
    <3>1. j \in Nat /\ 1 <= j /\ j <= e[k] - Start(e, k)
        BY <1>5, <2>3
    <3> QED BY <1>1, <2>3, <3>1
  <2> HIDE DEF p
  <2>5. ASSUME t[p] \in {LF, CR, FF}
        PROVE  FALSE
    <3>1. p \in LineEnds(t) /\ p \in 1..n
        BY <1>1, <2>4, <2>5 DEF LineEnds, Breaks
    <3>2. PICK i \in 1..Len(e) : e[i] = p
        BY <1>2, <3>1 DEF Lists
    <3>3. CASE i < k
      <4>1. k # 1 /\ k - 1 \in 1..Len(e) /\ (i = k - 1 \/ i < k - 1)
          BY <1>4, <3>3
      <4>2. e[k - 1] \in 1..n /\ (i # k - 1 => e[i] < e[k - 1])
          BY <1>2, <4>1 DEF Lists
      <4>3. Start(e, k) = e[k - 1] + 1
          BY <4>1 DEF Start
      <4> QED BY <2>4, <3>2, <4>1, <4>2, <4>3
    <3>4. CASE k < i
      <4>1. e[k] < e[i]
          BY <1>2, <3>4 DEF Lists
      <4> QED BY <2>3, <2>4, <3>2, <4>1
    <3>5. CASE i = k
        BY <2>3, <2>4, <3>2, <3>5
    <3> QED BY <1>4, <3>3, <3>4, <3>5
  <2> QED BY <2>2, <2>5
<1>7. lines \in Seq(TextLine) /\ Len(lines) = Len(e)
    BY <1>3, <1>4, <1>5, <1>6 DEF TextLine
<1>8. LinesOf(lines, e, t)
    BY <1>2, <1>5, <1>7 DEF LinesOf
<1> QED BY <1>8 DEF lines

-----------------------------------------------------------------------------
(* Texts that are put together of lines.                                   *)

\* The pieces are the lines, each with a line break after it.
IsEnded(pieces, lines) ==
    /\ pieces \in Seq(Seq(Chars)) /\ Len(pieces) = Len(lines)
    /\ \A k \in 1..Len(lines) :
          LET m == Len(lines[k])
          IN  /\ m \in Nat /\ Len(pieces[k]) = m + 1
              /\ pieces[k][m + 1] \in {LF, FF}
              /\ \A j \in 1..m : /\ pieces[k][j] = lines[k][j]
                                 /\ pieces[k][j] \notin {LF, CR, FF}

EndedPieces(lines) == [k \in 1..Len(lines) |-> EndLine(lines[k])]

LEMMA EndedPiecesShape ==
    ASSUME NEW lines \in Seq(TextLine)
    PROVE  /\ IsEnded(EndedPieces(lines), lines)
           /\ \A k \in 1..Len(lines) : EndedPieces(lines)[k][Len(lines[k]) + 1] = LF
<1>1. Len(lines) \in Nat
    BY LenProperties
<1>2. ASSUME NEW k \in 1..Len(lines)
      PROVE  LET piece == EndLine(lines[k])
                 m == Len(lines[k])
             IN  /\ piece \in Seq(Chars)
                 /\ m \in Nat /\ Len(piece) = m + 1
                 /\ piece[m + 1] = LF
                 /\ \A j \in 1..m : /\ piece[j] = lines[k][j]
                                    /\ piece[j] \notin {LF, CR, FF}
  <2> DEFINE l == lines[k]
  <2>1. l \in Seq(Chars) /\ OneLine(l)
      BY ElementOfSeq DEF TextLine
  <2>2. LF \in Chars
      BY TextAssumption
  <2> HIDE DEF l
  <2>3. /\ Append(l, LF) \in Seq(Chars)
        /\ Len(l) \in Nat /\ Len(Append(l, LF)) = Len(l) + 1
        /\ \A j \in 1..Len(l) : Append(l, LF)[j] = l[j]
        /\ Append(l, LF)[Len(l) + 1] = LF
      BY <2>1, <2>2, AppendProperties, LenProperties
  <2>4. \A j \in 1..Len(l) : l[j] \notin {LF, CR, FF}
      BY <2>1 DEF OneLine
  <2> QED BY <2>3, <2>4 DEF EndLine, l
<1>3. EndedPieces(lines) = [k \in 1..Len(lines) |-> EndLine(lines[k])]
    BY DEF EndedPieces
<1>4. EndedPieces(lines) \in Seq(Seq(Chars)) /\ Len(EndedPieces(lines)) = Len(lines)
    BY <1>1, <1>2, <1>3
<1>5. \A k \in 1..Len(lines) : EndedPieces(lines)[k] = EndLine(lines[k])
    BY <1>3
<1> QED BY <1>2, <1>4, <1>5 DEF IsEnded

\* A text made of ended lines has their breaks.
BreaksAt(lines, pieces, P, t) ==
    \A k \in 1..Len(lines) : t[P[k]] = pieces[k][Len(lines[k]) + 1]

(* A text made of ended lines has these lines, and is normalised.          *)
LEMMA EndedSplit ==
    ASSUME NEW lines \in Seq(TextLine), NEW t \in Seq(Chars),
           NEW q, IsEnded(q, lines), NEW P, Laid(P, q, t)
    PROVE  /\ NoReturns(t)
           /\ LinesOf(lines, [k \in 1..Len(lines) |-> P[k]], t)
           /\ BreaksAt(lines, q, P, t)
<1> DEFINE n == Len(lines)
           e == [k \in 1..n |-> P[k]]
<1>1. n \in Nat /\ Len(t) \in Nat
    BY LenProperties
<1>2. /\ q \in Seq(Seq(Chars)) /\ Len(q) = n
      /\ \A k \in 1..n :
            /\ Len(lines[k]) \in Nat /\ Len(q[k]) = Len(lines[k]) + 1
            /\ q[k][Len(lines[k]) + 1] \in {LF, FF}
            /\ \A j \in 1..Len(lines[k]) : /\ q[k][j] = lines[k][j]
                                           /\ q[k][j] \notin {LF, CR, FF}
    BY DEF IsEnded
<1>3. Laid(P, q, t)
    OBVIOUS
<1> HIDE DEF n
<1>4. /\ P[0] = 0 /\ Len(t) = P[n]
      /\ \A k \in 0..n : P[k] \in Nat
      /\ \A k \in 1..n : P[k] = P[k - 1] + Len(q[k])
      /\ \A k \in 1..n : \A j \in 1..Len(q[k]) : t[P[k - 1] + j] = q[k][j]
    BY <1>2, <1>3 DEF Laid, Offsets
<1>5. ASSUME NEW k \in 1..n
      PROVE  /\ k - 1 \in 0..n /\ P[k - 1] \in Nat /\ P[k] \in Nat
             /\ Len(lines[k]) \in Nat
             /\ P[k] = P[k - 1] + Len(lines[k]) + 1
             /\ t[P[k]] = q[k][Len(lines[k]) + 1] /\ t[P[k]] \in {LF, FF}
             /\ \A j \in 1..Len(lines[k]) : /\ t[P[k - 1] + j] = lines[k][j]
                                            /\ lines[k][j] \notin {LF, CR, FF}
             /\ P[k] <= Len(t)
  <2>1. k - 1 \in 0..n /\ k \in 0..n /\ n \in 0..n
      BY <1>1
  <2>2. P[k - 1] \in Nat /\ P[k] \in Nat /\ Len(lines[k]) \in Nat
      BY <1>2, <1>4, <2>1
  <2>3. P[k] = P[k - 1] + (Len(lines[k]) + 1)
      BY <1>2, <1>4
  <2>4. Len(lines[k]) + 1 \in 1..Len(q[k])
      BY <1>2, <2>2
  <2>5. t[P[k]] = q[k][Len(lines[k]) + 1] /\ t[P[k]] \in {LF, FF}
    <3>1. t[P[k - 1] + (Len(lines[k]) + 1)] = q[k][Len(lines[k]) + 1]
        BY <1>4, <2>4
    <3> QED BY <1>2, <2>3, <3>1
  <2>6. ASSUME NEW j \in 1..Len(lines[k])
        PROVE  /\ t[P[k - 1] + j] = lines[k][j]
               /\ lines[k][j] \notin {LF, CR, FF}
    <3>1. Len(q[k]) = Len(lines[k]) + 1
        BY <1>2
    <3>2. j \in 1..Len(q[k])
        BY <2>2, <3>1
    <3>3. t[P[k - 1] + j] = q[k][j]
        BY <1>4, <3>2
    <3> QED BY <1>2, <3>3
  <2>7. P[k] <= P[n]
    <3>1. q \in Seq(Seq(Chars)) /\ Len(q) = n /\ Offsets(P, q)
        BY <1>2, <1>3 DEF Laid
    <3>2. k <= n
        BY <1>1
    <3> QED BY <2>1, <3>1, <3>2, OffsetsGrow
  <2>8. P[k] <= Len(t)
      BY <1>4, <2>7
  <2>9. P[k] = P[k - 1] + Len(lines[k]) + 1
      BY <2>2, <2>3
  <2> QED BY <2>1, <2>2, <2>5, <2>6, <2>8, <2>9
<1>a. \A k \in 1..n : /\ k - 1 \in 0..n /\ P[k - 1] \in Nat /\ P[k] \in Nat
                      /\ Len(lines[k]) \in Nat
                      /\ P[k] = P[k - 1] + Len(lines[k]) + 1
    BY <1>5
<1>6. ASSUME NEW p \in 1..Len(t)
      PROVE  /\ t[p] # CR
             /\ t[p] \in {LF, CR, FF} => \E k \in 1..n : p = P[k]
  <2>0. PICK k \in 1..n : \E j \in 1..Len(q[k]) : p = P[k - 1] + j
    <3>1. q \in Seq(Seq(Chars)) /\ Len(q) = n
        BY <1>2
    <3>2. InPiece(P, q, p)
        BY <1>3, <3>1, LaidPosition
    <3> QED BY <3>1, <3>2 DEF InPiece
  <2>1. PICK j \in 1..Len(q[k]) : p = P[k - 1] + j
      BY <2>0
  <2>2. CASE j \in 1..Len(lines[k])
    <3>1. t[p] = lines[k][j] /\ lines[k][j] \notin {LF, CR, FF}
        BY <1>5, <2>1, <2>2
    <3> QED BY <3>1
  <2>3. CASE j = Len(lines[k]) + 1
    <3>1. p = P[k]
        BY <1>5, <2>1, <2>3
    <3> QED BY <1>5, <3>1, TextAssumption
  <2>4. j \in 1..Len(lines[k]) \/ j = Len(lines[k]) + 1
      BY <1>2
  <2> QED BY <2>2, <2>3, <2>4
<1>7. NoReturns(t)
    BY <1>6 DEF NoReturns
<1>8. LineEnds(t) = Breaks(t)
  <2>1. CASE n = 0
      BY <1>4, <2>1, EmptySeq DEF LineEnds
  <2>2. CASE n # 0
    <3>1. n \in 1..n
        BY <1>1, <2>2
    <3>2. Len(t) \in 1..Len(t) /\ t[Len(t)] \in {LF, FF}
        BY <1>1, <1>4, <1>5, <3>1
    <3> QED BY <3>2 DEF LineEnds, Breaks
  <2> QED BY <2>1, <2>2
<1>9. e \in Seq(Nat) /\ Len(e) = n /\ \A k \in 1..n : e[k] = P[k]
    BY <1>1, <1>5
<1> HIDE DEF e
<1>10. Lists(e, LineEnds(t), Len(t) + 1)
  <2>1. ASSUME NEW k \in 1..n
        PROVE  e[k] \in Breaks(t) /\ e[k] \in 1..(Len(t) + 1)
    <3>1. P[k] \in Nat /\ 1 <= P[k] /\ P[k] <= Len(t) /\ t[P[k]] \in {LF, FF}
        BY <1>5
    <3> QED BY <1>1, <1>9, <3>1 DEF Breaks
  <2>2. ASSUME NEW i \in 1..n, NEW k \in 1..n, i < k
        PROVE  e[i] < e[k]
    <3>1. i \in 0..n /\ k - 1 \in 0..n /\ i <= k - 1
        BY <1>1, <2>2
    <3>2. P[i] <= P[k - 1]
        BY <1>2, <1>3, <3>1, OffsetsGrow DEF Laid
    <3>3. P[i] \in Nat
        BY <1>a
    <3>4. P[k - 1] \in Nat /\ P[k] \in Nat /\ P[k] = P[k - 1] + Len(lines[k]) + 1
          /\ Len(lines[k]) \in Nat
        BY <1>a
    <3>5. P[k - 1] < P[k]
        BY <3>4
    <3> QED BY <1>9, <3>2, <3>3, <3>4, <3>5
  <2>3. ASSUME NEW p \in 1..(Len(t) + 1), p \in Breaks(t)
        PROVE  \E k \in 1..n : e[k] = p
      BY <1>6, <1>9, <2>3 DEF Breaks
  <2> QED BY <1>8, <1>9, <2>1, <2>2, <2>3 DEF Lists
<1>11. ASSUME NEW k \in 1..n
       PROVE  /\ Len(lines[k]) = e[k] - Start(e, k)
              /\ \A j \in 1..Len(lines[k]) : lines[k][j] = t[Start(e, k) + j - 1]
  <2>1. Start(e, k) = P[k - 1] + 1
    <3>1. CASE k = 1
        BY <1>4, <3>1 DEF Start
    <3>2. CASE k # 1
      <4>1. k - 1 \in 1..n
          BY <1>1, <3>2
      <4> QED BY <1>9, <3>2, <4>1 DEF Start
    <3> QED BY <3>1, <3>2
  <2>2. Len(lines[k]) = e[k] - Start(e, k)
    <3>1. e[k] = P[k]
        BY <1>9
    <3> QED BY <1>a, <2>1, <3>1
  <2>3. ASSUME NEW j \in 1..Len(lines[k])
        PROVE  lines[k][j] = t[Start(e, k) + j - 1]
    <3>1. Start(e, k) + j - 1 = P[k - 1] + j
        BY <1>5, <2>1
    <3> QED BY <1>5, <3>1
  <2> QED BY <2>2, <2>3
<1>12. LinesOf(lines, e, t)
    BY <1>9, <1>10, <1>11 DEF LinesOf, n
<1>13. BreaksAt(lines, q, P, t)
    BY <1>5 DEF BreaksAt, n
<1> QED BY <1>7, <1>12, <1>13 DEF e, n

LEMMA FrontIs ==
    ASSUME NEW C, NEW s \in Seq(C), s # <<>>
    PROVE  /\ Len(s) - 1 \in Nat
           /\ Front(s) \in Seq(C) /\ Len(Front(s)) = Len(s) - 1
           /\ \A i \in 1..(Len(s) - 1) : Front(s)[i] = s[i]
<1> DEFINE b == Len(s) - 1
<1>1. Len(s) \in Nat /\ Len(s) # 0
    BY LenProperties, EmptySeq
<1>2. b \in Nat /\ b \in Int /\ b <= Len(s) /\ b = Len(s) - 1
    BY <1>1
<1> HIDE DEF b
<1>3. \A i \in 1..b : s[i] \in C
    BY <1>1, <1>2, ElementOfSeq
<1>4. /\ SubSeq(s, 1, b) \in Seq(C)
      /\ Len(SubSeq(s, 1, b)) = IF 1 <= b THEN b - 1 + 1 ELSE 0
      /\ \A i \in 1..(b - 1 + 1) : SubSeq(s, 1, b)[i] = s[1 + i - 1]
    BY <1>2, <1>3, SubSeqProperties
<1>5. b - 1 + 1 = b /\ \A i \in 1..b : 1 + i - 1 = i
    BY <1>2
<1>6. Len(SubSeq(s, 1, b)) = b /\ \A i \in 1..b : SubSeq(s, 1, b)[i] = s[i]
    BY <1>2, <1>4, <1>5
<1> QED BY <1>2, <1>4, <1>6 DEF Front, b

(* The lines of a text with a newline added are those of the text, or one  *)
(* blank line more when the text ends with a break.                        *)
LEMMA AddNewline ==
    ASSUME NEW t, NoReturns(t), NEW lines, NEW e, LinesOf(lines, e, Append(t, LF))
    PROVE  /\ lines # <<>> /\ Len(lines) \in Nat
           /\ lines[Len(lines)] = <<>> <=> (t = <<>> \/ Len(t) \in Breaks(t))
           /\ lines[Len(lines)] # <<>> => LinesOf(lines, e, t)
           /\ lines[Len(lines)] = <<>> => LinesOf(Front(lines), Front(e), t)
<1> DEFINE T == Append(t, LF)
           m == Len(t)
           n == Len(e)
<1>1. /\ t \in Seq(Chars) /\ m \in Nat
      /\ T \in Seq(Chars) /\ Len(T) = m + 1
      /\ \A i \in 1..m : T[i] = t[i]
      /\ T[m + 1] = LF
    BY AppendProperties, LenProperties, TextAssumption DEF NoReturns
<1>2. LinesOf(lines, e, T)
    OBVIOUS
<1> HIDE DEF T
<1>3. Breaks(T) = Breaks(t) \cup {m + 1} /\ Breaks(t) \subseteq 1..m
    BY <1>1 DEF Breaks
<1>4. LineEnds(T) = Breaks(t) \cup {m + 1}
    BY <1>1, <1>3 DEF LineEnds
<1>5. Lists(e, LineEnds(T), m + 2)
  <2>1. (m + 1) + 1 = m + 2
      BY <1>1
  <2> QED BY <1>1, <1>2, <2>1 DEF LinesOf
<1>6. /\ n \in Nat /\ e \in Seq(Nat)
      /\ lines \in Seq(TextLine) /\ Len(lines) = n
    BY <1>2, <1>5, LenProperties DEF LinesOf, Lists
<1> HIDE DEF n
<1>7. /\ \A i \in 1..n : e[i] \in LineEnds(T) /\ e[i] \in 1..(m + 2)
      /\ \A i, j \in 1..n : i < j => e[i] < e[j]
      /\ \A x \in 1..(m + 2) : x \in LineEnds(T) => \E i \in 1..n : e[i] = x
    BY <1>5 DEF Lists, n
<1>8. n # 0 /\ n \in 1..n /\ e[n] = m + 1
  <2>1. m + 1 \in 1..(m + 2) /\ m + 1 \in LineEnds(T)
      BY <1>1, <1>4
  <2>2. PICK i \in 1..n : e[i] = m + 1
      BY <1>7, <2>1
  <2>3. n # 0 /\ n \in 1..n
      BY <1>6
  <2>4. e[n] \in 1..(m + 1)
      BY <1>1, <1>3, <1>4, <1>7, <2>3
  <2>5. CASE i = n
      BY <2>2, <2>3, <2>5
  <2>6. CASE i < n
    <3>1. e[i] < e[n]
        BY <1>7, <2>3, <2>6
    <3> QED BY <1>1, <2>2, <2>4, <3>1
  <2> QED BY <1>6, <2>3, <2>5, <2>6
<1>9. \A i \in 1..n : e[i] \in 1..(m + 1) /\ e[i] \in Breaks(t) \cup {m + 1}
    BY <1>1, <1>3, <1>4, <1>7
<1>10. ASSUME NEW i \in 1..n, i # n
       PROVE  e[i] \in Breaks(t) /\ e[i] \in 1..m
  <2>1. i < n
      BY <1>6, <1>10
  <2>2. e[i] < m + 1
      BY <1>7, <1>8, <2>1
  <2> QED BY <1>1, <1>9, <2>2
\* A line of T is a stretch of t.
<1>11. ASSUME NEW k \in 1..n
       PROVE  /\ Len(lines[k]) = e[k] - Start(e, k)
              /\ Start(e, k) \in Nat /\ 1 <= Start(e, k) /\ Start(e, k) <= e[k]
              /\ \A j \in 1..Len(lines[k]) : lines[k][j] = t[Start(e, k) + j - 1]
  <2>1. /\ Len(lines[k]) = e[k] - Start(e, k)
        /\ \A j \in 1..Len(lines[k]) : lines[k][j] = T[Start(e, k) + j - 1]
      BY <1>2 DEF LinesOf, n
  <2>2. Start(e, k) \in Nat /\ 1 <= Start(e, k) /\ Start(e, k) <= e[k]
    <3>1. m + 2 \in Nat /\ k \in 1..Len(e)
        BY <1>1 DEF n
    <3> QED BY <1>5, <3>1, StartType
  <2>3. ASSUME NEW j \in 1..Len(lines[k])
        PROVE  Start(e, k) + j - 1 \in 1..m
    <3>1. e[k] \in 1..(m + 1)
        BY <1>9
    <3> QED BY <1>1, <2>1, <2>2, <3>1
  <2> QED BY <1>1, <2>1, <2>2, <2>3
\* Whether the last line is blank.
<1>12. lines[n] \in Seq(Chars) /\ Len(lines[n]) = (m + 1) - Start(e, n)
  <2>1. lines[n] \in TextLine
      BY <1>6, <1>8, ElementOfSeq
  <2> QED BY <1>8, <1>11, <2>1 DEF TextLine
<1>13. Start(e, n) = m + 1 <=> (t = <<>> \/ m \in Breaks(t))
  <2>1. CASE n = 1
    <3>1. Start(e, n) = 1
        BY <2>1 DEF Start
    <3>2. Breaks(t) = {}
      <4>1. ASSUME NEW x \in Breaks(t)
            PROVE  FALSE
        <5>1. x \in 1..m /\ x \in 1..(m + 2) /\ x \in LineEnds(T)
            BY <1>1, <1>3, <1>4
        <5>2. PICK i \in 1..n : e[i] = x
            BY <1>7, <5>1
        <5>3. i = n
            BY <2>1
        <5> QED BY <1>1, <1>8, <5>1, <5>2, <5>3
      <4> QED BY <4>1
    <3>3. m = 0 <=> t = <<>>
        BY <1>1, EmptySeq
    <3> QED BY <1>1, <3>1, <3>2, <3>3
  <2>2. CASE n # 1
    <3>1. n - 1 \in 1..n /\ n - 1 # n
        BY <1>6, <1>8, <2>2
    <3>2. Start(e, n) = e[n - 1] + 1
        BY <2>2 DEF Start
    <3>3. e[n - 1] \in Breaks(t) /\ e[n - 1] \in 1..m
        BY <1>10, <3>1
    <3>4. m # 0 /\ t # <<>>
        BY <1>1, <3>3, EmptySeq
    <3>5. ASSUME m \in Breaks(t)
          PROVE  e[n - 1] = m
      <4>1. m \in 1..(m + 2) /\ m \in LineEnds(T)
          BY <1>1, <1>4, <3>4, <3>5
      <4>2. PICK i \in 1..n : e[i] = m
          BY <1>7, <4>1
      <4>3. i # n
          BY <1>1, <1>8, <4>2
      <4>4. CASE i < n - 1
        <5>1. e[i] < e[n - 1]
            BY <1>7, <3>1, <4>4
        <5> QED BY <1>1, <3>3, <4>2, <5>1
      <4> QED BY <1>6, <4>2, <4>3, <4>4
    <3> QED BY <1>1, <3>2, <3>3, <3>4, <3>5
  <2> QED BY <2>1, <2>2
<1>14. lines[n] = <<>> <=> (t = <<>> \/ m \in Breaks(t))
  <2>1. lines[n] = <<>> <=> Len(lines[n]) = 0
      BY <1>12, EmptySeq
  <2>2. Start(e, n) \in Nat
      BY <1>8, <1>11
  <2> QED BY <1>1, <1>12, <1>13, <2>1, <2>2
<1>15. ASSUME lines[n] # <<>>
       PROVE  LinesOf(lines, e, t)
  <2>1. LineEnds(t) = LineEnds(T)
      BY <1>4, <1>14, <1>15 DEF LineEnds
  <2>2. \A x \in 1..(m + 1) : x \in 1..(m + 2)
      BY <1>1
  <2>3. Lists(e, LineEnds(t), m + 1)
      BY <1>6, <1>7, <1>9, <2>1, <2>2 DEF Lists, n
  <2> QED BY <1>6, <1>11, <2>3 DEF LinesOf, n
<1>16. ASSUME lines[n] = <<>>
       PROVE  LinesOf(Front(lines), Front(e), t)
  <2> DEFINE f == Front(e)
             ls == Front(lines)
  <2>1. /\ f \in Seq(Nat) /\ Len(f) = n - 1
        /\ \A i \in 1..(n - 1) : f[i] = e[i]
    <3>1. e # <<>>
        BY <1>6, <1>8, EmptySeq DEF n
    <3> QED BY <1>6, <3>1, FrontIs DEF n
  <2>2. /\ ls \in Seq(TextLine) /\ Len(ls) = n - 1
        /\ \A i \in 1..(n - 1) : ls[i] = lines[i]
    <3>1. lines # <<>>
        BY <1>6, <1>8, EmptySeq
    <3> QED BY <1>6, <3>1, FrontIs
  <2> HIDE DEF f, ls
  <2>3. LineEnds(t) = Breaks(t)
      BY <1>14, <1>16 DEF LineEnds
  <2>4. \A i \in 1..(n - 1) : i \in 1..n /\ i # n
      BY <1>6
  <2>5. ASSUME NEW x \in 1..(m + 1), x \in Breaks(t)
        PROVE  \E i \in 1..(n - 1) : f[i] = x
    <3>1. x \in 1..m /\ x \in 1..(m + 2) /\ x \in LineEnds(T)
        BY <1>1, <1>3, <1>4, <2>5
    <3>2. PICK i \in 1..n : e[i] = x
        BY <1>7, <3>1
    <3>3. i # n
        BY <1>1, <1>8, <3>1, <3>2
    <3>4. i \in 1..(n - 1)
        BY <1>6, <3>3
    <3> QED BY <2>1, <3>2, <3>4
  <2>6. Lists(f, LineEnds(t), m + 1)
    <3>1. \A i \in 1..(n - 1) : f[i] \in Breaks(t) /\ f[i] \in 1..(m + 1)
        BY <1>9, <1>10, <2>1, <2>4
    <3>2. \A i, j \in 1..(n - 1) : i < j => f[i] < f[j]
        BY <1>7, <2>1, <2>4
    <3> QED BY <2>1, <2>3, <2>5, <3>1, <3>2 DEF Lists
  <2>7. ASSUME NEW k \in 1..(n - 1)
        PROVE  /\ Len(ls[k]) = f[k] - Start(f, k)
               /\ \A j \in 1..Len(ls[k]) : ls[k][j] = t[Start(f, k) + j - 1]
    <3>1. Start(f, k) = Start(e, k)
      <4>1. CASE k = 1
          BY <4>1 DEF Start
      <4>2. CASE k # 1
        <5>1. k - 1 \in 1..(n - 1)
            BY <1>6, <4>2
        <5> QED BY <2>1, <4>2, <5>1 DEF Start
      <4> QED BY <4>1, <4>2
    <3>2. ls[k] = lines[k] /\ f[k] = e[k] /\ k \in 1..n
        BY <2>1, <2>2, <2>4
    <3> QED BY <1>11, <3>1, <3>2
  <2>8. LinesOf(ls, f, t)
      BY <2>1, <2>2, <2>6, <2>7 DEF LinesOf
  <2> QED BY <2>8 DEF ls, f
<1>17. lines # <<>>
    BY <1>6, <1>8, EmptySeq
<1> QED BY <1>6, <1>14, <1>15, <1>16, <1>17

(* What Join makes of some lines, with a newline after it, is these lines  *)
(* ended one by one.                                                       *)
LEMMA JoinLaid ==
    ASSUME NEW lines \in Seq(TextLine), lines # <<>>
    PROVE  /\ Join(lines) \in Seq(Chars)
           /\ \E P : Laid(P, EndedPieces(lines), EndLine(Join(lines)))
<1> DEFINE n == Len(lines)
           t == Join(lines)
           r == EndedPieces(lines)
           q == [k \in 1..n |-> IF k < n THEN EndLine(lines[k]) ELSE lines[k]]
<1>1. n \in Nat /\ n # 0 /\ n \in 1..n
    BY LenProperties, EmptySeq
<1>2. \A k \in 1..n : lines[k] \in Seq(Chars) /\ EndLine(lines[k]) \in Seq(Chars)
  <2> TAKE k \in 1..n
  <2>1. lines[k] \in Seq(Chars)
      BY ElementOfSeq DEF TextLine
  <2> QED BY <2>1, AppendProperties, TextAssumption DEF EndLine
<1>3. /\ q \in Seq(Seq(Chars)) /\ Len(q) = n /\ q[n] = lines[n]
      /\ \A k \in 1..n : k # n => q[k] = EndLine(lines[k])
    BY <1>1, <1>2
<1>4. t = FlattenSeq(q)
    BY DEF Join
<1>5. /\ Len(r) = n /\ \A k \in 1..n : r[k] = EndLine(lines[k])
      /\ r[n] = Append(lines[n], LF)
    BY <1>1 DEF EndedPieces, EndLine
<1> HIDE DEF q, t, r
<1>6. t \in Seq(Chars) /\ \E P : Laid(P, q, t)
    BY <1>3, <1>4, FlattenLaid
<1>7. PICK P : Laid(P, q, t)
    BY <1>6
<1> HIDE DEF n
<1>8. /\ P \in [0..n -> Nat] /\ P[0] = 0 /\ Len(t) = P[n]
      /\ \A k \in 1..n : P[k] = P[k - 1] + Len(q[k])
      /\ \A k \in 1..n : \A j \in 1..Len(q[k]) : t[P[k - 1] + j] = q[k][j]
    BY <1>3, <1>7 DEF Laid, Offsets
<1> DEFINE p == P[n]
           R == [k \in 0..n |-> IF k = n THEN p + 1 ELSE P[k]]
           T == Append(t, LF)
<1>9. /\ T \in Seq(Chars) /\ Len(T) = p + 1 /\ T[p + 1] = LF
      /\ \A i \in 1..p : T[i] = t[i]
    BY <1>6, <1>8, AppendProperties, LenProperties, TextAssumption
<1>10. /\ R \in [0..n -> Nat] /\ R[0] = 0 /\ R[n] = p + 1
       /\ \A k \in 0..n : k # n => R[k] = P[k]
    BY <1>1, <1>8
<1> HIDE DEF T, R
<1>11. lines[n] \in Seq(Chars) /\ q[n] \in Seq(Chars)
    BY <1>1, <1>2, <1>3
<1>12. /\ Len(lines[n]) \in Nat /\ Len(r[n]) = Len(lines[n]) + 1
       /\ \A j \in 1..Len(lines[n]) : r[n][j] = lines[n][j]
       /\ r[n][Len(lines[n]) + 1] = LF
    BY <1>5, <1>11, AppendProperties, LenProperties, TextAssumption
<1>13. p \in Nat /\ P[n - 1] \in Nat /\ p = P[n - 1] + Len(lines[n]) /\ n - 1 \in 0..n
       /\ n - 1 # n
    BY <1>1, <1>3, <1>8
<1>14. ASSUME NEW k \in 1..n
       PROVE  R[k] = R[k - 1] + Len(r[k])
  <2>1. k - 1 \in 0..n /\ k - 1 # n /\ k \in 0..n
      BY <1>1
  <2>2. R[k - 1] = P[k - 1]
      BY <1>10, <2>1
  <2>3. CASE k = n
      BY <1>10, <1>12, <1>13, <2>2, <2>3
  <2>4. CASE k # n
    <3>1. R[k] = P[k] /\ r[k] = q[k]
        BY <1>3, <1>5, <1>10, <2>1, <2>4
    <3> QED BY <1>8, <2>2, <3>1
  <2> QED BY <2>3, <2>4
<1>15. ASSUME NEW k \in 1..n, NEW j \in 1..Len(r[k])
       PROVE  T[R[k - 1] + j] = r[k][j]
  <2>1. k - 1 \in 0..n /\ k - 1 # n /\ k \in 0..n
      BY <1>1
  <2>2. R[k - 1] = P[k - 1] /\ P[k - 1] \in Nat
      BY <1>8, <1>10, <2>1
  <2>3. CASE k = n
    <3>1. CASE j = Len(lines[n]) + 1
      <4>1. P[k - 1] + j = p + 1
          BY <1>12, <1>13, <2>3, <3>1
      <4> QED BY <1>9, <1>12, <2>2, <2>3, <3>1, <4>1
    <3>2. CASE j \in 1..Len(lines[n])
      <4>1. P[n - 1] + j \in 1..p
          BY <1>12, <1>13, <3>2
      <4>2. t[P[n - 1] + j] = q[n][j]
          BY <1>1, <1>3, <1>8, <3>2
      <4>3. q[n][j] = r[n][j]
          BY <1>3, <1>12, <3>2
      <4> QED BY <1>9, <2>2, <2>3, <4>1, <4>2, <4>3
    <3>3. j = Len(lines[n]) + 1 \/ j \in 1..Len(lines[n])
        BY <1>12, <2>3
    <3> QED BY <3>1, <3>2, <3>3
  <2>4. CASE k # n
    <3>1. r[k] = q[k] /\ j \in 1..Len(q[k]) /\ q[k] \in Seq(Chars)
        BY <1>2, <1>3, <1>5, <2>4
    <3>2. t[P[k - 1] + j] = q[k][j]
        BY <1>8, <3>1
    <3>3. P[k] = P[k - 1] + Len(q[k]) /\ Len(q[k]) \in Nat
        BY <1>8, <3>1, LenProperties
    <3>4. P[k] <= p
      <4>1. n \in 0..n /\ k <= n /\ k \in 0..n
          BY <1>1
      <4>2. q \in Seq(Seq(Chars)) /\ Len(q) = n /\ Offsets(P, q)
          BY <1>3, <1>7 DEF Laid
      <4>3. \A i, m \in 0..Len(q) : i <= m => P[i] <= P[m]
          BY <4>2, OffsetsGrow
      <4> QED BY <4>1, <4>2, <4>3
    <3>5. P[k - 1] + j \in 1..p
      <4>1. j \in Nat /\ 1 <= j /\ j <= Len(q[k])
          BY <3>1, <3>3
      <4> QED BY <1>13, <2>2, <3>3, <3>4, <4>1
    <3> QED BY <1>9, <2>2, <3>1, <3>2, <3>5
  <2> QED BY <2>3, <2>4
<1>16. Laid(R, r, T)
    BY <1>5, <1>9, <1>10, <1>14, <1>15 DEF Laid, Offsets
<1> QED BY <1>6, <1>16 DEF T, t, r, EndLine

LEMMA SplitEmpty == splitlines(<<>>) = <<>>
<1>1. NoReturns(<<>>) /\ Len(<<>>) = 0
    BY EmptySeq DEF NoReturns
<1>2. LineEnds(<<>>) = {}
    BY <1>1 DEF LineEnds, Breaks
<1>3. Lists(<<>>, {}, 1)
    BY EmptySeq DEF Lists
<1>4. LinesOf(<<>>, <<>>, <<>>)
    BY <1>1, <1>2, <1>3, EmptySeq DEF LinesOf
<1> QED BY <1>1, <1>4, SplitIs

(* The lines that are joined are read back, but for a last line that is    *)
(* empty; all of them, when a newline is added.                            *)
LEMMA JoinSplit ==
    ASSUME NEW lines \in Seq(TextLine), lines # <<>>
    PROVE  /\ NoReturns(Join(lines)) /\ NoReturns(EndLine(Join(lines)))
           /\ splitlines(EndLine(Join(lines))) = lines
           /\ ReadsAs(splitlines(Join(lines)), lines)
<1> DEFINE t == Join(lines)
           T == Append(t, LF)
<1>1. t \in Seq(Chars)
    BY JoinLaid
<1>2. PICK P : Laid(P, EndedPieces(lines), T)
    BY JoinLaid DEF EndLine
<1> HIDE DEF t
<1>3. /\ T \in Seq(Chars) /\ Len(T) = Len(t) + 1 /\ Len(t) \in Nat
      /\ \A i \in 1..Len(t) : T[i] = t[i]
    BY <1>1, AppendProperties, LenProperties, TextAssumption
<1> DEFINE e == [k \in 1..Len(lines) |-> P[k]]
<1>4. NoReturns(T) /\ LinesOf(lines, e, T)
  <2> HIDE DEF T
  <2> QED BY <1>2, <1>3, EndedSplit, EndedPiecesShape
<1> HIDE DEF e
<1>5. NoReturns(t)
    BY <1>1, <1>3, <1>4 DEF NoReturns
<1>6. splitlines(T) = lines
    BY <1>4, SplitIs
<1>7. /\ lines[Len(lines)] # <<>> => LinesOf(lines, e, t)
      /\ lines[Len(lines)] = <<>> => LinesOf(Front(lines), Front(e), t)
    BY <1>4, <1>5, AddNewline
<1>8. ReadsAs(splitlines(t), lines)
  <2>1. CASE lines[Len(lines)] # <<>>
    <3>1. splitlines(t) = lines
        BY <1>5, <1>7, <2>1, SplitIs
    <3> QED BY <3>1 DEF ReadsAs
  <2>2. CASE lines[Len(lines)] = <<>>
    <3>1. splitlines(t) = Front(lines)
        BY <1>5, <1>7, <2>2, SplitIs
    <3> QED BY <2>2, <3>1 DEF ReadsAs, Last
  <2> QED BY <2>1, <2>2
<1> QED BY <1>4, <1>5, <1>6, <1>8 DEF t, EndLine

LEMMA JoinNothing ==
    /\ Join(<<>>) = <<>> /\ NoReturns(<<>>)
    /\ NoReturns(EndLine(<<>>)) /\ splitlines(EndLine(<<>>)) = << <<>> >>
<1> DEFINE T == <<LF>>
<1>1. EndLine(<<>>) = T /\ T \in Seq(Chars) /\ Len(T) = 1 /\ T[1] = LF
    BY TextAssumption DEF EndLine
<1>2. NoReturns(T) /\ NoReturns(<<>>)
    BY <1>1, TextAssumption, EmptySeq DEF NoReturns
<1>3. LineEnds(T) = {1}
  <2>1. Breaks(T) = {1}
      BY <1>1 DEF Breaks
  <2> QED BY <1>1, <2>1 DEF LineEnds
<1>4. Lists(<<1>>, {1}, 2)
    BY DEF Lists
<1>5. LinesOf(<< <<>> >>, <<1>>, T)
  <2>1. <<>> \in TextLine
      BY EmptySeq DEF TextLine, OneLine
  <2>2. << <<>> >> \in Seq(TextLine) /\ Len(<< <<>> >>) = 1
      BY <2>1
  <2>3. Start(<<1>>, 1) = 1
      BY DEF Start
  <2> DEFINE e == <<1>>
             lines == << <<>> >>
  <2>4. /\ Len(e) = 1 /\ e[1] = 1 /\ lines[1] = <<>> /\ Start(e, 1) = 1
        /\ lines \in Seq(TextLine) /\ Len(lines) = 1
      BY <2>2, <2>3
  <2>5. Lists(e, LineEnds(T), Len(T) + 1)
      BY <1>1, <1>3, <1>4
  <2> HIDE DEF e, lines, T
  <2>6. LinesOf(lines, e, T)
      BY <2>4, <2>5, EmptySeq DEF LinesOf
  <2> QED BY <2>6 DEF e, lines
<1>6. splitlines(T) = << <<>> >>
    BY <1>2, <1>5, SplitIs
<1>7. Join(<<>>) = <<>>
    BY EmptySeq DEF Join, FlattenSeq
<1> QED BY <1>1, <1>2, <1>6, <1>7

-----------------------------------------------------------------------------
(* Edits by line number.                                                   *)

LEMMA SubSeqIs ==
    ASSUME NEW C, NEW s \in Seq(C), NEW a \in Nat, NEW b \in Nat,
           1 <= a, a <= b + 1, b <= Len(s)
    PROVE  /\ SubSeq(s, a, b) \in Seq(C)
           /\ Len(SubSeq(s, a, b)) = b + 1 - a
           /\ \A i \in 1..(b + 1 - a) : SubSeq(s, a, b)[i] = s[a + i - 1]
<1>1. \A i \in a..b : s[i] \in C
    BY LenProperties, ElementOfSeq
<1>2. /\ SubSeq(s, a, b) \in Seq(C)
      /\ Len(SubSeq(s, a, b)) = IF a <= b THEN b - a + 1 ELSE 0
      /\ \A i \in 1..(b - a + 1) : SubSeq(s, a, b)[i] = s[a + i - 1]
    BY <1>1, SubSeqProperties
<1>3. b - a + 1 = b + 1 - a
    OBVIOUS
<1>4. Len(SubSeq(s, a, b)) = b + 1 - a
    BY <1>2
<1> QED BY <1>2, <1>3, <1>4

LEMMA SplitType ==
    ASSUME NEW t, NoReturns(t)
    PROVE  splitlines(t) \in Seq(TextLine) /\ Len(splitlines(t)) \in Nat
<1>1. splitlines(t) \in Seq(TextLine)
    BY SplitShape DEF LinesOf
<1> QED BY <1>1, LenProperties

LEMMA EditedLinesType ==
    ASSUME NEW raw, NoReturns(raw), NEW new \in Seq(Chars),
           NEW s \in Nat, NEW e \in Nat, ValidRange(s, e, Len(splitlines(raw)))
    PROVE  EditedLines(raw, s, e, new) \in Seq(TextLine)
<1> DEFINE lines == splitlines(raw)
           mid == splitlines(normalize_line_endings(new))
<1>1. lines \in Seq(TextLine) /\ Len(lines) \in Nat
    BY SplitType
<1>2. mid \in Seq(TextLine)
    BY NormalizeNormal, SplitType
<1>3. s - 1 \in Nat /\ s - 1 <= Len(lines) /\ 1 <= s /\ s <= e /\ e <= Len(lines)
    BY <1>1 DEF ValidRange
<1> HIDE DEF lines, mid
<1>4. SubSeq(lines, 1, s - 1) \in Seq(TextLine)
    BY <1>1, <1>3, SubSeqIs
<1>5. SubSeq(lines, e + 1, Len(lines)) \in Seq(TextLine)
  <2>1. e + 1 \in Nat /\ 1 <= e + 1 /\ e + 1 <= Len(lines) + 1
      BY <1>1, <1>3
  <2> QED BY <1>1, <2>1, SubSeqIs
<1> DEFINE a == SubSeq(lines, 1, s - 1)
           b == SubSeq(lines, e + 1, Len(lines))
<1>6. a \in Seq(TextLine) /\ b \in Seq(TextLine)
    BY <1>4, <1>5
<1> HIDE DEF a, b
<1>7. Cat(Cat(a, mid), b) \in Seq(TextLine)
    BY <1>2, <1>6, CatProperties
<1>8. (a \o mid) \o b \in Seq(TextLine)
    BY <1>7 DEF Cat
<1> QED BY <1>8 DEF EditedLines, a, b, lines, mid

(* What a line edit leaves reads as the lines around the range with the    *)
(* new ones between them.                                                  *)
LEMMA LineEditReads ==
    ASSUME NEW raw, NoReturns(raw), NEW new \in Seq(Chars),
           NEW s \in Nat, NEW e \in Nat, ValidRange(s, e, Len(splitlines(raw)))
    PROVE  LET expected == EditedLines(raw, s, e, new)
               got == splitlines(Assembled(raw, s, e, new))
           IN  /\ NoReturns(Assembled(raw, s, e, new))
               /\ \/ /\ ReadsAs(got, expected)
                     /\ got # expected => ~ EndsWithNewline(raw)
                  \/ expected = <<>> /\ got = << <<>> >> /\ EndsWithNewline(raw)
<1> DEFINE lines == EditedLines(raw, s, e, new)
<1>1. lines \in Seq(TextLine)
    BY EditedLinesType
<1>2. raw # <<>>
  <2>1. SUFFICES ASSUME raw = <<>>
                 PROVE  FALSE
      OBVIOUS
  <2>2. Len(splitlines(raw)) = 0
      BY <2>1, SplitEmpty, EmptySeq
  <2> QED BY <2>2 DEF ValidRange
<1>3. Assembled(raw, s, e, new) =
         IF EndsWithNewline(raw) THEN EndLine(Join(lines)) ELSE Join(lines)
    BY <1>2 DEF Assembled
<1> HIDE DEF lines
<1>4. CASE lines # <<>>
  <2>1. /\ NoReturns(Join(lines)) /\ NoReturns(EndLine(Join(lines)))
        /\ splitlines(EndLine(Join(lines))) = lines
        /\ ReadsAs(splitlines(Join(lines)), lines)
      BY <1>1, <1>4, JoinSplit
  <2>2. ReadsAs(lines, lines)
      BY DEF ReadsAs
  <2> QED BY <1>3, <2>1, <2>2 DEF lines
<1>5. CASE lines = <<>>
  <2>1. /\ NoReturns(Join(lines)) /\ NoReturns(EndLine(Join(lines)))
        /\ splitlines(EndLine(Join(lines))) = << <<>> >>
        /\ splitlines(Join(lines)) = <<>>
      BY <1>5, JoinNothing, SplitEmpty
  <2>2. ReadsAs(<<>>, <<>>)
      BY DEF ReadsAs
  <2> QED BY <1>3, <1>5, <2>1, <2>2 DEF lines
<1> QED BY <1>4, <1>5

\* The largest number of a list is its last.
LEMMA ListsLast ==
    ASSUME NEW n \in Nat, NEW I, NEW e, Lists(e, I, n),
           NEW x \in 1..n, x \in I, \A y \in 1..n : y \in I => y <= x
    PROVE  Len(e) \in 1..Len(e) /\ e[Len(e)] = x
<1>1. Len(e) \in Nat
    BY LenProperties DEF Lists
<1>2. PICK i \in 1..Len(e) : e[i] = x
    BY DEF Lists
<1>3. Len(e) \in 1..Len(e)
    BY <1>1, <1>2
<1>4. e[Len(e)] \in 1..n /\ e[Len(e)] <= x
    BY <1>3 DEF Lists
<1>5. CASE i = Len(e)
    BY <1>2, <1>3, <1>5
<1>6. CASE i < Len(e)
  <2>1. e[i] < e[Len(e)]
      BY <1>3, <1>6 DEF Lists
  <2> QED BY <1>2, <1>4, <2>1
<1> QED BY <1>1, <1>3, <1>5, <1>6

\* Where the last line ends.
LEMMA LastEnd ==
    ASSUME NEW t, NoReturns(t), t # <<>>, NEW e, Lists(e, LineEnds(t), Len(t) + 1)
    PROVE  /\ Len(e) \in 1..Len(e) /\ Len(t) \in 1..Len(t)
           /\ e[Len(e)] = IF t[Len(t)] \in {LF, FF} THEN Len(t) ELSE Len(t) + 1
<1> DEFINE m == Len(t)
<1>1. t \in Seq(Chars) /\ m \in Nat /\ m # 0 /\ m \in 1..m /\ t[m] # CR
    BY LenProperties, EmptySeq DEF NoReturns
<1>2. Breaks(t) \subseteq 1..m /\ (m \in Breaks(t) <=> t[m] \in {LF, FF})
    BY <1>1 DEF Breaks
<1>3. m + 1 \in Nat /\ m \in 1..(m + 1) /\ m + 1 \in 1..(m + 1)
    BY <1>1
<1>4. CASE m \in Breaks(t)
  <2>1. LineEnds(t) = Breaks(t)
      BY <1>4 DEF LineEnds
  <2>2. \A y \in 1..(m + 1) : y \in LineEnds(t) => y <= m
      BY <1>1, <1>2, <2>1
  <2>3. Len(e) \in 1..Len(e) /\ e[Len(e)] = m
      BY <1>3, <1>4, <2>1, <2>2, ListsLast
  <2> QED BY <1>1, <1>2, <1>4, <2>3
<1>5. CASE m \notin Breaks(t)
  <2>1. LineEnds(t) = Breaks(t) \cup {m + 1}
      BY <1>5 DEF LineEnds
  <2>2. \A y \in 1..(m + 1) : y \in LineEnds(t) => y <= m + 1
      BY <1>1
  <2>3. Len(e) \in 1..Len(e) /\ e[Len(e)] = m + 1
      BY <1>3, <2>1, <2>2, ListsLast
  <2> QED BY <1>1, <1>2, <1>5, <2>3
<1> QED BY <1>4, <1>5

\* The lines of a text end where they end when put together again.
LEMMA EndsAgree ==
    ASSUME NEW t, NoReturns(t), NEW lines, NEW e, LinesOf(lines, e, t),
           NEW P, Offsets(P, EndedPieces(lines))
    PROVE  \A k \in 1..Len(lines) : e[k] = P[k] /\ Start(e, k) = P[k - 1] + 1
<1> DEFINE n == Len(lines)
           q == EndedPieces(lines)
           S == {k \in Nat : k # 0 => e[k] = P[k]}
<1>1. /\ lines \in Seq(TextLine) /\ n \in Nat /\ Len(e) = n
      /\ \A k \in 1..n : e[k] \in Nat
    BY LenProperties DEF LinesOf, Lists
<1>2. Len(q) = n /\ \A k \in 1..n : Len(lines[k]) \in Nat /\ Len(q[k]) = Len(lines[k]) + 1
    BY <1>1, EndedPiecesShape DEF IsEnded
<1>3. Offsets(P, q)
    OBVIOUS
<1> HIDE DEF n, q
<1>4. P[0] = 0 /\ \A k \in 1..n : P[k] = P[k - 1] + Len(q[k])
    BY <1>2, <1>3 DEF Offsets
<1>5. \A k \in 0..n : P[k] \in Nat
    BY <1>2, <1>3 DEF Offsets
<1>6. ASSUME NEW k \in Nat, k < n, k # 0 => e[k] = P[k]
      PROVE  e[k + 1] = P[k + 1] /\ Start(e, k + 1) = P[k] + 1
  <2>1. k + 1 \in 1..n /\ k \in 0..n /\ (k + 1) - 1 = k
      BY <1>1, <1>6
  <2>2. Start(e, k + 1) = P[k] + 1
    <3>1. CASE k = 0
        BY <1>4, <3>1 DEF Start
    <3>2. CASE k # 0
        BY <1>6, <2>1, <3>2 DEF Start
    <3> QED BY <3>1, <3>2
  <2>3. Len(lines[k + 1]) = e[k + 1] - Start(e, k + 1)
      BY <1>1, <2>1 DEF LinesOf
  <2>4. P[k + 1] = P[k] + Len(q[k + 1])
      BY <1>4, <2>1
  <2>5. Len(lines[k + 1]) \in Nat /\ Len(q[k + 1]) = Len(lines[k + 1]) + 1
        /\ e[k + 1] \in Nat /\ P[k] \in Nat
      BY <1>1, <1>2, <1>5, <2>1
  <2> QED BY <2>2, <2>3, <2>4, <2>5
<1>7. \A k \in 0..n : k \in S
  <2>1. 0 \in S
      OBVIOUS
  <2>2. ASSUME NEW k \in Nat, k < n, k \in S
        PROVE  k + 1 \in S
      BY <1>6, <2>2
  <2> HIDE DEF S
  <2> QED BY <1>1, <2>1, <2>2, UpTo
<1>8. ASSUME NEW k \in 1..n
      PROVE  e[k] = P[k] /\ Start(e, k) = P[k - 1] + 1
  <2>1. k - 1 \in Nat /\ k - 1 < n /\ k - 1 \in 0..n /\ (k - 1) + 1 = k
      BY <1>1
  <2>2. k - 1 # 0 => e[k - 1] = P[k - 1]
      BY <1>7, <2>1
  <2> QED BY <1>6, <2>1, <2>2
<1> QED BY <1>8 DEF n

(* Lines that are written back, each ended with a newline, are read back.  *)
LEMMA EndedReads ==
    ASSUME NEW lines \in Seq(TextLine), NEW s \in 1..Len(lines), NEW e \in s..Len(lines)
    PROVE  splitlines(normalize_line_endings(Ended(SubSeq(lines, s, e))))
             = SubSeq(lines, s, e)
<1> DEFINE mid == SubSeq(lines, s, e)
           q == EndedPieces(mid)
           u == FlattenSeq(q)
<1>0. Len(lines) \in Nat /\ s \in Nat /\ e \in Nat /\ 1 <= s /\ s <= e + 1 /\ e <= Len(lines)
    BY LenProperties
<1>1. /\ mid \in Seq(TextLine) /\ Len(mid) = e + 1 - s
      /\ \A i \in 1..(e + 1 - s) : mid[i] = lines[s + i - 1]
    BY <1>0, SubSeqIs
<1> HIDE DEF mid
<1>2. Ended(mid) = u
    BY DEF Ended, EndedPieces
<1>3. q \in Seq(Seq(Chars))
    BY <1>1, EndedPiecesShape DEF IsEnded
<1> HIDE DEF q
<1>4. u \in Seq(Chars) /\ \E P : Laid(P, q, u)
    BY <1>3, FlattenLaid
<1> HIDE DEF u
<1>5. PICK P : Laid(P, EndedPieces(mid), u)
    BY <1>4 DEF q
<1>6. NoReturns(u) /\ LinesOf(mid, [k \in 1..Len(mid) |-> P[k]], u)
    BY <1>1, <1>4, <1>5, EndedSplit, EndedPiecesShape
<1>7. normalize_line_endings(u) = u /\ splitlines(u) = mid
    BY <1>6, NormalizeSame, SplitIs
<1> QED BY <1>2, <1>4, <1>7 DEF mid

LEMMA EditedLinesSame ==
    ASSUME NEW raw, NoReturns(raw),
           NEW s \in 1..Len(splitlines(raw)), NEW e \in s..Len(splitlines(raw))
    PROVE  EditedLines(raw, s, e, Ended(SubSeq(splitlines(raw), s, e))) = splitlines(raw)
<1> DEFINE lines == splitlines(raw)
<1>1. lines \in Seq(TextLine) /\ Len(lines) \in Nat
    BY SplitType
<1>2. splitlines(normalize_line_endings(Ended(SubSeq(lines, s, e)))) = SubSeq(lines, s, e)
    BY <1>1, EndedReads
<1>3. EditedLines(raw, s, e, Ended(SubSeq(lines, s, e))) =
         SubSeq(lines, 1, s - 1) \o SubSeq(lines, s, e) \o SubSeq(lines, e + 1, Len(lines))
    BY <1>2 DEF EditedLines
<1>4. s \in 1..Len(lines) /\ e \in s..Len(lines)
    OBVIOUS
<1> HIDE DEF lines
<1>5. SubSeq(lines, 1, s - 1) \o SubSeq(lines, s, e) = SubSeq(lines, 1, e)
  <2>1. /\ 1 \in 1..(Len(lines) + 1) /\ s - 1 \in (1 - 1)..Len(lines)
        /\ e \in (s - 1)..Len(lines) /\ (s - 1) + 1 = s
      BY <1>1, <1>4
  <2> QED BY <1>1, <2>1, ConcatAdjacentSubSeq
<1>6. SubSeq(lines, 1, e) \o SubSeq(lines, e + 1, Len(lines)) = SubSeq(lines, 1, Len(lines))
  <2>1. /\ 1 \in 1..(Len(lines) + 1) /\ e \in (1 - 1)..Len(lines)
        /\ Len(lines) \in e..Len(lines)
      BY <1>1, <1>4
  <2> QED BY <1>1, <2>1, ConcatAdjacentSubSeq
<1>7. SubSeq(lines, 1, Len(lines)) = lines
    BY <1>1, SubSeqFull
<1> QED BY <1>3, <1>5, <1>6, <1>7 DEF lines

(* The lines of a text, joined again, are the text with other breaks       *)
(* respelled.                                                              *)
LEMMA JoinRespells ==
    ASSUME NEW t, NoReturns(t), t # <<>>
    PROVE  LET T == EndLine(Join(splitlines(t)))
               m == IF t[Len(t)] \in {LF, FF} THEN Len(t) ELSE Len(t) + 1
           IN  /\ Join(splitlines(t)) \in Seq(Chars) /\ Len(T) = m
               /\ \A p \in 1..Len(t) : p <= m => T[p] = IF t[p] = FF THEN LF ELSE t[p]
<1> DEFINE lines == splitlines(t)
           n == Len(lines)
           T == EndLine(Join(lines))
           m == IF t[Len(t)] \in {LF, FF} THEN Len(t) ELSE Len(t) + 1
           q == EndedPieces(lines)
<1>1. PICK e : LinesOf(lines, e, t)
    BY SplitShape
<1> HIDE DEF lines
<1>2. /\ lines \in Seq(TextLine) /\ n \in Nat /\ Len(e) = n
      /\ Lists(e, LineEnds(t), Len(t) + 1)
    BY <1>1, LenProperties DEF LinesOf
<1>3. n \in 1..n /\ Len(t) \in 1..Len(t) /\ e[n] = m /\ lines # <<>>
  <2>1. n \in 1..n /\ Len(t) \in 1..Len(t) /\ e[n] = m
      BY <1>2, LastEnd
  <2> QED BY <2>1, EmptySeq
<1>4. Join(lines) \in Seq(Chars) /\ \E P : Laid(P, q, T)
    BY <1>2, <1>3, JoinLaid
<1>5. PICK P : Laid(P, q, T)
    BY <1>4
<1>6. /\ q \in Seq(Seq(Chars)) /\ Len(q) = n
      /\ \A k \in 1..n : /\ Len(lines[k]) \in Nat /\ Len(q[k]) = Len(lines[k]) + 1
                         /\ \A j \in 1..Len(lines[k]) :
                               q[k][j] = lines[k][j] /\ q[k][j] \notin {LF, CR, FF}
    BY <1>2, EndedPiecesShape DEF IsEnded
<1>7. T \in Seq(Chars)
    BY <1>4, AppendProperties, TextAssumption DEF EndLine
<1> HIDE DEF T
<1>8. \A k \in 1..n : T[P[k]] = LF
  <2>1. IsEnded(q, lines) /\ \A k \in 1..n : q[k][Len(lines[k]) + 1] = LF
      BY <1>2, EndedPiecesShape
  <2>2. lines \in Seq(TextLine)
      BY <1>2
  <2> HIDE DEF q
  <2>3. BreaksAt(lines, q, P, T)
      BY <1>5, <1>7, <2>1, <2>2, EndedSplit
  <2> QED BY <2>1, <2>3 DEF BreaksAt
<1>9. \A k \in 1..n : e[k] = P[k] /\ Start(e, k) = P[k - 1] + 1
    BY <1>1, <1>5, EndsAgree DEF Laid
<1> HIDE DEF q
<1>10. Len(T) = m
    BY <1>3, <1>5, <1>6, <1>9 DEF Laid
<1> HIDE DEF m, n
<1>11. ASSUME NEW p \in 1..Len(t), p <= m
       PROVE  T[p] = IF t[p] = FF THEN LF ELSE t[p]
  <2>1. p \in 1..Len(T)
    <3>1. Len(T) \in Nat
        BY <1>7, LenProperties
    <3> QED BY <1>10, <1>11, <3>1
  <2>2. InPiece(P, q, p)
      BY <1>5, <1>6, <2>1, LaidPosition
  <2>3. PICK k \in 1..n : \E j \in 1..Len(q[k]) : p = P[k - 1] + j
      BY <1>6, <2>2 DEF InPiece
  <2>4. PICK j \in 1..Len(q[k]) : p = P[k - 1] + j
      BY <2>3
  <2>5. /\ P[k - 1] \in Nat /\ P[k] = P[k - 1] + Len(q[k]) /\ T[P[k - 1] + j] = q[k][j]
        /\ Len(q[k]) = Len(lines[k]) + 1 /\ Len(lines[k]) \in Nat
    <3>1. k - 1 \in 0..n
        BY <1>2 DEF n
    <3> QED BY <1>5, <1>6, <3>1 DEF Laid, Offsets
  <2>6. CASE j \in 1..Len(lines[k])
    <3>1. Start(e, k) + j - 1 = p
        BY <1>9, <2>4, <2>5
    <3>2. lines[k][j] = t[Start(e, k) + j - 1]
        BY <1>1, <1>2, <2>6 DEF LinesOf, n
    <3>3. q[k][j] = lines[k][j] /\ q[k][j] \notin {LF, CR, FF}
        BY <1>6, <2>6
    <3> QED BY <2>4, <2>5, <3>1, <3>2, <3>3
  <2>7. CASE j = Len(lines[k]) + 1
    <3>1. p = P[k]
        BY <2>4, <2>5, <2>7
    <3>2. T[p] = LF /\ p = e[k]
        BY <1>8, <1>9, <3>1
    <3>3. p \in LineEnds(t)
        BY <1>2, <3>2 DEF Lists, n
    <3>4. p \in Breaks(t)
      <4>1. p # Len(t) + 1
          BY <1>3
      <4> QED BY <3>3, <4>1 DEF LineEnds
    <3>5. t[p] \in {LF, FF}
        BY <3>4 DEF Breaks, NoReturns
    <3> QED BY <3>2, <3>5, TextAssumption
  <2>8. j \in 1..Len(lines[k]) \/ j = Len(lines[k]) + 1
      BY <2>5
  <2> QED BY <2>6, <2>7, <2>8
<1> QED BY <1>4, <1>10, <1>11 DEF T, m, lines

LEMMA WriteBack ==
    ASSUME NEW t, NoReturns(t),
           NEW s \in 1..Len(splitlines(t)), NEW e \in s..Len(splitlines(t))
    PROVE  Assembled(t, s, e, Ended(SubSeq(splitlines(t), s, e))) = Respelled(t)
<1> DEFINE J == Join(splitlines(t))
           T == EndLine(J)
           m == IF t[Len(t)] \in {LF, FF} THEN Len(t) ELSE Len(t) + 1
           same == ReplaceAll(t, FF, LF)
<1>1. t # <<>>
  <2>1. SUFFICES ASSUME t = <<>>
                 PROVE  FALSE
      OBVIOUS
  <2>2. Len(splitlines(t)) = 0
      BY <2>1, SplitEmpty, EmptySeq
  <2> QED BY <2>2
<1>2. t \in Seq(Chars) /\ Len(t) \in Nat /\ Len(t) # 0
    BY <1>1, LenProperties, EmptySeq DEF NoReturns
<1>3. Assembled(t, s, e, Ended(SubSeq(splitlines(t), s, e)))
        = IF t[Len(t)] = LF THEN T ELSE J
    BY <1>1, EditedLinesSame DEF Assembled, EndsWithNewline, Last
<1>4. /\ J \in Seq(Chars) /\ Len(T) = m
      /\ \A p \in 1..Len(t) : p <= m => T[p] = IF t[p] = FF THEN LF ELSE t[p]
    BY <1>1, JoinRespells
<1> HIDE DEF J
<1>5. /\ T \in Seq(Chars) /\ Len(T) = Len(J) + 1 /\ Len(J) \in Nat
      /\ \A p \in 1..Len(J) : T[p] = J[p]
    BY <1>4, AppendProperties, LenProperties, TextAssumption DEF EndLine
<1> HIDE DEF T
<1>6. /\ same \in Seq(Chars) /\ Len(same) = Len(t)
      /\ \A p \in 1..Len(t) : same[p] = IF t[p] = FF THEN LF ELSE t[p]
  <2>1. same = [p \in 1..Len(t) |-> IF t[p] = FF THEN LF ELSE t[p]]
      BY DEF ReplaceAll
  <2>2. \A p \in 1..Len(t) : t[p] \in Chars
      BY <1>2, ElementOfSeq
  <2> QED BY <1>2, <2>1, <2>2, TextAssumption
<1> HIDE DEF same
<1>7. CASE t[Len(t)] = LF
  <2>1. m = Len(t)
      BY <1>7
  <2>2. T = same
      BY <1>2, <1>4, <1>5, <1>6, <2>1, SeqEqual
  <2> QED BY <1>1, <1>3, <1>7, <2>2, TextAssumption DEF Respelled, Last, same
<1>8. CASE t[Len(t)] = FF
  <2>1. m = Len(t) /\ Len(J) = Len(t) - 1
      BY <1>2, <1>4, <1>5, <1>8
  <2>2. same # <<>>
      BY <1>2, <1>6, EmptySeq
  <2>3. /\ Front(same) \in Seq(Chars) /\ Len(Front(same)) = Len(t) - 1
        /\ \A p \in 1..(Len(t) - 1) : Front(same)[p] = same[p]
      BY <1>6, <2>2, FrontIs
  <2>4. \A p \in 1..(Len(t) - 1) : J[p] = Front(same)[p]
    <3> TAKE p \in 1..(Len(t) - 1)
    <3>1. p \in 1..Len(t) /\ p <= m /\ p \in 1..Len(J)
        BY <1>2, <2>1
    <3> QED BY <1>4, <1>5, <1>6, <2>3, <3>1
  <2>5. J = Front(same)
      BY <1>4, <2>1, <2>3, <2>4, SeqEqual
  <2> QED BY <1>1, <1>3, <1>8, <2>5, TextAssumption DEF Respelled, Last, same
<1>9. CASE t[Len(t)] \notin {LF, FF}
  <2>1. m = Len(t) + 1 /\ Len(J) = Len(t)
      BY <1>2, <1>4, <1>5, <1>9
  <2>2. \A p \in 1..Len(t) : J[p] = same[p]
    <3> TAKE p \in 1..Len(t)
    <3>1. p <= m /\ p \in 1..Len(J)
        BY <1>2, <2>1
    <3> QED BY <1>4, <1>5, <1>6, <3>1
  <2>3. J = same
      BY <1>4, <1>6, <2>1, <2>2, SeqEqual
  <2> QED BY <1>3, <1>9, <2>3 DEF Respelled, Last, same
<1> QED BY <1>7, <1>8, <1>9

-----------------------------------------------------------------------------
(* Substrings.                                                             *)

\* Two texts that are laid out of the same pieces are the same.
LEMMA LaidUnique ==
    ASSUME NEW C, NEW q \in Seq(Seq(C)), NEW t \in Seq(C), NEW u \in Seq(C),
           NEW P, NEW Q, Laid(P, q, t), Laid(Q, q, u)
    PROVE  t = u
<1> DEFINE n == Len(q)
           S == {k \in Nat : k <= n => P[k] = Q[k]}
<1>1. /\ n \in Nat /\ P[0] = 0 /\ Q[0] = 0
      /\ \A k \in 1..n : P[k] = P[k - 1] + Len(q[k]) /\ Q[k] = Q[k - 1] + Len(q[k])
    BY LenProperties DEF Laid, Offsets
<1>2. \A k \in 0..n : P[k] = Q[k]
  <2>1. 0 \in S
      BY <1>1
  <2>2. ASSUME NEW k \in Nat, k < n, k \in S
        PROVE  k + 1 \in S
    <3>1. k + 1 \in 1..n /\ (k + 1) - 1 = k /\ P[k] = Q[k]
        BY <1>1, <2>2
    <3>2. P[k + 1] = P[k] + Len(q[k + 1]) /\ Q[k + 1] = Q[k] + Len(q[k + 1])
        BY <1>1, <3>1
    <3> QED BY <3>1, <3>2
  <2>3. \A k \in 0..n : k \in S
    <3> HIDE DEF S
    <3> QED BY <1>1, <2>1, <2>2, UpTo
  <2> QED BY <1>1, <2>3
<1>3. Len(t) = Len(u)
  <2>1. n \in 0..n
      BY <1>1
  <2> QED BY <1>2, <2>1 DEF Laid
<1>4. ASSUME NEW p \in 1..Len(t)
      PROVE  t[p] = u[p]
  <2>1. InPiece(P, q, p)
      BY LaidPosition
  <2>2. PICK k \in 1..n : \E j \in 1..Len(q[k]) : p = P[k - 1] + j
      BY <2>1 DEF InPiece
  <2>3. PICK j \in 1..Len(q[k]) : p = P[k - 1] + j
      BY <2>2
  <2>4. k - 1 \in 0..n
      BY <1>1
  <2>5. P[k - 1] = Q[k - 1]
      BY <1>2, <2>4
  <2>6. t[P[k - 1] + j] = q[k][j]
      BY DEF Laid
  <2>7. u[Q[k - 1] + j] = q[k][j]
      BY DEF Laid
  <2> QED BY <2>3, <2>5, <2>6, <2>7
<1> QED BY <1>3, <1>4, SeqEqual

\* From left to right, the numbers of Q that are d or more after the one
\* taken before.
Greedy(F, Q, d) ==
    /\ F \subseteq Q
    /\ \A i \in Q : i \in F <=> \A j \in F : j < i => j + d <= i

LEMMA GreedyExists ==
    ASSUME NEW n \in Nat, NEW d \in Nat, NEW Q \in SUBSET (1..n)
    PROVE  \E F \in SUBSET Q : Greedy(F, Q, d)
<1> DEFINE S == {k \in Nat : \E F : Greedy(F, Q \cap (1..k), d)}
<1>1. 0 \in S
  <2>1. Greedy({}, Q \cap (1..0), d)
      BY DEF Greedy
  <2> QED BY <2>1
<1>2. ASSUME NEW k \in Nat, k < n, k \in S
      PROVE  k + 1 \in S
  <2>1. PICK F : Greedy(F, Q \cap (1..k), d)
      BY <1>2
  <2> DEFINE Far == \A j \in F : j < k + 1 => j + d <= k + 1
             G == IF k + 1 \in Q /\ Far THEN F \cup {k + 1} ELSE F
  <2>2. F \subseteq Q /\ F \subseteq 1..k
      BY <2>1 DEF Greedy
  <2>3. G \subseteq Q \cap (1..(k + 1))
      BY <2>2
  <2>4. ASSUME NEW i \in Q \cap (1..(k + 1))
        PROVE  i \in G <=> \A j \in G : j < i => j + d <= i
    <3>1. CASE i \in 1..k
      <4>1. i \in F <=> \A j \in F : j < i => j + d <= i
          BY <2>1, <3>1 DEF Greedy
      <4>2. i \in G <=> i \in F
          BY <3>1
      <4>3. \A j : j \in G /\ j < i => j \in F
          BY <3>1
      <4>4. \A j : j \in F => j \in G
          OBVIOUS
      <4> HIDE DEF G
      <4> QED BY <4>1, <4>2, <4>3, <4>4
    <3>2. CASE i = k + 1
      <4>1. k + 1 \notin F /\ \A j \in F : j < k + 1
          BY <2>2
      <4>2. k + 1 \in G <=> Far
          BY <3>2, <4>1
      <4>3. \A j : j \in G /\ j < k + 1 <=> j \in F
          BY <4>1
      <4>4. Far <=> \A j \in G : j < k + 1 => j + d <= k + 1
        <5> HIDE DEF G
        <5> QED BY <4>1, <4>3
      <4> HIDE DEF G, Far
      <4> QED BY <3>2, <4>2, <4>4
    <3>3. i \in 1..k \/ i = k + 1
        OBVIOUS
    <3> QED BY <3>1, <3>2, <3>3
  <2>5. Greedy(G, Q \cap (1..(k + 1)), d)
    <3> HIDE DEF G
    <3> QED BY <2>3, <2>4 DEF Greedy
  <2> QED BY <2>5
<1>3. n \in S
  <2>1. \A k \in 0..n : k \in S
    <3> HIDE DEF S
    <3> QED BY <1>1, <1>2, UpTo
  <2> QED BY <2>1
<1>4. Q \cap (1..n) = Q
    OBVIOUS
<1>5. PICK F : Greedy(F, Q, d)
    BY <1>3, <1>4
<1> QED BY <1>5 DEF Greedy

LEMMA GreedyUnique ==
    ASSUME NEW Q \in SUBSET Nat, NEW d \in Nat, NEW F, NEW G,
           Greedy(F, Q, d), Greedy(G, Q, d)
    PROVE  F = G
<1> DEFINE D == {i \in Q : ~ (i \in F <=> i \in G)}
<1>1. F \subseteq Q /\ G \subseteq Q
    BY DEF Greedy
<1>2. SUFFICES ASSUME D # {}
               PROVE  FALSE
    BY <1>1
<1>3. D \in SUBSET Nat
    OBVIOUS
<1>4. PICK x \in D : \A y \in D : x <= y
    BY <1>2, <1>3, Least
<1>5. x \in Q /\ x \in Nat /\ ~ (x \in F <=> x \in G)
    OBVIOUS
<1>6. \A j \in Q : j < x => (j \in F <=> j \in G)
    BY <1>4, <1>5
<1>7. x \in F <=> \A j \in F : j < x => j + d <= x
    BY <1>5 DEF Greedy
<1>8. x \in G <=> \A j \in G : j < x => j + d <= x
    BY <1>5 DEF Greedy
<1>9. (\A j \in F : j < x => j + d <= x) <=> (\A j \in G : j < x => j + d <= x)
    BY <1>1, <1>6
<1> QED BY <1>5, <1>7, <1>8, <1>9

LEMMA OccurrencesAre ==
    ASSUME NEW t \in Seq(Chars), NEW s \in Seq(Chars)
    PROVE  /\ Positions(t, s) \in SUBSET (1..(Len(t) + 1))
           /\ Greedy(Occurrences(t, s), Positions(t, s), Len(s))
           /\ Occurrences(t, s) = {} <=> Positions(t, s) = {}
<1> DEFINE Q == Positions(t, s)
           n == Len(t) + 1
           F == Occurrences(t, s)
<1>1. n \in Nat /\ Len(s) \in Nat /\ Q \in SUBSET (1..n)
    BY LenProperties DEF Positions
<1>2. \E f \in SUBSET Q : Greedy(f, Q, Len(s))
    BY <1>1, GreedyExists
<1>3. F \in SUBSET Q /\ \A i \in Q : i \in F <=> \A j \in F : j < i => j + Len(s) <= i
    BY <1>2 DEF Occurrences, Greedy
<1>4. Greedy(F, Q, Len(s))
    BY <1>3 DEF Greedy
<1>5. ASSUME Q # {}
      PROVE  F # {}
  <2>1. Q \in SUBSET Nat
      BY <1>1
  <2>2. PICK x \in Q : \A y \in Q : x <= y
      BY <1>5, <2>1, Least
  <2>3. x \in Nat /\ \A j \in F : j \in Nat /\ ~ (j < x)
      BY <1>3, <2>1, <2>2
  <2>4. x \in F
    <3> HIDE DEF F, Q
    <3> QED BY <1>3, <2>3
  <2> QED BY <2>4
<1> QED BY <1>1, <1>3, <1>4, <1>5

\* Being at position i of t, character by character.
LEMMA PositionsAre ==
    ASSUME NEW t \in Seq(Chars), NEW s \in Seq(Chars), NEW i \in Nat
    PROVE  i \in Positions(t, s) <=>
              /\ 1 <= i /\ i + Len(s) <= Len(t) + 1
              /\ \A j \in 1..Len(s) : t[i + j - 1] = s[j]
<1> DEFINE d == Len(s)
<1>1. d \in Nat /\ Len(t) \in Nat
    BY LenProperties
<1>2. CASE ~ (1 <= i /\ i + d <= Len(t) + 1)
    BY <1>1, <1>2 DEF Positions
<1>3. CASE 1 <= i /\ i + d <= Len(t) + 1
  <2>1. i + d - 1 \in Nat /\ i <= (i + d - 1) + 1 /\ i + d - 1 <= Len(t)
        /\ (i + d - 1) + 1 - i = d /\ i \in 1..(Len(t) + 1)
      BY <1>1, <1>3
  <2> DEFINE b == i + d - 1
             w == SubSeq(t, i, b)
  <2>2. /\ w \in Seq(Chars) /\ Len(w) = b + 1 - i
        /\ \A j \in 1..(b + 1 - i) : w[j] = t[i + j - 1]
    <3>1. b \in Nat /\ i <= b + 1 /\ b <= Len(t)
        BY <2>1
    <3> HIDE DEF b
    <3> QED BY <1>3, <3>1, SubSeqIs
  <2>3. /\ w \in Seq(Chars) /\ Len(w) = d
        /\ \A j \in 1..d : w[j] = t[i + j - 1]
      BY <2>1, <2>2
  <2>4. i \in Positions(t, s) <=> w = s
      BY <1>3, <2>1 DEF Positions
  <2> HIDE DEF w
  <2>5. w = s <=> \A j \in 1..d : w[j] = s[j]
      BY <2>3, SeqEqual
  <2>6. (\A j \in 1..d : w[j] = s[j]) <=> (\A j \in 1..d : t[i + j - 1] = s[j])
      BY <2>3
  <2> QED BY <1>3, <2>4, <2>5, <2>6
<1> QED BY <1>2, <1>3

\* What is put for the character at i, when old of length d occurs at F.
Piece(t, F, d, new, i) ==
    Cat(IF i \in F THEN new ELSE <<>>,
        IF i <= Len(t) /\ ~ (\E j \in F : j <= i /\ i < j + d)
        THEN <<t[i]>> ELSE <<>>)

PiecesOf(t, old, new) ==
    [i \in 1..(Len(t) + 1) |-> Piece(t, Occurrences(t, old), Len(old), new, i)]

LEMMA PieceType ==
    ASSUME NEW t \in Seq(Chars), NEW F, NEW d, NEW new \in Seq(Chars),
           NEW i \in 1..(Len(t) + 1)
    PROVE  Piece(t, F, d, new, i) \in Seq(Chars)
<1> DEFINE x == IF i \in F THEN new ELSE <<>>
           y == IF i <= Len(t) /\ ~ (\E j \in F : j <= i /\ i < j + d)
                THEN <<t[i]>> ELSE <<>>
<1>1. x \in Seq(Chars)
    BY EmptySeq
<1>2. i <= Len(t) => t[i] \in Chars
    BY LenProperties, ElementOfSeq
<1>3. y \in Seq(Chars)
    BY <1>2, EmptySeq
<1>4. Piece(t, F, d, new, i) = Cat(x, y)
    BY DEF Piece
<1> HIDE DEF x, y
<1> QED BY <1>1, <1>3, <1>4, CatProperties

LEMMA ReplacedLaid ==
    ASSUME NEW t \in Seq(Chars), NEW old \in Seq(Chars), NEW new \in Seq(Chars)
    PROVE  /\ PiecesOf(t, old, new) \in Seq(Seq(Chars))
           /\ Len(PiecesOf(t, old, new)) = Len(t) + 1
           /\ Replaced(t, old, new) \in Seq(Chars)
           /\ \E P : Laid(P, PiecesOf(t, old, new), Replaced(t, old, new))
<1> DEFINE q == PiecesOf(t, old, new)
<1>1. Len(t) + 1 \in Nat
    BY LenProperties
<1>2. q = [i \in 1..(Len(t) + 1) |-> Piece(t, Occurrences(t, old), Len(old), new, i)]
    BY DEF PiecesOf
<1>3. \A i \in 1..(Len(t) + 1) : Piece(t, Occurrences(t, old), Len(old), new, i) \in Seq(Chars)
    BY PieceType
<1>4. q \in Seq(Seq(Chars)) /\ Len(q) = Len(t) + 1
    BY <1>1, <1>2, <1>3
<1>5. Replaced(t, old, new) = FlattenSeq(q)
    BY DEF Replaced, PiecesOf, Piece, Cat
<1> HIDE DEF q
<1>6. FlattenSeq(q) \in Seq(Chars) /\ \E P : Laid(P, q, FlattenSeq(q))
    BY <1>4, FlattenLaid
<1> QED BY <1>4, <1>5, <1>6 DEF q

LEMMA CatEmpty ==
    ASSUME NEW C, NEW s \in Seq(C)
    PROVE  Cat(<<>>, s) = s /\ Cat(s, <<>>) = s
BY ConcatEmptySeq DEF Cat

LEMMA ReplacedNone ==
    ASSUME NEW t \in Seq(Chars), NEW old \in Seq(Chars), NEW new \in Seq(Chars),
           Positions(t, old) = {}
    PROVE  Replaced(t, old, new) = t
<1> DEFINE q == PiecesOf(t, old, new)
           m == Len(t)
           P == [k \in 0..(m + 1) |-> IF k <= m THEN k ELSE m]
<1>1. m \in Nat /\ \A i \in 1..m : t[i] \in Chars
    BY LenProperties, ElementOfSeq
<1>2. Occurrences(t, old) = {}
    BY OccurrencesAre
<1>3. ASSUME NEW i \in 1..(m + 1)
      PROVE  q[i] = IF i <= m THEN <<t[i]>> ELSE <<>>
  <2> DEFINE y == IF i <= m THEN <<t[i]>> ELSE <<>>
  <2>1. q[i] = Cat(<<>>, y)
      BY <1>2 DEF PiecesOf, Piece
  <2>2. y \in Seq(Chars)
    <3>1. i <= m => t[i] \in Chars
        BY <1>1
    <3> QED BY <3>1, EmptySeq
  <2> HIDE DEF y
  <2>3. q[i] = y
      BY <2>1, <2>2, CatEmpty
  <2> QED BY <2>3 DEF y
<1>4. /\ q \in Seq(Seq(Chars)) /\ Len(q) = m + 1
      /\ Replaced(t, old, new) \in Seq(Chars)
      /\ \E R : Laid(R, q, Replaced(t, old, new))
    BY ReplacedLaid
<1>5. PICK R : Laid(R, q, Replaced(t, old, new))
    BY <1>4
<1> HIDE DEF q
<1>6. \A i \in 1..(m + 1) : /\ i <= m => Len(q[i]) = 1 /\ q[i][1] = t[i]
                            /\ ~ (i <= m) => Len(q[i]) = 0
  <2> TAKE i \in 1..(m + 1)
  <2>1. CASE i <= m
    <3>1. q[i] = <<t[i]>>
        BY <1>3, <2>1
    <3> QED BY <2>1, <3>1
  <2>2. CASE ~ (i <= m)
    <3>1. q[i] = <<>>
        BY <1>3, <2>2
    <3> QED BY <2>2, <3>1, EmptySeq
  <2> QED BY <2>1, <2>2
<1>7. P \in [0..(m + 1) -> Nat] /\ \A k \in 0..(m + 1) : P[k] = IF k <= m THEN k ELSE m
    BY <1>1
<1> HIDE DEF P
<1>8. Laid(P, q, t)
  <2>1. P[0] = 0 /\ P[m + 1] = m
      BY <1>1, <1>7
  <2>2. ASSUME NEW k \in 1..(m + 1)
        PROVE  /\ P[k] = P[k - 1] + Len(q[k])
               /\ \A j \in 1..Len(q[k]) : t[P[k - 1] + j] = q[k][j]
    <3>1. k - 1 \in 0..(m + 1) /\ k \in 0..(m + 1) /\ k - 1 <= m
        BY <1>1
    <3>2. P[k - 1] = k - 1
        BY <1>7, <3>1
    <3>3. CASE k <= m
      <4>1. P[k] = k /\ Len(q[k]) = 1 /\ q[k][1] = t[k] /\ (k - 1) + 1 = k
          BY <1>6, <1>7, <3>1, <3>3
      <4> QED BY <3>2, <4>1
    <3>4. CASE ~ (k <= m)
      <4>1. P[k] = m /\ Len(q[k]) = 0 /\ k - 1 = m
          BY <1>1, <1>6, <1>7, <3>1, <3>4
      <4> QED BY <1>1, <3>2, <4>1
    <3> QED BY <3>3, <3>4
  <2> QED BY <1>4, <1>7, <2>1, <2>2 DEF Laid, Offsets
<1> QED BY <1>4, <1>5, <1>8, LaidUnique

\* No occurrence of old spans the place where a and b meet.
Apart(a, b, old) ==
    \A i \in Positions(Cat(a, b), old) : i + Len(old) <= Len(a) + 1 \/ Len(a) < i

LEMMA PositionsCat ==
    ASSUME NEW a \in Seq(Chars), NEW b \in Seq(Chars), NEW old \in Seq(Chars),
           Apart(a, b, old), old # <<>>, NEW i \in Nat
    PROVE  /\ i <= Len(a) => (i \in Positions(Cat(a, b), old) <=> i \in Positions(a, old))
           /\ i \in Positions(a, old) => 1 <= i /\ i + Len(old) <= Len(a) + 1
           /\ i + Len(a) \in Positions(Cat(a, b), old) /\ 1 <= i <=> i \in Positions(b, old)
<1> DEFINE c == Cat(a, b)
           A == Len(a)
           B == Len(b)
           d == Len(old)
<1>1. /\ c \in Seq(Chars) /\ Len(c) = A + B /\ A \in Nat /\ B \in Nat
      /\ d \in Nat /\ 1 <= d
      /\ \A p \in 1..(A + B) : c[p] = IF p <= A THEN a[p] ELSE b[p - A]
  <2>1. A \in Nat /\ B \in Nat /\ d \in Nat /\ d # 0
      BY LenProperties, EmptySeq
  <2>2. /\ c \in Seq(Chars) /\ Len(c) = A + B
        /\ \A p \in 1..(A + B) : c[p] = IF p <= A THEN a[p] ELSE b[p - A]
    <3> HIDE DEF d
    <3> QED BY CatProperties
  <2>3. 1 <= d
      BY <2>1
  <2> QED BY <2>1, <2>2, <2>3
<1>a. c \in Seq(Chars)
    BY <1>1
<1>2. \A p \in 1..A : c[p] = a[p]
    BY <1>1
<1>3. \A p \in 1..B : c[A + p] = b[p]
  <2> TAKE p \in 1..B
  <2>1. A + p \in 1..(A + B) /\ ~ (A + p <= A) /\ (A + p) - A = p
      BY <1>1
  <2> QED BY <1>1, <2>1
<1>4. Apart(a, b, old)
    OBVIOUS
<1> HIDE DEF c
<1>5. i \in Positions(c, old) <=>
         1 <= i /\ i + d <= A + B + 1 /\ \A j \in 1..d : c[i + j - 1] = old[j]
  <2>1. i \in Positions(c, old) <=>
           1 <= i /\ i + Len(old) <= Len(c) + 1
           /\ \A j \in 1..Len(old) : c[i + j - 1] = old[j]
      BY <1>a, PositionsAre
  <2>2. Len(c) + 1 = A + B + 1
      BY <1>1
  <2> QED BY <2>1, <2>2
<1>6. i \in Positions(a, old) <=>
         1 <= i /\ i + d <= A + 1 /\ \A j \in 1..d : a[i + j - 1] = old[j]
    BY PositionsAre
<1>7. i \in Positions(b, old) <=>
         1 <= i /\ i + d <= B + 1 /\ \A j \in 1..d : b[i + j - 1] = old[j]
    BY PositionsAre
<1>8. i + A \in Positions(c, old) <=>
         1 <= i + A /\ (i + A) + d <= A + B + 1 /\ \A j \in 1..d : c[(i + A) + j - 1] = old[j]
  <2> DEFINE x == i + A
  <2>1. x \in Nat
      BY <1>1
  <2> HIDE DEF x
  <2>2. x \in Positions(c, old) <=>
           1 <= x /\ x + Len(old) <= Len(c) + 1
           /\ \A j \in 1..Len(old) : c[x + j - 1] = old[j]
      BY <1>a, <2>1, PositionsAre
  <2>3. Len(c) + 1 = A + B + 1
      BY <1>1
  <2> QED BY <2>2, <2>3 DEF x
<1> HIDE DEF A, B, d
<1>9. ASSUME 1 <= i, i + d <= A + 1
      PROVE  \A j \in 1..d : c[i + j - 1] = a[i + j - 1]
  <2> TAKE j \in 1..d
  <2>1. i + j - 1 \in 1..A
      BY <1>1, <1>9
  <2> QED BY <1>2, <2>1
<1>10. ASSUME i <= A
       PROVE  i \in Positions(c, old) <=> i \in Positions(a, old)
  <2>1. ASSUME i \in Positions(c, old)
        PROVE  1 <= i /\ i + d <= A + 1
    <3>1. i + d <= A + 1 \/ A < i
        BY <1>4, <2>1 DEF Apart, c, A, d
    <3> QED BY <1>1, <1>5, <1>10, <2>1, <3>1
  <2>2. ASSUME 1 <= i, i + d <= A + 1
        PROVE  i \in Positions(c, old) <=> i \in Positions(a, old)
    <3>1. i + d <= A + B + 1
        BY <1>1, <2>2
    <3> QED BY <1>5, <1>6, <1>9, <2>2, <3>1
  <2> QED BY <1>6, <2>1, <2>2
<1>11. ASSUME 1 <= i, i + d <= B + 1
       PROVE  \A j \in 1..d : c[(i + A) + j - 1] = b[i + j - 1]
  <2> TAKE j \in 1..d
  <2>1. i + j - 1 \in 1..B /\ A + (i + j - 1) = (i + A) + j - 1
      BY <1>1, <1>11
  <2> QED BY <1>3, <2>1
<1>12. (i + A) + d <= A + B + 1 <=> i + d <= B + 1
    BY <1>1
<1>13. 1 <= i => 1 <= i + A
    BY <1>1
<1>14. (i + A \in Positions(c, old) /\ 1 <= i) <=> i \in Positions(b, old)
    BY <1>7, <1>8, <1>11, <1>12, <1>13
<1> QED BY <1>6, <1>10, <1>14 DEF c, A, d

\* What is found in two texts put together.
LEMMA OccurrencesCat ==
    ASSUME NEW a \in Seq(Chars), NEW b \in Seq(Chars), NEW old \in Seq(Chars),
           Apart(a, b, old), old # <<>>
    PROVE  /\ \A i \in Nat : i \in Occurrences(Cat(a, b), old) <=>
                                \/ i \in Occurrences(a, old)
                                \/ \E k \in Occurrences(b, old) : i = k + Len(a)
           /\ \A i \in Occurrences(a, old) :
                 i \in Nat /\ 1 <= i /\ i + Len(old) <= Len(a) + 1
           /\ \A k \in Occurrences(b, old) : k \in Nat /\ 1 <= k
<1> DEFINE c == Cat(a, b)
           A == Len(a)
           d == Len(old)
           Fa == Occurrences(a, old)
           Fb == Occurrences(b, old)
           Qa == Positions(a, old)
           Qb == Positions(b, old)
           Qc == Positions(c, old)
           F == Fa \cup {k + A : k \in Fb}
<1>1. c \in Seq(Chars)
    BY CatProperties
<1>2. A \in Nat /\ d \in Nat /\ 1 <= d
  <2>1. A \in Nat /\ d \in Nat /\ d # 0
      BY LenProperties, EmptySeq
  <2> QED BY <2>1
<1>3. /\ Greedy(Fa, Qa, d) /\ Greedy(Fb, Qb, d)
      /\ Greedy(Occurrences(c, old), Qc, d)
  <2> HIDE DEF c
  <2> QED BY <1>1, OccurrencesAre
<1>4. Qa \in SUBSET Nat /\ Qb \in SUBSET Nat /\ Qc \in SUBSET Nat
    BY DEF Positions
<1>5. \A i \in Nat :
         /\ i <= A => (i \in Qc <=> i \in Qa)
         /\ i \in Qa => 1 <= i /\ i + d <= A + 1
         /\ i + A \in Qc /\ 1 <= i <=> i \in Qb
    BY PositionsCat
<1> HIDE DEF Qa, Qb, Qc, A, d, Fa, Fb
<1>6. Fa \subseteq Qa /\ Fb \subseteq Qb
    BY <1>3 DEF Greedy
<1>7. /\ \A i \in Fa : i \in Nat /\ 1 <= i /\ i + d <= A + 1 /\ i <= A
      /\ \A k \in Fb : k \in Nat /\ 1 <= k
  <2>1. \A i \in Fa : i \in Nat /\ 1 <= i /\ i + d <= A + 1
      BY <1>4, <1>5, <1>6
  <2>2. \A k \in Fb : k \in Nat /\ 1 <= k
      BY <1>4, <1>5, <1>6
  <2> QED BY <1>2, <2>1, <2>2
<1>8. F \subseteq Qc
  <2>1. \A i \in Fa : i \in Qc
      BY <1>5, <1>6, <1>7
  <2>2. \A k \in Fb : k + A \in Qc
      BY <1>5, <1>6, <1>7
  <2> QED BY <2>1, <2>2
<1>9. ASSUME NEW i \in Qc
      PROVE  i \in F <=> \A j \in F : j < i => j + d <= i
  <2>0. i \in Nat
      BY <1>4
  <2>1. CASE i <= A
    <3>1. i \in Qa
        BY <1>5, <2>0, <2>1
    <3>2. i \in Fa <=> \A j \in Fa : j < i => j + d <= i
        BY <1>3, <3>1 DEF Greedy
    <3>3. \A k \in Fb : k + A > A /\ k + A > i
        BY <1>2, <1>7, <2>0, <2>1
    <3>4. i \in F <=> i \in Fa
        BY <2>0, <3>3
    <3>5. \A j \in F : j < i => j \in Fa
        BY <1>2, <1>7, <2>0, <3>3
    <3>6. \A j \in Fa : j \in F
        OBVIOUS
    <3> HIDE DEF F
    <3> QED BY <3>2, <3>4, <3>5, <3>6
  <2>2. CASE ~ (i <= A)
    <3> DEFINE k == i - A
    <3>1. k \in Nat /\ 1 <= k /\ i = k + A
        BY <1>2, <2>0, <2>2
    <3> HIDE DEF k
    <3>2. k \in Qb
        BY <1>5, <3>1
    <3>3. k \in Fb <=> \A j \in Fb : j < k => j + d <= k
        BY <1>3, <3>2 DEF Greedy
    <3>4. i \in F <=> k \in Fb
      <4>1. i \notin Fa
          BY <1>7, <2>2
      <4>2. \A m \in Fb : m + A = i => m = k
          BY <1>2, <1>7, <3>1
      <4> QED BY <3>1, <4>1, <4>2
    <3>5. \A j \in Fa : j + d <= i
      <4>1. ASSUME NEW j \in Fa
            PROVE  j + d <= i
        <5>1. j \in Nat /\ j + d <= A + 1
            BY <1>7
        <5> QED BY <1>2, <2>0, <2>2, <5>1
      <4> QED BY <4>1
    <3>6. \A m \in Fb : /\ m + A < i <=> m < k
                        /\ (m + A) + d <= i <=> m + d <= k
      <4>1. ASSUME NEW m \in Fb
            PROVE  /\ m + A < i <=> m < k
                   /\ (m + A) + d <= i <=> m + d <= k
        <5>1. m \in Nat
            BY <1>7
        <5> QED BY <1>2, <3>1, <5>1
      <4> QED BY <4>1
    <3>7. (\A j \in F : j < i => j + d <= i) <=> (\A m \in Fb : m < k => m + d <= k)
      <4>1. ASSUME \A j \in F : j < i => j + d <= i, NEW m \in Fb, m < k
            PROVE  m + d <= k
        <5>1. m + A \in F /\ m + A < i
            BY <3>6, <4>1
        <5>2. (m + A) + d <= i
            BY <4>1, <5>1
        <5> QED BY <3>6, <5>2
      <4>2. ASSUME \A m \in Fb : m < k => m + d <= k, NEW j \in F, j < i
            PROVE  j + d <= i
        <5>1. CASE j \in Fa
            BY <3>5, <5>1
        <5>2. CASE j \notin Fa
          <6>1. PICK m \in Fb : j = m + A
              BY <5>2
          <6>2. m < k
              BY <3>6, <4>2, <6>1
          <6>3. m + d <= k
              BY <4>2, <6>2
          <6> QED BY <3>6, <6>1, <6>3
        <5> QED BY <5>1, <5>2
      <4> QED BY <4>1, <4>2
    <3> QED BY <3>3, <3>4, <3>7
  <2> QED BY <2>1, <2>2
<1>10. Greedy(F, Qc, d)
  <2> HIDE DEF F
  <2> QED BY <1>8, <1>9 DEF Greedy
<1>11. Occurrences(c, old) = F
  <2> HIDE DEF F
  <2> QED BY <1>2, <1>3, <1>4, <1>10, GreedyUnique
<1>12. \A i : i \in F <=> i \in Fa \/ \E k \in Fb : i = k + A
    OBVIOUS
<1> QED BY <1>7, <1>11, <1>12 DEF Fa, Fb, A, d, c

LEMMA PiecesCat ==
    ASSUME NEW a \in Seq(Chars), NEW b \in Seq(Chars),
           NEW old \in Seq(Chars), NEW new \in Seq(Chars),
           Apart(a, b, old), old # <<>>
    PROVE  /\ \A i \in 1..Len(a) :
                 PiecesOf(Cat(a, b), old, new)[i] = PiecesOf(a, old, new)[i]
           /\ \A k \in 1..(Len(b) + 1) :
                 PiecesOf(Cat(a, b), old, new)[Len(a) + k] = PiecesOf(b, old, new)[k]
           /\ PiecesOf(a, old, new)[Len(a) + 1] = <<>>
<1> DEFINE c == Cat(a, b)
           A == Len(a)
           B == Len(b)
           d == Len(old)
           Fa == Occurrences(a, old)
           Fb == Occurrences(b, old)
           Fc == Occurrences(c, old)
<1>1. A \in Nat /\ B \in Nat /\ d \in Nat /\ 1 <= d
  <2>1. A \in Nat /\ B \in Nat /\ d \in Nat /\ d # 0
      BY LenProperties, EmptySeq
  <2> QED BY <2>1
<1>2. /\ c \in Seq(Chars) /\ Len(c) = A + B
      /\ \A p \in 1..(A + B) : c[p] = IF p <= A THEN a[p] ELSE b[p - A]
    BY CatProperties
<1>3. /\ \A i \in Nat : i \in Fc <=> i \in Fa \/ \E k \in Fb : i = k + A
      /\ \A i \in Fa : i \in Nat /\ 1 <= i /\ i + d <= A + 1
      /\ \A k \in Fb : k \in Nat /\ 1 <= k
    BY OccurrencesCat
<1>f. \A j \in Fc : j \in Nat
  <2>1. Fc \subseteq Positions(c, old) /\ Positions(c, old) \subseteq 1..(Len(c) + 1)
    <3> HIDE DEF c
    <3> QED BY <1>2, OccurrencesAre DEF Greedy
  <2>2. Len(c) + 1 \in Nat
      BY <1>1, <1>2
  <2> QED BY <2>1, <2>2
<1>4. /\ \A i \in 1..(A + B + 1) : PiecesOf(c, old, new)[i] = Piece(c, Fc, d, new, i)
      /\ \A i \in 1..(A + 1) : PiecesOf(a, old, new)[i] = Piece(a, Fa, d, new, i)
      /\ \A i \in 1..(B + 1) : PiecesOf(b, old, new)[i] = Piece(b, Fb, d, new, i)
  <2>1. Len(c) + 1 = A + B + 1
      BY <1>1, <1>2
  <2> QED BY <2>1 DEF PiecesOf
<1> DEFINE Covered(F, i) == \E j \in F : j <= i /\ i < j + d
<1> HIDE DEF c, A, B, d, Fa, Fb, Fc
<1>5. ASSUME NEW i \in 1..A
      PROVE  PiecesOf(c, old, new)[i] = PiecesOf(a, old, new)[i]
  <2>1. i \in 1..(A + B + 1) /\ i \in 1..(A + 1) /\ i \in 1..(A + B) /\ i \in Nat
        /\ i <= A /\ i <= A + B
      BY <1>1
  <2>2. \A k \in Fb : ~ (k + A <= i)
      BY <1>1, <1>3, <2>1
  <2>3. i \in Fc <=> i \in Fa
    <3>1. \A k \in Fb : i # k + A
        BY <1>1, <1>3, <2>1
    <3> QED BY <1>3, <2>1, <3>1
  <2>4. Covered(Fc, i) <=> Covered(Fa, i)
      BY <1>f, <1>3, <2>2
  <2>5. c[i] = a[i]
      BY <1>2, <2>1
  <2>6. Piece(c, Fc, d, new, i) = Piece(a, Fa, d, new, i)
    <3>1. Len(c) = A + B /\ Len(a) = A
        BY <1>2 DEF A
    <3> QED BY <2>1, <2>3, <2>4, <2>5, <3>1 DEF Piece
  <2> QED BY <1>4, <2>1, <2>6
<1>6. ASSUME NEW k \in 1..(B + 1)
      PROVE  PiecesOf(c, old, new)[A + k] = PiecesOf(b, old, new)[k]
  <2> DEFINE i == A + k
  <2>1. i \in 1..(A + B + 1) /\ i \in Nat /\ ~ (i <= A) /\ k \in Nat /\ 1 <= k
        /\ (i <= A + B <=> k <= B)
      BY <1>1
  <2>2. \A j \in Fa : j \in Nat /\ j + d <= i /\ j < i
    <3>1. ASSUME NEW j \in Fa
          PROVE  j \in Nat /\ j + d <= i /\ j < i
      <4>1. j \in Nat /\ 1 <= j /\ j + d <= A + 1
          BY <1>3
      <4> QED BY <1>1, <4>1
    <3> QED BY <3>1
  <2>3. \A m \in Fb : /\ m + A <= i <=> m <= k
                      /\ i < (m + A) + d <=> k < m + d
                      /\ m + A = i <=> m = k
    <3>1. ASSUME NEW m \in Fb
          PROVE  /\ m + A <= i <=> m <= k
                 /\ i < (m + A) + d <=> k < m + d
                 /\ m + A = i <=> m = k
      <4>1. m \in Nat
          BY <1>3
      <4> QED BY <1>1, <4>1
    <3> QED BY <3>1
  <2>4. k <= B => c[i] = b[k]
    <3>1. ASSUME k <= B
          PROVE  c[i] = b[k]
      <4>1. i \in 1..(A + B) /\ ~ (i <= A) /\ i - A = k
          BY <1>1, <3>1
      <4> QED BY <1>2, <4>1
    <3> QED BY <3>1
  <2> HIDE DEF i
  <2>5. i \in Fc <=> k \in Fb
    <3>1. i \notin Fa
        BY <2>1, <2>2
    <3>2. i \in Fc <=> \E m \in Fb : i = m + A
        BY <1>3, <2>1, <3>1
    <3> QED BY <2>3, <3>2
  <2>6. Covered(Fc, i) <=> Covered(Fb, k)
    <3>1. ASSUME NEW j \in Fc, j <= i, i < j + d
          PROVE  Covered(Fb, k)
      <4>1. j \notin Fa
        <5>1. j \in Fa => j \in Nat /\ j + d <= i
            BY <2>2
        <5> QED BY <1>1, <2>1, <3>1, <5>1
      <4>2. PICK m \in Fb : j = m + A
          BY <1>f, <1>3, <4>1
      <4> QED BY <2>3, <3>1, <4>2
    <3>2. ASSUME NEW m \in Fb, m <= k, k < m + d
          PROVE  Covered(Fc, i)
      <4>1. m + A \in Nat
          BY <1>1, <1>3
      <4>2. m + A \in Fc
          BY <1>3, <4>1
      <4> QED BY <2>3, <3>2, <4>2
    <3> QED BY <3>1, <3>2
  <2>7. Piece(c, Fc, d, new, i) = Piece(b, Fb, d, new, k)
    <3>1. Len(c) = A + B /\ Len(b) = B
        BY <1>2 DEF B
    <3>2. CASE k <= B
        BY <2>1, <2>4, <2>5, <2>6, <3>1, <3>2 DEF Piece
    <3>3. CASE ~ (k <= B)
        BY <2>1, <2>5, <3>1, <3>3 DEF Piece
    <3> QED BY <3>2, <3>3
  <2>8. PiecesOf(c, old, new)[i] = PiecesOf(b, old, new)[k]
      BY <1>4, <2>1, <2>7
  <2> QED BY <2>8 DEF i
<1>7. PiecesOf(a, old, new)[A + 1] = <<>>
  <2>1. A + 1 \in 1..(A + 1) /\ ~ (A + 1 <= A)
      BY <1>1
  <2>2. A + 1 \notin Fa
      BY <1>1, <1>3
  <2>3. Piece(a, Fa, d, new, A + 1) = Cat(<<>>, <<>>)
      BY <2>1, <2>2 DEF Piece, A
  <2>4. Cat(<<>>, <<>>) = <<>>
      BY EmptySeq, CatEmpty
  <2> QED BY <1>4, <2>1, <2>3, <2>4
<1> QED BY <1>5, <1>6, <1>7 DEF c, A, B

(* Replacing in two texts put together is replacing in each of them, when  *)
(* nothing is found across the place where they meet.                      *)
LEMMA ReplacedCat ==
    ASSUME NEW a \in Seq(Chars), NEW b \in Seq(Chars),
           NEW old \in Seq(Chars), NEW new \in Seq(Chars),
           Apart(a, b, old), old # <<>>
    PROVE  Replaced(Cat(a, b), old, new) = Cat(Replaced(a, old, new), Replaced(b, old, new))
<1> DEFINE c == Cat(a, b)
           A == Len(a)
           B == Len(b)
           qa == PiecesOf(a, old, new)
           qb == PiecesOf(b, old, new)
           qc == PiecesOf(c, old, new)
           Ra == Replaced(a, old, new)
           Rb == Replaced(b, old, new)
           Rc == Replaced(c, old, new)
           R == Cat(Ra, Rb)
<1>1. A \in Nat /\ B \in Nat /\ c \in Seq(Chars) /\ Len(c) = A + B
    BY LenProperties, CatProperties
<1>2. /\ \A i \in 1..A : qc[i] = qa[i]
      /\ \A k \in 1..(B + 1) : qc[A + k] = qb[k]
      /\ qa[A + 1] = <<>>
    BY PiecesCat
<1>3. /\ qa \in Seq(Seq(Chars)) /\ Len(qa) = A + 1 /\ Ra \in Seq(Chars)
      /\ \E P : Laid(P, qa, Ra)
    BY ReplacedLaid
<1>4. /\ qb \in Seq(Seq(Chars)) /\ Len(qb) = B + 1 /\ Rb \in Seq(Chars)
      /\ \E P : Laid(P, qb, Rb)
    BY ReplacedLaid
<1>5. /\ qc \in Seq(Seq(Chars)) /\ Len(qc) = A + B + 1 /\ Rc \in Seq(Chars)
      /\ \E P : Laid(P, qc, Rc)
  <2>1. Len(c) + 1 = A + B + 1
      BY <1>1
  <2> HIDE DEF c
  <2> QED BY <1>1, <2>1, ReplacedLaid
<1>6. PICK P : Laid(P, qa, Ra)
    BY <1>3
<1>7. PICK Q : Laid(Q, qb, Rb)
    BY <1>4
<1>8. PICK U : Laid(U, qc, Rc)
    BY <1>5
<1> HIDE DEF c, A, B, qa, qb, qc, Ra, Rb, Rc
<1>9. /\ R \in Seq(Chars) /\ Len(R) = Len(Ra) + Len(Rb)
      /\ Len(Ra) \in Nat /\ Len(Rb) \in Nat
      /\ \A i \in 1..(Len(Ra) + Len(Rb)) :
            R[i] = IF i <= Len(Ra) THEN Ra[i] ELSE Rb[i - Len(Ra)]
    BY <1>3, <1>4, CatProperties, LenProperties
<1>a. Len(Ra) \in Nat /\ Len(Rb) \in Nat
    BY <1>9
<1> HIDE DEF R
<1>10. /\ \A k \in 0..(A + 1) : P[k] \in Nat
       /\ P[0] = 0 /\ Len(Ra) = P[A + 1]
       /\ \A k \in 1..(A + 1) : P[k] = P[k - 1] + Len(qa[k])
       /\ \A k \in 1..(A + 1) : \A j \in 1..Len(qa[k]) : Ra[P[k - 1] + j] = qa[k][j]
    BY <1>3, <1>6 DEF Laid, Offsets
<1>11. /\ \A k \in 0..(B + 1) : Q[k] \in Nat
       /\ Q[0] = 0 /\ Len(Rb) = Q[B + 1]
       /\ \A k \in 1..(B + 1) : Q[k] = Q[k - 1] + Len(qb[k])
       /\ \A k \in 1..(B + 1) : \A j \in 1..Len(qb[k]) : Rb[Q[k - 1] + j] = qb[k][j]
    BY <1>4, <1>7 DEF Laid, Offsets
<1>12. P[A] = Len(Ra) /\ \A k \in 0..A : P[k] <= P[A] /\ P[k] \in Nat
  <2>1. A + 1 \in 1..(A + 1) /\ (A + 1) - 1 = A /\ A \in 0..(A + 1)
      BY <1>1
  <2>2. P[A + 1] = P[A] + Len(qa[A + 1])
      BY <1>10, <2>1
  <2>3. Len(qa[A + 1]) = 0
      BY <1>2, EmptySeq
  <2>4. P[A] \in Nat
      BY <1>10, <2>1
  <2>5. P[A] = Len(Ra)
      BY <1>10, <2>2, <2>3, <2>4
  <2>6. ASSUME NEW k \in 0..A
        PROVE  P[k] <= P[A] /\ P[k] \in Nat
    <3>1. k \in 0..(A + 1) /\ k <= A
        BY <1>1
    <3>2. k \in 0..Len(qa) /\ A \in 0..Len(qa) /\ Offsets(P, qa)
        BY <1>3, <1>6, <2>1, <3>1 DEF Laid
    <3>3. P[k] <= P[A]
        BY <1>3, <3>1, <3>2, OffsetsGrow
    <3> QED BY <1>10, <3>1, <3>3
  <2> QED BY <2>5, <2>6
<1> DEFINE n == A + B + 1
           V == [k \in 0..n |-> IF k <= A THEN P[k] ELSE P[A] + Q[k - A]]
<1>13. ASSUME NEW k \in 0..(B + 1)
       PROVE  V[A + k] = P[A] + Q[k] /\ A + k \in 0..n /\ Q[k] \in Nat
  <2>1. A + k \in 0..n /\ (A + k) - A = k /\ k \in Nat
      BY <1>1
  <2>2. CASE k = 0
    <3>1. A + k = A /\ A <= A
        BY <1>1, <2>2
    <3>2. V[A] = P[A]
        BY <2>1, <3>1
    <3>3. P[A] \in Nat
        BY <1>9, <1>12
    <3> HIDE DEF V, n
    <3> QED BY <1>11, <2>1, <2>2, <3>1, <3>2, <3>3
  <2>3. CASE k # 0
    <3>1. ~ (A + k <= A)
        BY <1>1, <2>1, <2>3
    <3>2. V[A + k] = P[A] + Q[k]
        BY <2>1, <3>1
    <3> QED BY <1>11, <2>1, <3>2
  <2> QED BY <2>2, <2>3
<1>14. /\ \A k \in 0..A : V[k] = P[k] /\ k \in 0..n
       /\ V \in [0..n -> Nat]
  <2>1. \A k \in 0..A : V[k] = P[k] /\ k \in 0..n
      BY <1>1
  <2>2. ASSUME NEW k \in 0..n
        PROVE  (IF k <= A THEN P[k] ELSE P[A] + Q[k - A]) \in Nat
    <3>1. CASE k <= A
      <4>1. k \in 0..A
          BY <1>1, <3>1
      <4> QED BY <1>12, <3>1, <4>1
    <3>2. CASE ~ (k <= A)
      <4>1. k - A \in 0..(B + 1)
          BY <1>1, <3>2
      <4>2. Q[k - A] \in Nat /\ P[A] \in Nat
          BY <1>9, <1>11, <1>12, <4>1
      <4> QED BY <3>2, <4>2
    <3> QED BY <3>1, <3>2
  <2>3. V \in [0..n -> Nat]
      BY <2>2
  <2> QED BY <2>1, <2>3
<1> HIDE DEF V, n
<1>15. Len(qc) = n /\ n \in Nat /\ A + (B + 1) = n
    BY <1>1, <1>5 DEF n
<1>16. ASSUME NEW k \in 1..n
       PROVE  /\ V[k] = V[k - 1] + Len(qc[k])
              /\ \A j \in 1..Len(qc[k]) : R[V[k - 1] + j] = qc[k][j]
  <2>1. CASE k <= A
    <3>1. k \in 1..A /\ k \in 1..(A + 1) /\ k - 1 \in 0..A /\ k \in 0..A /\ k - 1 \in 0..(A + 1)
        BY <1>1, <2>1
    <3>2. V[k] = P[k] /\ V[k - 1] = P[k - 1] /\ qc[k] = qa[k]
        BY <1>2, <1>14, <3>1
    <3>3. P[k] = P[k - 1] + Len(qa[k])
        BY <1>10, <3>1
    <3>4. ASSUME NEW j \in 1..Len(qa[k])
          PROVE  R[P[k - 1] + j] = qa[k][j]
      <4>1. P[k - 1] \in Nat /\ P[k] \in Nat /\ P[k] <= Len(Ra)
          BY <1>12, <3>1
      <4>2. Len(qa[k]) \in Nat /\ j \in Nat /\ 1 <= j /\ j <= Len(qa[k])
        <5>1. qa[k] \in Seq(Chars)
            BY <1>3, <3>1, ElementOfSeq
        <5>2. Len(qa[k]) \in Nat
            BY <5>1, LenProperties
        <5> QED BY <5>2
      <4>3. P[k - 1] + j \in 1..(Len(Ra) + Len(Rb)) /\ P[k - 1] + j <= Len(Ra)
        <5>1. P[k - 1] + j <= P[k]
            BY <3>3, <4>1, <4>2
        <5>2. P[k - 1] + j \in Nat /\ 1 <= P[k - 1] + j
            BY <4>1, <4>2
        <5>3. P[k - 1] + j <= Len(Ra)
            BY <1>a, <4>1, <5>1, <5>2
        <5> QED BY <1>a, <5>2, <5>3
      <4>4. Ra[P[k - 1] + j] = qa[k][j]
          BY <1>10, <3>1
      <4> QED BY <1>9, <4>3, <4>4
    <3> QED BY <3>2, <3>3, <3>4
  <2>2. CASE ~ (k <= A)
    <3> DEFINE m == k - A
    <3>1. m \in 1..(B + 1) /\ m - 1 \in 0..(B + 1) /\ m \in 0..(B + 1)
          /\ A + m = k /\ A + (m - 1) = k - 1
        BY <1>1, <1>15, <2>2
    <3> HIDE DEF m
    <3>2. V[k] = P[A] + Q[m] /\ V[k - 1] = P[A] + Q[m - 1]
          /\ Q[m] \in Nat /\ Q[m - 1] \in Nat
        BY <1>13, <3>1
    <3>3. qc[k] = qb[m]
        BY <1>2, <3>1
    <3>4. Q[m] = Q[m - 1] + Len(qb[m])
        BY <1>11, <3>1
    <3>5. Len(qb[m]) \in Nat
      <4>1. qb[m] \in Seq(Chars)
          BY <1>4, <3>1, ElementOfSeq
      <4> QED BY <4>1, LenProperties
    <3>6. P[A] = Len(Ra) /\ P[A] \in Nat
        BY <1>9, <1>12
    <3>7. ASSUME NEW j \in 1..Len(qb[m])
          PROVE  R[V[k - 1] + j] = qb[m][j]
      <4>1. Q[m] <= Q[B + 1]
        <5>1. m \in 0..Len(qb) /\ B + 1 \in 0..Len(qb) /\ m <= B + 1
            BY <1>1, <1>4, <3>1
        <5> QED BY <1>4, <1>7, <5>1, OffsetsGrow DEF Laid
      <4>2. j \in Nat /\ 1 <= j /\ j <= Len(qb[m])
          BY <3>5
      <4>3. Q[m] <= Len(Rb)
          BY <1>11, <4>1
      <4> DEFINE p == Q[m - 1] + j
      <4>4. p \in Nat /\ 1 <= p /\ p <= Len(Rb)
        <5>1. Q[m - 1] \in Nat /\ Q[m] \in Nat
            BY <3>2
        <5>2. Q[m - 1] + j <= Q[m]
            BY <3>4, <3>5, <4>2, <5>1
        <5>3. p \in Nat /\ 1 <= p
            BY <4>2, <5>1
        <5> HIDE DEF p
        <5>4. p <= Q[m]
            BY <5>2 DEF p
        <5> QED BY <1>a, <4>3, <5>1, <5>3, <5>4
      <4>5. Rb[p] = qb[m][j]
          BY <1>11, <3>1
      <4>6. V[k - 1] + j = Len(Ra) + p
          BY <3>2, <3>6, <4>2
      <4> HIDE DEF p
      <4>7. /\ Len(Ra) + p \in 1..(Len(Ra) + Len(Rb)) /\ ~ (Len(Ra) + p <= Len(Ra))
            /\ (Len(Ra) + p) - Len(Ra) = p
          BY <1>9, <4>4
      <4>8. R[Len(Ra) + p] = Rb[p]
          BY <1>9, <4>7
      <4> QED BY <4>5, <4>6, <4>8
    <3>8. V[k] = V[k - 1] + Len(qb[m])
        BY <3>2, <3>4, <3>5, <3>6
    <3> QED BY <3>3, <3>7, <3>8
  <2> QED BY <2>1, <2>2
<1>17. V[0] = 0 /\ Len(R) = V[n]
  <2>1. 0 \in 0..A /\ B + 1 \in 0..(B + 1)
      BY <1>1
  <2>2. V[0] = 0
      BY <1>10, <1>14, <2>1
  <2>3. V[n] = P[A] + Q[B + 1]
      BY <1>13, <1>15, <2>1
  <2> QED BY <1>9, <1>11, <1>12, <2>2, <2>3
<1>18. Laid(V, qc, R)
    BY <1>14, <1>15, <1>16, <1>17 DEF Laid, Offsets
<1>19. Rc = R
    BY <1>5, <1>8, <1>9, <1>18, LaidUnique
<1> QED BY <1>19 DEF Rc, R, Ra, Rb, c

-----------------------------------------------------------------------------
(* Edits by substring, inside lines.                                       *)

LEMMA BreakParts ==
    ASSUME NEW a \in Seq(Chars), NEW b \in Seq(Chars), NEW old \in Seq(Chars),
           OneLine(old),
           \/ Len(a) # 0 /\ a[Len(a)] \in {LF, CR, FF}
           \/ Len(b) # 0 /\ b[1] \in {LF, CR, FF}
    PROVE  Apart(a, b, old)
<1> DEFINE c == Cat(a, b)
           A == Len(a)
           B == Len(b)
           d == Len(old)
<1>1. A \in Nat /\ B \in Nat /\ d \in Nat
    BY LenProperties
<1>2. /\ c \in Seq(Chars) /\ Len(c) = A + B
      /\ \A p \in 1..(A + B) : c[p] = IF p <= A THEN a[p] ELSE b[p - A]
    BY CatProperties
<1>a. c \in Seq(Chars)
    BY <1>2
<1> HIDE DEF c
<1>3. SUFFICES ASSUME NEW i \in Positions(c, old), ~ (i + d <= A + 1), ~ (A < i)
               PROVE  FALSE
    BY DEF Apart, c
<1>4. i \in Nat
    BY DEF Positions
<1>5. 1 <= i /\ i + d <= Len(c) + 1 /\ \A j \in 1..d : c[i + j - 1] = old[j]
    BY <1>a, <1>4, PositionsAre
<1>6. i + d <= A + B + 1
    BY <1>1, <1>2, <1>5
<1>7. /\ A - i + 1 \in 1..d /\ i + (A - i + 1) - 1 = A /\ A \in 1..(A + B)
      /\ A - i + 2 \in 1..d /\ i + (A - i + 2) - 1 = A + 1 /\ A + 1 \in 1..(A + B)
      /\ (A + 1) - A = 1 /\ ~ (A + 1 <= A) /\ A <= A
  <2>1. 1 <= i /\ i <= A /\ A + 1 < i + d
      BY <1>1, <1>3, <1>4, <1>5
  <2> QED BY <1>1, <1>4, <1>6, <2>1
<1>8. c[A] = a[A] /\ c[A + 1] = b[1]
    BY <1>2, <1>7
<1>9. c[A] = old[A - i + 1] /\ c[A + 1] = old[A - i + 2]
    BY <1>5, <1>7
<1>10. c[A] \notin {LF, CR, FF} /\ c[A + 1] \notin {LF, CR, FF}
    BY <1>7, <1>9 DEF OneLine
<1> QED BY <1>8, <1>10

\* The characters of a replacement come from the text and the new string.
LEMMA ReplacedLine ==
    ASSUME NEW l \in TextLine, NEW old \in Seq(Chars), NEW new \in Seq(Chars),
           OneLine(new)
    PROVE  Replaced(l, old, new) \in TextLine
<1> DEFINE q == PiecesOf(l, old, new)
           R == Replaced(l, old, new)
           F == Occurrences(l, old)
<1>1. l \in Seq(Chars) /\ OneLine(l) /\ Len(l) \in Nat
    BY LenProperties DEF TextLine
<1>2. /\ q \in Seq(Seq(Chars)) /\ Len(q) = Len(l) + 1 /\ R \in Seq(Chars)
      /\ \E P : Laid(P, q, R)
    BY <1>1, ReplacedLaid
<1>3. ASSUME NEW i \in 1..(Len(l) + 1), NEW j \in 1..Len(q[i])
      PROVE  q[i][j] \notin {LF, CR, FF}
  <2> DEFINE x == IF i \in F THEN new ELSE <<>>
             y == IF i <= Len(l) /\ ~ (\E k \in F : k <= i /\ i < k + Len(old))
                  THEN <<l[i]>> ELSE <<>>
  <2>1. q[i] = Cat(x, y)
      BY DEF PiecesOf, Piece
  <2>2. x \in Seq(Chars) /\ \A k \in 1..Len(x) : x[k] \notin {LF, CR, FF}
    <3>1. <<>> \in Seq(Chars) /\ Len(<<>>) = 0
        BY EmptySeq
    <3> QED BY <3>1 DEF OneLine
  <2>3. i <= Len(l) => i \in 1..Len(l) /\ l[i] \in Chars
    <3>1. i <= Len(l) => i \in 1..Len(l)
        BY <1>1
    <3> QED BY <1>1, <3>1, ElementOfSeq
  <2>4. y \in Seq(Chars) /\ \A k \in 1..Len(y) : y[k] \notin {LF, CR, FF}
    <3>1. CASE y = <<>>
        BY <3>1, EmptySeq
    <3>2. CASE y # <<>>
      <4>1. y = <<l[i]>> /\ i \in 1..Len(l) /\ l[i] \in Chars
          BY <2>3, <3>2
      <4>2. l[i] \notin {LF, CR, FF}
          BY <1>1, <4>1 DEF OneLine
      <4> HIDE DEF y
      <4> QED BY <4>1, <4>2
    <3> QED BY <3>1, <3>2
  <2> HIDE DEF x, y
  <2>5. /\ Len(Cat(x, y)) = Len(x) + Len(y) /\ Len(x) \in Nat /\ Len(y) \in Nat
        /\ \A k \in 1..(Len(x) + Len(y)) :
              Cat(x, y)[k] = IF k <= Len(x) THEN x[k] ELSE y[k - Len(x)]
      BY <2>2, <2>4, CatProperties, LenProperties
  <2>6. j \in 1..(Len(x) + Len(y))
      BY <2>1, <2>5
  <2>7. CASE j <= Len(x)
    <3>1. j \in 1..Len(x)
        BY <2>5, <2>6, <2>7
    <3> QED BY <2>1, <2>2, <2>5, <2>6, <2>7, <3>1
  <2>8. CASE ~ (j <= Len(x))
    <3>1. j - Len(x) \in 1..Len(y)
        BY <2>5, <2>6, <2>8
    <3> QED BY <2>1, <2>4, <2>5, <2>6, <2>8, <3>1
  <2> QED BY <2>7, <2>8
<1>4. PICK P : Laid(P, q, R)
    BY <1>2
<1> HIDE DEF q, R
<1>5. ASSUME NEW p \in 1..Len(R)
      PROVE  R[p] \notin {LF, CR, FF}
  <2>1. InPiece(P, q, p)
      BY <1>2, <1>4, LaidPosition
  <2>2. PICK k \in 1..Len(q) : \E j \in 1..Len(q[k]) : p = P[k - 1] + j
      BY <2>1 DEF InPiece
  <2>3. PICK j \in 1..Len(q[k]) : p = P[k - 1] + j
      BY <2>2
  <2>4. R[p] = q[k][j]
      BY <1>4, <2>3 DEF Laid
  <2> QED BY <1>2, <1>3, <2>4
<1>6. R \in TextLine
    BY <1>2, <1>5 DEF TextLine, OneLine
<1> QED BY <1>6 DEF R

LEMMA AppendIsCat ==
    ASSUME NEW C, NEW s \in Seq(C), NEW x \in C
    PROVE  Append(s, x) = Cat(s, <<x>>)
BY AppendIsConcat DEF Cat

LEMMA ReplacedEnded ==
    ASSUME NEW l \in Seq(Chars), NEW x \in {LF, FF},
           NEW old \in Seq(Chars), NEW new \in Seq(Chars),
           OneLine(old), old # <<>>
    PROVE  Replaced(Append(l, x), old, new) = Append(Replaced(l, old, new), x)
<1> DEFINE b == <<x>>
<1>1. x \in Chars /\ b \in Seq(Chars) /\ Len(b) = 1 /\ b[1] = x
    BY TextAssumption
<1>2. Append(l, x) = Cat(l, b)
    BY <1>1, AppendIsCat
<1>3. Append(Replaced(l, old, new), x) = Cat(Replaced(l, old, new), b)
    BY <1>1, ReplacedLaid, AppendIsCat
<1> HIDE DEF b
<1>4. Positions(b, old) = {}
  <2>1. SUFFICES ASSUME NEW i \in Positions(b, old)
                 PROVE  FALSE
      OBVIOUS
  <2>2. i \in Nat
      BY DEF Positions
  <2>3. 1 <= i /\ i + Len(old) <= Len(b) + 1 /\ \A j \in 1..Len(old) : b[i + j - 1] = old[j]
      BY <1>1, <2>2, PositionsAre
  <2>4. Len(old) \in Nat /\ Len(old) # 0
      BY LenProperties, EmptySeq
  <2>5. i = 1 /\ 1 \in 1..Len(old) /\ i + 1 - 1 = 1
      BY <1>1, <2>2, <2>3, <2>4
  <2>6. b[1] = old[1]
      BY <2>3, <2>5
  <2> QED BY <1>1, <2>5, <2>6 DEF OneLine
<1>5. Replaced(b, old, new) = b
    BY <1>1, <1>4, ReplacedNone
<1>6. Apart(l, b, old)
    BY <1>1, BreakParts
<1>7. Replaced(Cat(l, b), old, new) = Cat(Replaced(l, old, new), Replaced(b, old, new))
    BY <1>1, <1>6, ReplacedCat
<1> QED BY <1>2, <1>3, <1>5, <1>7

LEMMA FlattenUnfold ==
    ASSUME NEW C, NEW q \in Seq(Seq(C)), Len(q) # 0
    PROVE  \E u : FlattenDef(q, Len(q), u) /\ FlattenSeq(q) = u[Len(q)]
<1> DEFINE n == Len(q)
           u == CHOOSE u : FlattenDef(q, n, u)
<1>1. n \in Nat
    BY LenProperties
<1>2. FlattenSeq(q) = u[n]
    BY DEF FlattenSeq, FlattenDef, Cat
<1>3. FlattenDef(q, n, u)
    BY <1>1, FlattenFunction
<1> QED BY <1>2, <1>3

\* The lines after replacing in each, and the pieces with their breaks.
ReplacedLines(lines, old, new) == [k \in 1..Len(lines) |-> Replaced(lines[k], old, new)]
ReplacedPieces(q, lines, old, new) ==
    [k \in 1..Len(lines) |->
        Append(Replaced(lines[k], old, new), q[k][Len(lines[k]) + 1])]

LEMMA ReplacedPiecesEnded ==
    ASSUME NEW lines \in Seq(TextLine), NEW q, IsEnded(q, lines),
           NEW old \in Seq(Chars), NEW new \in Seq(Chars),
           OneLine(old), old # <<>>, OneLine(new)
    PROVE  /\ ReplacedLines(lines, old, new) \in Seq(TextLine)
           /\ Len(ReplacedLines(lines, old, new)) = Len(lines)
           /\ IsEnded(ReplacedPieces(q, lines, old, new), ReplacedLines(lines, old, new))
           /\ \A k \in 1..Len(lines) :
                 ReplacedPieces(q, lines, old, new)[k] = Replaced(q[k], old, new)
<1> DEFINE n == Len(lines)
           ls == ReplacedLines(lines, old, new)
           r == ReplacedPieces(q, lines, old, new)
<1>1. n \in Nat
    BY LenProperties
<1>2. /\ q \in Seq(Seq(Chars)) /\ Len(q) = n
      /\ \A k \in 1..n :
            /\ Len(lines[k]) \in Nat /\ Len(q[k]) = Len(lines[k]) + 1
            /\ q[k][Len(lines[k]) + 1] \in {LF, FF}
            /\ \A j \in 1..Len(lines[k]) : q[k][j] = lines[k][j]
    BY DEF IsEnded
<1>3. ASSUME NEW k \in 1..n
      PROVE  /\ ls[k] \in TextLine /\ ls[k] \in Seq(Chars)
             /\ lines[k] \in TextLine /\ lines[k] \in Seq(Chars)
             /\ r[k] = Append(ls[k], q[k][Len(lines[k]) + 1])
  <2>1. lines[k] \in TextLine
      BY ElementOfSeq
  <2>2. ls[k] = Replaced(lines[k], old, new) /\ ls[k] \in TextLine
      BY <2>1, ReplacedLine DEF ReplacedLines
  <2>3. r[k] = Append(ls[k], q[k][Len(lines[k]) + 1])
      BY <2>2 DEF ReplacedPieces
  <2> QED BY <2>1, <2>2, <2>3 DEF TextLine
<1>4. ls \in Seq(TextLine) /\ Len(ls) = n
  <2>1. \A k \in 1..n : Replaced(lines[k], old, new) \in TextLine
      BY <1>3 DEF ReplacedLines
  <2> QED BY <1>1, <2>1 DEF ReplacedLines
<1>5. ASSUME NEW k \in 1..n
      PROVE  LET m == Len(ls[k])
             IN  /\ r[k] \in Seq(Chars)
                 /\ m \in Nat /\ Len(r[k]) = m + 1
                 /\ r[k][m + 1] \in {LF, FF}
                 /\ \A j \in 1..m : r[k][j] = ls[k][j] /\ r[k][j] \notin {LF, CR, FF}
  <2> DEFINE l == ls[k]
             x == q[k][Len(lines[k]) + 1]
  <2>1. l \in Seq(Chars) /\ x \in Chars /\ x \in {LF, FF} /\ OneLine(l) /\ r[k] = Append(l, x)
      BY <1>2, <1>3, TextAssumption DEF TextLine
  <2> HIDE DEF l, x
  <2>2. /\ Append(l, x) \in Seq(Chars) /\ Len(l) \in Nat
        /\ Len(Append(l, x)) = Len(l) + 1
        /\ \A j \in 1..Len(l) : Append(l, x)[j] = l[j]
        /\ Append(l, x)[Len(l) + 1] = x
      BY <2>1, AppendProperties, LenProperties
  <2>3. \A j \in 1..Len(l) : l[j] \notin {LF, CR, FF}
      BY <2>1 DEF OneLine
  <2> QED BY <2>1, <2>2, <2>3 DEF l
<1>6. r \in Seq(Seq(Chars)) /\ Len(r) = n
  <2>1. r = [k \in 1..n |-> r[k]]
      BY DEF ReplacedPieces
  <2> HIDE DEF r
  <2> QED BY <1>1, <1>5, <2>1
<1>7. IsEnded(r, ls)
  <2> HIDE DEF r, ls, n
  <2> QED BY <1>4, <1>5, <1>6 DEF IsEnded
<1>8. ASSUME NEW k \in 1..n
      PROVE  r[k] = Replaced(q[k], old, new)
  <2> DEFINE l == lines[k]
             x == q[k][Len(lines[k]) + 1]
             a == Append(l, x)
  <2>1. /\ l \in Seq(Chars) /\ x \in {LF, FF} /\ x \in Chars /\ q[k] \in Seq(Chars)
        /\ Len(q[k]) = Len(l) + 1 /\ Len(l) \in Nat
        /\ q[k][Len(l) + 1] = x /\ \A j \in 1..Len(l) : q[k][j] = l[j]
      BY <1>2, <1>3, ElementOfSeq, TextAssumption
  <2> HIDE DEF l, x
  <2>2. /\ a \in Seq(Chars) /\ Len(a) = Len(l) + 1
        /\ \A j \in 1..Len(l) : a[j] = l[j]
        /\ a[Len(l) + 1] = x
      BY <2>1, AppendProperties
  <2> HIDE DEF a
  <2>3. ASSUME NEW j \in 1..Len(a)
        PROVE  a[j] = q[k][j]
    <3>1. j \in 1..Len(l) \/ j = Len(l) + 1
        BY <2>1, <2>2
    <3> QED BY <2>1, <2>2, <3>1
  <2>4. q[k] = a
      BY <2>1, <2>2, <2>3, SeqEqual
  <2>5. Replaced(a, old, new) = Append(Replaced(l, old, new), x)
    <3>1. l \in Seq(Chars) /\ x \in {LF, FF}
        BY <2>1
    <3>2. Replaced(Append(l, x), old, new) = Append(Replaced(l, old, new), x)
        BY <3>1, ReplacedEnded
    <3> QED BY <3>2 DEF a
  <2> QED BY <2>4, <2>5 DEF ReplacedPieces, l, x
<1> QED BY <1>4, <1>7, <1>8 DEF n

\* Parts that all end with a break, but for the last, are replaced in apart.
LEMMA ReplacedParts ==
    ASSUME NEW q \in Seq(Seq(Chars)), NEW r \in Seq(Seq(Chars)),
           Len(q) # 0, Len(r) = Len(q),
           NEW old \in Seq(Chars), NEW new \in Seq(Chars),
           OneLine(old), old # <<>>,
           \A k \in 1..Len(q) : r[k] = Replaced(q[k], old, new),
           \A k \in 1..Len(q) : k < Len(q) =>
               Len(q[k]) # 0 /\ q[k][Len(q[k])] \in {LF, CR, FF}
    PROVE  Replaced(FlattenSeq(q), old, new) = FlattenSeq(r)
<1> DEFINE n == Len(q)
<1>1. n \in Nat /\ n # 0
    BY LenProperties
<1>2. \A k \in 1..n : k < n => Len(q[k]) # 0 /\ q[k][Len(q[k])] \in {LF, CR, FF}
    OBVIOUS
<1>3. Len(q) = n /\ Len(r) = n /\ \A k \in 1..n : r[k] = Replaced(q[k], old, new)
    OBVIOUS
<1> HIDE DEF n
<1>4. PICK u : FlattenDef(q, n, u) /\ FlattenSeq(q) = u[n]
    BY <1>1, <1>3, FlattenUnfold
<1>5. PICK v : FlattenDef(r, n, v) /\ FlattenSeq(r) = v[n]
    BY <1>1, <1>3, FlattenUnfold
<1>6. /\ \A i \in 1..n : u[i] = IF i = 1 THEN q[i] ELSE Cat(u[i - 1], q[i])
      /\ \A i \in 1..n : v[i] = IF i = 1 THEN r[i] ELSE Cat(v[i - 1], r[i])
    BY <1>4, <1>5 DEF FlattenDef
<1> DEFINE Broken(w) == Len(w) # 0 /\ w[Len(w)] \in {LF, CR, FF}
           Good(k) == /\ u[k] \in Seq(Chars)
                      /\ k < n => Broken(u[k])
                      /\ v[k] = Replaced(u[k], old, new)
           S == {k \in Nat : k # 0 => Good(k)}
<1>7. 0 \in S
    OBVIOUS
<1>8. ASSUME NEW k \in Nat, k < n, k \in S
      PROVE  k + 1 \in S
  <2>1. k + 1 \in 1..n /\ (k + 1) - 1 = k /\ (k + 1 = 1 <=> k = 0)
    <3> HIDE DEF S
    <3> QED BY <1>1, <1>8
  <2>2. /\ q[k + 1] \in Seq(Chars) /\ Len(q[k + 1]) \in Nat
        /\ k + 1 < n => Broken(q[k + 1])
        /\ r[k + 1] = Replaced(q[k + 1], old, new)
    <3>1. q[k + 1] \in Seq(Chars)
        BY <1>3, <2>1, ElementOfSeq
    <3>2. Len(q[k + 1]) \in Nat
        BY <3>1, LenProperties
    <3> QED BY <1>2, <1>3, <2>1, <3>1, <3>2
  <2>3. CASE k = 0
    <3>1. u[k + 1] = q[k + 1] /\ v[k + 1] = r[k + 1]
        BY <1>6, <2>1, <2>3
    <3> QED BY <2>2, <3>1
  <2>4. CASE k # 0
    <3> DEFINE a == u[k]
               b == q[k + 1]
               c == Cat(a, b)
    <3>1. u[k + 1] = c /\ v[k + 1] = Cat(v[k], r[k + 1])
        BY <1>6, <2>1, <2>4
    <3>2. a \in Seq(Chars) /\ Len(a) # 0 /\ a[Len(a)] \in {LF, CR, FF}
          /\ v[k] = Replaced(a, old, new)
        BY <1>8, <2>4
    <3>3. b \in Seq(Chars) /\ Len(b) \in Nat
          /\ (k + 1 < n => Len(b) # 0 /\ b[Len(b)] \in {LF, CR, FF})
          /\ r[k + 1] = Replaced(b, old, new)
        BY <2>2
    <3> HIDE DEF a, b
    <3>4. Apart(a, b, old)
        BY <3>2, <3>3, BreakParts
    <3>5. Replaced(c, old, new) = Cat(Replaced(a, old, new), Replaced(b, old, new))
        BY <3>2, <3>3, <3>4, ReplacedCat
    <3>6. /\ c \in Seq(Chars) /\ Len(c) = Len(a) + Len(b) /\ Len(a) \in Nat
          /\ \A i \in 1..(Len(a) + Len(b)) :
                c[i] = IF i <= Len(a) THEN a[i] ELSE b[i - Len(a)]
        BY <3>2, <3>3, CatProperties, LenProperties
    <3> HIDE DEF c
    <3>7. ASSUME k + 1 < n
          PROVE  Len(c) # 0 /\ c[Len(c)] \in {LF, CR, FF}
      <4>1. /\ Len(a) + Len(b) \in 1..(Len(a) + Len(b))
            /\ ~ (Len(a) + Len(b) <= Len(a)) /\ (Len(a) + Len(b)) - Len(a) = Len(b)
          BY <3>3, <3>6, <3>7
      <4>2. c[Len(a) + Len(b)] = b[Len(b)]
          BY <3>6, <4>1
      <4>3. Len(c) = Len(a) + Len(b) /\ Len(c) # 0
          BY <3>3, <3>6, <3>7
      <4> QED BY <3>3, <3>7, <4>2, <4>3
    <3>9. v[k + 1] = Replaced(c, old, new)
        BY <3>1, <3>2, <3>3, <3>5
    <3>10. Good(k + 1)
        BY <3>1, <3>6, <3>7, <3>9
    <3> QED BY <3>10
  <2> QED BY <2>3, <2>4
<1>9. n \in S
  <2>1. \A k \in 0..n : k \in S
    <3> HIDE DEF S
    <3> QED BY <1>1, <1>7, <1>8, UpTo
  <2> QED BY <1>1, <2>1
<1>10. v[n] = Replaced(u[n], old, new)
    BY <1>1, <1>9
<1> QED BY <1>4, <1>5, <1>10

LEMMA ReplacedText ==
    ASSUME NEW lines \in Seq(TextLine), lines # <<>>, NEW q, IsEnded(q, lines),
           NEW old \in Seq(Chars), NEW new \in Seq(Chars),
           OneLine(old), old # <<>>, OneLine(new)
    PROVE  Replaced(FlattenSeq(q), old, new) = FlattenSeq(ReplacedPieces(q, lines, old, new))
<1> DEFINE n == Len(lines)
           ls == ReplacedLines(lines, old, new)
           r == ReplacedPieces(q, lines, old, new)
<1>1. n \in Nat /\ n # 0
    BY LenProperties, EmptySeq
<1>2. /\ q \in Seq(Seq(Chars)) /\ Len(q) = n
      /\ \A k \in 1..n : /\ Len(q[k]) \in Nat /\ Len(q[k]) # 0
                         /\ q[k][Len(q[k])] \in {LF, CR, FF}
  <2>1. /\ q \in Seq(Seq(Chars)) /\ Len(q) = n
        /\ \A k \in 1..n : /\ Len(lines[k]) \in Nat /\ Len(q[k]) = Len(lines[k]) + 1
                           /\ q[k][Len(lines[k]) + 1] \in {LF, FF}
      BY DEF IsEnded
  <2>2. ASSUME NEW k \in 1..n
        PROVE  /\ Len(q[k]) \in Nat /\ Len(q[k]) # 0
               /\ q[k][Len(q[k])] \in {LF, CR, FF}
    <3>1. Len(lines[k]) \in Nat /\ Len(q[k]) = Len(lines[k]) + 1
        BY <2>1
    <3>2. q[k][Len(q[k])] \in {LF, FF}
        BY <2>1, <3>1
    <3> QED BY <3>1, <3>2
  <2> QED BY <2>1, <2>2
<1>3. /\ r \in Seq(Seq(Chars)) /\ Len(r) = n
      /\ \A k \in 1..n : r[k] = Replaced(q[k], old, new)
  <2>1. IsEnded(r, ls) /\ Len(ls) = n
      BY ReplacedPiecesEnded
  <2>2. \A k \in 1..n : r[k] = Replaced(q[k], old, new)
      BY ReplacedPiecesEnded
  <2> QED BY <2>1, <2>2 DEF IsEnded
<1> HIDE DEF r, ls
<1>4. /\ q \in Seq(Seq(Chars)) /\ r \in Seq(Seq(Chars)) /\ Len(q) # 0 /\ Len(r) = Len(q)
      /\ \A k \in 1..Len(q) : r[k] = Replaced(q[k], old, new)
      /\ \A k \in 1..Len(q) : k < Len(q) =>
            Len(q[k]) # 0 /\ q[k][Len(q[k])] \in {LF, CR, FF}
    BY <1>1, <1>2, <1>3
<1>5. Replaced(FlattenSeq(q), old, new) = FlattenSeq(r)
    BY <1>4, ReplacedParts
<1> QED BY <1>5 DEF r

\* A text that ends with a break is its lines, each with its break.
LEMMA EndedText ==
    ASSUME NEW t, NoReturns(t), t # <<>>, Len(t) \in Breaks(t)
    PROVE  /\ splitlines(t) # <<>> /\ splitlines(t) \in Seq(TextLine)
           /\ \E q : IsEnded(q, splitlines(t)) /\ FlattenSeq(q) = t
<1> DEFINE lines == splitlines(t)
           n == Len(lines)
           m == Len(t)
<1>1. PICK e : LinesOf(lines, e, t)
    BY SplitShape
<1> HIDE DEF lines
<1>2. /\ lines \in Seq(TextLine) /\ n \in Nat /\ Len(e) = n
      /\ Lists(e, LineEnds(t), m + 1) /\ LineEnds(t) = Breaks(t)
    BY <1>1, LenProperties DEF LinesOf, LineEnds
<1>3. t \in Seq(Chars) /\ m \in Nat /\ m + 1 \in Nat
    BY LenProperties DEF NoReturns
<1>4. n \in 1..n /\ e[n] = m /\ lines # <<>>
  <2>1. n \in 1..n /\ e[n] = IF t[m] \in {LF, FF} THEN m ELSE m + 1
      BY <1>2, LastEnd
  <2>2. t[m] \in {LF, FF}
      BY DEF Breaks, NoReturns
  <2> QED BY <2>1, <2>2, EmptySeq
<1> HIDE DEF n, m
<1>5. ASSUME NEW k \in 1..n
      PROVE  /\ e[k] \in 1..m /\ t[e[k]] \in {LF, FF}
             /\ lines[k] \in Seq(Chars) /\ OneLine(lines[k]) /\ Len(lines[k]) \in Nat
             /\ Start(e, k) \in Nat /\ e[k] = Start(e, k) + Len(lines[k])
             /\ \A j \in 1..Len(lines[k]) : lines[k][j] = t[Start(e, k) + j - 1]
  <2>1. e[k] \in Breaks(t)
      BY <1>2 DEF Lists
  <2>2. e[k] \in 1..m /\ t[e[k]] \in {LF, FF}
      BY <2>1 DEF Breaks, NoReturns, m
  <2>3. lines[k] \in Seq(Chars) /\ OneLine(lines[k]) /\ Len(lines[k]) \in Nat
    <3>1. lines[k] \in TextLine
        BY <1>2, ElementOfSeq DEF n
    <3> QED BY <3>1, LenProperties DEF TextLine
  <2>4. /\ Len(lines[k]) = e[k] - Start(e, k)
        /\ \A j \in 1..Len(lines[k]) : lines[k][j] = t[Start(e, k) + j - 1]
      BY <1>1, <1>2 DEF LinesOf
  <2>5. Start(e, k) \in Nat
      BY <1>2, <1>3, StartType
  <2>6. e[k] = Start(e, k) + Len(lines[k])
      BY <2>2, <2>4, <2>5
  <2> QED BY <2>2, <2>3, <2>4, <2>5, <2>6
<1> DEFINE q == [k \in 1..n |-> Append(lines[k], t[e[k]])]
           P == [k \in 0..n |-> IF k = 0 THEN 0 ELSE e[k]]
<1>6. ASSUME NEW k \in 1..n
      PROVE  /\ q[k] \in Seq(Chars) /\ Len(q[k]) = Len(lines[k]) + 1
             /\ q[k][Len(lines[k]) + 1] = t[e[k]]
             /\ \A j \in 1..Len(lines[k]) : q[k][j] = lines[k][j]
  <2> DEFINE l == lines[k]
             x == t[e[k]]
  <2>1. l \in Seq(Chars) /\ x \in Chars /\ q[k] = Append(l, x)
      BY <1>5, TextAssumption
  <2> HIDE DEF l, x
  <2>2. /\ Append(l, x) \in Seq(Chars) /\ Len(Append(l, x)) = Len(l) + 1
        /\ Append(l, x)[Len(l) + 1] = x
        /\ \A j \in 1..Len(l) : Append(l, x)[j] = l[j]
      BY <2>1, AppendProperties
  <2> QED BY <2>1, <2>2 DEF l, x
<1>7. q \in Seq(Seq(Chars)) /\ Len(q) = n
    BY <1>2, <1>6 DEF n
<1>8. P \in [0..n -> Nat] /\ P[0] = 0 /\ \A k \in 1..n : P[k] = e[k]
  <2>1. n \in Nat /\ 0 \in 0..n
      BY <1>4
  <2>2. \A k \in 1..n : e[k] \in Nat /\ k \in 0..n /\ k # 0
      BY <1>5
  <2> QED BY <2>1, <2>2
<1> HIDE DEF q, P
<1>9. ASSUME NEW k \in 1..n
      PROVE  P[k - 1] + 1 = Start(e, k)
  <2>1. CASE k = 1
      BY <1>8, <2>1 DEF Start
  <2>2. CASE k # 1
    <3>1. k - 1 \in 1..n
        BY <1>4, <2>2
    <3> QED BY <1>8, <2>2, <3>1 DEF Start
  <2> QED BY <2>1, <2>2
<1>10. IsEnded(q, lines)
  <2>1. ASSUME NEW k \in 1..n
        PROVE  /\ Len(lines[k]) \in Nat /\ Len(q[k]) = Len(lines[k]) + 1
               /\ q[k][Len(lines[k]) + 1] \in {LF, FF}
               /\ \A j \in 1..Len(lines[k]) : /\ q[k][j] = lines[k][j]
                                              /\ q[k][j] \notin {LF, CR, FF}
    <3>1. Len(lines[k]) \in Nat /\ OneLine(lines[k]) /\ t[e[k]] \in {LF, FF}
        BY <1>5
    <3>2. \A j \in 1..Len(lines[k]) : lines[k][j] \notin {LF, CR, FF}
        BY <3>1 DEF OneLine
    <3> QED BY <1>6, <3>1, <3>2
  <2> QED BY <1>7, <2>1 DEF IsEnded, n
<1>11. Laid(P, q, t)
  <2>1. ASSUME NEW k \in 1..n
        PROVE  /\ P[k] = P[k - 1] + Len(q[k])
               /\ \A j \in 1..Len(q[k]) : t[P[k - 1] + j] = q[k][j]
    <3>1. /\ e[k] \in Nat /\ Len(lines[k]) \in Nat /\ Start(e, k) \in Nat
          /\ e[k] = Start(e, k) + Len(lines[k])
        BY <1>5
    <3>2. k - 1 \in 0..n
        BY <1>4
    <3>3. P[k - 1] \in Nat /\ P[k - 1] + 1 = Start(e, k) /\ P[k] = e[k]
        BY <1>8, <1>9, <3>2
    <3>4. Len(q[k]) = Len(lines[k]) + 1
        BY <1>6
    <3>5. P[k] = P[k - 1] + Len(q[k])
        BY <3>1, <3>3, <3>4
    <3>6. ASSUME NEW j \in 1..Len(q[k])
          PROVE  t[P[k - 1] + j] = q[k][j]
      <4>1. CASE j = Len(lines[k]) + 1
        <5>1. P[k - 1] + j = e[k]
            BY <3>1, <3>3, <4>1
        <5> QED BY <1>6, <4>1, <5>1
      <4>2. CASE j \in 1..Len(lines[k])
        <5>1. Start(e, k) + j - 1 = P[k - 1] + j
            BY <3>1, <3>3
        <5>2. lines[k][j] = t[Start(e, k) + j - 1]
            BY <1>5, <4>2
        <5> QED BY <1>6, <4>2, <5>1, <5>2
      <4>3. j = Len(lines[k]) + 1 \/ j \in 1..Len(lines[k])
          BY <3>1, <3>4
      <4> QED BY <4>1, <4>2, <4>3
    <3> QED BY <3>5, <3>6
  <2>2. Len(t) = P[n]
      BY <1>4, <1>8 DEF m
  <2> QED BY <1>7, <1>8, <2>1, <2>2 DEF Laid, Offsets
<1>12. FlattenSeq(q) \in Seq(Chars) /\ \E R : Laid(R, q, FlattenSeq(q))
    BY <1>7, FlattenLaid
<1>13. FlattenSeq(q) = t
    BY <1>3, <1>7, <1>11, <1>12, LaidUnique
<1> QED BY <1>2, <1>4, <1>10, <1>13 DEF lines

LEMMA ReplacedEndedText ==
    ASSUME NEW t, NoReturns(t), t # <<>>, Len(t) \in Breaks(t),
           NEW old \in Seq(Chars), NEW new \in Seq(Chars),
           OneLine(old), old # <<>>, OneLine(new)
    PROVE  LET R == Replaced(t, old, new)
               ls == ReplacedLines(splitlines(t), old, new)
           IN  /\ NoReturns(R) /\ ls \in Seq(TextLine)
               /\ \E f : LinesOf(ls, f, R)
<1> DEFINE lines == splitlines(t)
           R == Replaced(t, old, new)
           ls == ReplacedLines(lines, old, new)
<1>1. lines # <<>> /\ lines \in Seq(TextLine)
    BY EndedText
<1>2. PICK q : IsEnded(q, lines) /\ FlattenSeq(q) = t
    BY EndedText
<1> DEFINE r == ReplacedPieces(q, lines, old, new)
<1> HIDE DEF lines
<1>3. R = FlattenSeq(r)
    BY <1>1, <1>2, ReplacedText
<1>4. ls \in Seq(TextLine) /\ IsEnded(r, ls)
    BY <1>1, <1>2, ReplacedPiecesEnded
<1>5. r \in Seq(Seq(Chars))
    BY <1>4 DEF IsEnded
<1> HIDE DEF r, ls, R
<1>6. R \in Seq(Chars) /\ \E P : Laid(P, r, R)
    BY <1>3, <1>5, FlattenLaid
<1>7. PICK P : Laid(P, r, R)
    BY <1>6
<1>8. NoReturns(R) /\ LinesOf(ls, [k \in 1..Len(ls) |-> P[k]], R)
    BY <1>4, <1>6, <1>7, EndedSplit
<1> QED BY <1>4, <1>8 DEF R, ls, lines

\* The lines of a text, each with the break that ends it, if one does.
LinePieces(t) ==
    [k \in 1..Len(splitlines(t)) |-> Cat(splitlines(t)[k], LineBreak(t, k))]

LEMMA LinesAreText ==
    ASSUME NEW t, NoReturns(t), t # <<>>
    PROVE  LET lines == splitlines(t)
               q == LinePieces(t)
           IN  /\ q \in Seq(Seq(Chars)) /\ Len(q) = Len(lines) /\ Len(lines) # 0
               /\ FlattenSeq(q) = t
               /\ \A k \in 1..Len(lines) :
                     /\ lines[k] \in Seq(Chars)
                     /\ \/ LineBreak(t, k) = <<>> /\ ~ (k < Len(lines))
                        \/ \E x \in {LF, FF} : LineBreak(t, k) = <<x>>
<1> DEFINE lines == splitlines(t)
           n == Len(lines)
           m == Len(t)
           q == LinePieces(t)
           brk(k) == LineBreak(t, k)
<1>1. PICK e : LinesOf(lines, e, t)
    BY SplitShape
<1>2. t \in Seq(Chars) /\ m \in Nat /\ m + 1 \in Nat
    BY LenProperties DEF NoReturns
<1>3. /\ lines \in Seq(TextLine) /\ n \in Nat /\ Len(e) = n
      /\ Lists(e, LineEnds(t), m + 1)
    BY <1>1, LenProperties DEF LinesOf
<1>4. \A k \in 1..n : brk(k) = IF e[k] <= m THEN <<t[e[k]]>> ELSE <<>>
  <2>1. Ascending(LineEnds(t), m + 1) = e
      BY <1>2, <1>3, AscendingIs
  <2> QED BY <2>1 DEF LineBreak
<1>5. n \in 1..n /\ e[n] = (IF t[m] \in {LF, FF} THEN m ELSE m + 1)
    BY <1>3, LastEnd
<1>6. \A k \in 1..n : q[k] = Cat(lines[k], brk(k))
    BY DEF LinePieces
<1>7. q = [k \in 1..n |-> q[k]]
    BY DEF LinePieces
<1> HIDE DEF lines, n, m, q, brk
<1>8. ASSUME NEW k \in 1..n
      PROVE  /\ lines[k] \in Seq(Chars) /\ Len(lines[k]) \in Nat
             /\ Start(e, k) \in Nat /\ e[k] \in 1..(m + 1)
             /\ e[k] = Start(e, k) + Len(lines[k])
             /\ \A j \in 1..Len(lines[k]) : lines[k][j] = t[Start(e, k) + j - 1]
             /\ e[k] <= m => t[e[k]] \in {LF, FF}
             /\ ~ (e[k] <= m) => e[k] = m + 1 /\ ~ (k < n)
  <2>1. lines[k] \in Seq(Chars) /\ Len(lines[k]) \in Nat
    <3>1. lines[k] \in TextLine
        BY <1>3, ElementOfSeq DEF n
    <3> QED BY <3>1, LenProperties DEF TextLine
  <2>2. /\ Len(lines[k]) = e[k] - Start(e, k)
        /\ \A j \in 1..Len(lines[k]) : lines[k][j] = t[Start(e, k) + j - 1]
      BY <1>1, <1>3 DEF LinesOf
  <2>3. Start(e, k) \in Nat /\ e[k] \in 1..(m + 1)
      BY <1>2, <1>3, StartType
  <2>4. e[k] = Start(e, k) + Len(lines[k])
      BY <2>1, <2>2, <2>3
  <2>5. e[k] \in LineEnds(t)
      BY <1>3 DEF Lists
  <2>6. ASSUME e[k] <= m
        PROVE  t[e[k]] \in {LF, FF}
    <3>1. e[k] # m + 1
        BY <1>2, <2>3, <2>6
    <3>2. e[k] \in Breaks(t)
        BY <2>5, <3>1 DEF LineEnds, m
    <3> QED BY <3>2 DEF Breaks, NoReturns
  <2>7. ASSUME ~ (e[k] <= m)
        PROVE  e[k] = m + 1 /\ ~ (k < n)
    <3>1. e[k] = m + 1
        BY <1>2, <2>3, <2>7
    <3>2. SUFFICES ASSUME k < n
                   PROVE  FALSE
        BY <3>1
    <3>3. e[k] < e[n] /\ e[n] \in 1..(m + 1)
        BY <1>3, <1>5, <3>2 DEF Lists
    <3> QED BY <1>2, <3>1, <3>3
  <2> QED BY <2>1, <2>2, <2>3, <2>4, <2>6, <2>7
<1>9. ASSUME NEW k \in 1..n
      PROVE  \/ brk(k) = <<>> /\ ~ (k < n)
             \/ \E x \in {LF, FF} : brk(k) = <<x>>
    BY <1>4, <1>8
<1>10. ASSUME NEW k \in 1..n
       PROVE  /\ q[k] \in Seq(Chars)
              /\ e[k] <= m => Len(q[k]) = Len(lines[k]) + 1
              /\ ~ (e[k] <= m) => Len(q[k]) = Len(lines[k])
              /\ \A j \in 1..Len(lines[k]) : q[k][j] = lines[k][j]
              /\ e[k] <= m => q[k][Len(lines[k]) + 1] = t[e[k]]
  <2> DEFINE l == lines[k]
             x == t[e[k]]
  <2>1. l \in Seq(Chars) /\ Len(l) \in Nat
      BY <1>8
  <2>2. CASE e[k] <= m
    <3>1. x \in Chars /\ q[k] = Cat(l, <<x>>)
        BY <1>4, <1>6, <1>8, <2>2, TextAssumption
    <3> HIDE DEF l, x
    <3>2. q[k] = Append(l, x)
        BY <2>1, <3>1, AppendIsCat
    <3>3. /\ Append(l, x) \in Seq(Chars) /\ Len(Append(l, x)) = Len(l) + 1
          /\ Append(l, x)[Len(l) + 1] = x
          /\ \A j \in 1..Len(l) : Append(l, x)[j] = l[j]
        BY <2>1, <3>1, AppendProperties
    <3> QED BY <2>2, <3>2, <3>3 DEF l, x
  <2>3. CASE ~ (e[k] <= m)
    <3>1. q[k] = Cat(l, <<>>)
        BY <1>4, <1>6, <2>3
    <3> HIDE DEF l
    <3>2. q[k] = l
        BY <2>1, <3>1, CatEmpty
    <3> QED BY <2>1, <2>3, <3>2 DEF l
  <2> QED BY <2>2, <2>3
<1>11. q \in Seq(Seq(Chars)) /\ Len(q) = n
  <2>1. n \in Nat /\ \A k \in 1..n : q[k] \in Seq(Chars)
      BY <1>3, <1>10
  <2>2. q = [k \in 1..n |-> q[k]]
      BY <1>7
  <2> QED BY <2>1, <2>2
<1> DEFINE P == [k \in 0..n |-> IF k = 0 THEN 0
                               ELSE IF e[k] <= m THEN e[k] ELSE m]
<1>12. /\ P \in [0..n -> Nat] /\ P[0] = 0
       /\ \A k \in 1..n : P[k] = IF e[k] <= m THEN e[k] ELSE m
  <2>1. n \in Nat /\ 0 \in 0..n
      BY <1>3
  <2>2. \A k \in 1..n : e[k] \in Nat /\ k \in 0..n /\ k # 0
      BY <1>8
  <2> QED BY <1>2, <2>1, <2>2
<1> HIDE DEF P
<1>13. ASSUME NEW k \in 1..n
       PROVE  P[k - 1] + 1 = Start(e, k)
  <2>1. CASE k = 1
      BY <1>12, <2>1 DEF Start
  <2>2. CASE k # 1
    <3>1. k - 1 \in 1..n /\ k - 1 < n
        BY <1>3, <2>2
    <3>2. e[k - 1] <= m
        BY <1>8, <3>1
    <3> QED BY <1>12, <2>2, <3>1, <3>2 DEF Start
  <2> QED BY <2>1, <2>2
<1>14. Laid(P, q, t)
  <2>1. ASSUME NEW k \in 1..n
        PROVE  /\ P[k] = P[k - 1] + Len(q[k])
               /\ \A j \in 1..Len(q[k]) : t[P[k - 1] + j] = q[k][j]
    <3>1. /\ e[k] \in Nat /\ Len(lines[k]) \in Nat /\ Start(e, k) \in Nat
          /\ e[k] = Start(e, k) + Len(lines[k])
          /\ ~ (e[k] <= m) => e[k] = m + 1
        BY <1>8
    <3>2. k - 1 \in 0..n
        BY <1>3
    <3>3. /\ P[k - 1] \in Nat /\ P[k - 1] + 1 = Start(e, k)
          /\ e[k] <= m => P[k] = e[k]
          /\ ~ (e[k] <= m) => P[k] = m
        BY <1>12, <1>13, <3>2
    <3>4. /\ e[k] <= m => Len(q[k]) = Len(lines[k]) + 1
          /\ ~ (e[k] <= m) => Len(q[k]) = Len(lines[k])
        BY <1>10
    <3>5. P[k] = P[k - 1] + Len(q[k])
      <4>1. CASE e[k] <= m
        <5>1. P[k] = e[k] /\ Len(q[k]) = Len(lines[k]) + 1
            BY <3>3, <3>4, <4>1
        <5> QED BY <3>1, <3>3, <5>1
      <4>2. CASE ~ (e[k] <= m)
        <5>1. P[k] = m /\ e[k] = m + 1 /\ Len(q[k]) = Len(lines[k])
            BY <3>1, <3>3, <3>4, <4>2
        <5>2. /\ P[k - 1] \in Nat /\ Len(lines[k]) \in Nat
              /\ e[k] = P[k - 1] + 1 + Len(lines[k])
            BY <3>1, <3>3
        <5>3. m = P[k - 1] + Len(lines[k])
            BY <1>2, <5>1, <5>2
        <5> QED BY <5>1, <5>3
      <4> QED BY <4>1, <4>2
    <3>6. ASSUME NEW j \in 1..Len(q[k])
          PROVE  t[P[k - 1] + j] = q[k][j]
      <4>1. CASE j = Len(lines[k]) + 1
        <5>1. P[k - 1] + j = e[k] /\ e[k] <= m
            BY <3>1, <3>3, <3>4, <4>1
        <5> QED BY <1>10, <4>1, <5>1
      <4>2. CASE j \in 1..Len(lines[k])
        <5>1. Start(e, k) + j - 1 = P[k - 1] + j
            BY <3>1, <3>3
        <5>2. lines[k][j] = t[Start(e, k) + j - 1]
            BY <1>8, <4>2
        <5> QED BY <1>10, <4>2, <5>1, <5>2
      <4>3. j = Len(lines[k]) + 1 \/ j \in 1..Len(lines[k])
          BY <3>1, <3>4
      <4> QED BY <4>1, <4>2, <4>3
    <3> QED BY <3>5, <3>6
  <2>2. m = P[n]
      BY <1>2, <1>5, <1>12
  <2> QED BY <1>11, <1>12, <2>1, <2>2 DEF Laid, Offsets, m
<1>15. FlattenSeq(q) \in Seq(Chars) /\ \E R : Laid(R, q, FlattenSeq(q))
    BY <1>11, FlattenLaid
<1>16. FlattenSeq(q) = t
    BY <1>2, <1>11, <1>14, <1>15, LaidUnique
<1>17. n # 0
    BY <1>5
<1> QED BY <1>8, <1>9, <1>11, <1>16, <1>17 DEF lines, n, q, brk

(* Replacing a string that is inside lines is replacing it in each line.   *)
LEMMA EditKeepsBreaks ==
    ASSUME NEW t, NoReturns(t), NEW old \in Seq(Chars), NEW new \in Seq(Chars),
           OneLine(old), old # <<>>
    PROVE  Replaced(t, old, new) =
             FlattenSeq([k \in 1..Len(splitlines(t)) |->
                 Cat(Replaced(splitlines(t)[k], old, new), LineBreak(t, k))])
<1> DEFINE lines == splitlines(t)
           n == Len(lines)
           q == LinePieces(t)
           r == [k \in 1..n |-> Cat(Replaced(lines[k], old, new), LineBreak(t, k))]
<1>1. CASE t = <<>>
  <2>1. n = 0
      BY <1>1, SplitEmpty, EmptySeq
  <2>2. r = <<>>
    <3>1. r \in Seq(Seq(Chars)) /\ Len(r) = 0
        BY <2>1
    <3> HIDE DEF r
    <3> QED BY <3>1, EmptySeq
  <2>3. Positions(t, old) = {}
    <3>1. Len(old) \in Nat /\ Len(old) # 0 /\ Len(t) = 0
        BY <1>1, LenProperties, EmptySeq
    <3> QED BY <3>1 DEF Positions
  <2>4. t \in Seq(Chars)
      BY DEF NoReturns
  <2>5. Replaced(t, old, new) = t
      BY <2>3, <2>4, ReplacedNone
  <2> HIDE DEF r
  <2>6. FlattenSeq(<<>>) = <<>>
      BY EmptySeq DEF FlattenSeq
  <2> QED BY <1>1, <2>2, <2>5, <2>6 DEF r, n, lines
<1>2. CASE t # <<>>
  <2>1. /\ q \in Seq(Seq(Chars)) /\ Len(q) = n /\ n # 0 /\ FlattenSeq(q) = t
        /\ \A k \in 1..n :
              /\ lines[k] \in Seq(Chars)
              /\ \/ LineBreak(t, k) = <<>> /\ ~ (k < n)
                 \/ \E x \in {LF, FF} : LineBreak(t, k) = <<x>>
      BY <1>2, LinesAreText
  <2>2. \A k \in 1..n : /\ q[k] = Cat(lines[k], LineBreak(t, k))
                        /\ r[k] = Cat(Replaced(lines[k], old, new), LineBreak(t, k))
      BY DEF LinePieces
  <2>3. r = [k \in 1..n |-> r[k]]
      OBVIOUS
  <2> HIDE DEF lines, n, q, r
  <2>4. ASSUME NEW k \in 1..n
        PROVE  /\ r[k] \in Seq(Chars) /\ r[k] = Replaced(q[k], old, new)
               /\ k < n => Len(q[k]) # 0 /\ q[k][Len(q[k])] \in {LF, CR, FF}
    <3> DEFINE l == lines[k]
               R == Replaced(l, old, new)
    <3>1. l \in Seq(Chars) /\ R \in Seq(Chars) /\ Len(l) \in Nat
        BY <2>1, ReplacedLaid, LenProperties
    <3>2. q[k] = Cat(l, LineBreak(t, k)) /\ r[k] = Cat(R, LineBreak(t, k))
        BY <2>2
    <3>3. CASE LineBreak(t, k) = <<>> /\ ~ (k < n)
      <4> HIDE DEF l
      <4>1. q[k] = l
          BY <3>1, <3>2, <3>3, CatEmpty
      <4>2. r[k] = R
        <5> HIDE DEF R
        <5> QED BY <3>1, <3>2, <3>3, CatEmpty
      <4> QED BY <3>1, <3>3, <4>1, <4>2
    <3>4. ASSUME NEW x \in {LF, FF}, LineBreak(t, k) = <<x>>
          PROVE  /\ r[k] \in Seq(Chars) /\ r[k] = Replaced(q[k], old, new)
                 /\ Len(q[k]) # 0 /\ q[k][Len(q[k])] \in {LF, CR, FF}
      <4>1. x \in Chars
          BY TextAssumption
      <4> HIDE DEF l
      <4>2. q[k] = Append(l, x)
          BY <3>1, <3>2, <3>4, <4>1, AppendIsCat
      <4>3. r[k] = Append(R, x)
        <5> HIDE DEF R
        <5> QED BY <3>1, <3>2, <3>4, <4>1, AppendIsCat
      <4>4. Replaced(Append(l, x), old, new) = Append(R, x)
        <5>1. l \in Seq(Chars) /\ x \in {LF, FF}
            BY <3>1
        <5>2. Replaced(Append(l, x), old, new) = Append(Replaced(l, old, new), x)
            BY <5>1, ReplacedEnded
        <5> QED BY <5>2
      <4>5. Append(R, x) \in Seq(Chars)
        <5> HIDE DEF R
        <5> QED BY <3>1, <4>1, AppendProperties
      <4>6. Len(Append(l, x)) = Len(l) + 1 /\ Append(l, x)[Len(l) + 1] = x
          BY <3>1, <4>1, AppendProperties
      <4> QED BY <3>1, <4>2, <4>3, <4>4, <4>5, <4>6
    <3> QED BY <2>1, <3>3, <3>4
  <2>5. r \in Seq(Seq(Chars)) /\ Len(r) = n
    <3>1. n \in Nat /\ \A k \in 1..n : r[k] \in Seq(Chars)
        BY <2>1, <2>4, LenProperties
    <3> QED BY <2>3, <3>1
  <2>6. /\ \A k \in 1..Len(q) : r[k] = Replaced(q[k], old, new)
        /\ \A k \in 1..Len(q) : k < Len(q) =>
              Len(q[k]) # 0 /\ q[k][Len(q[k])] \in {LF, CR, FF}
      BY <2>1, <2>4
  <2>7. Replaced(FlattenSeq(q), old, new) = FlattenSeq(r)
    <3>1. q \in Seq(Seq(Chars)) /\ r \in Seq(Seq(Chars)) /\ Len(q) # 0 /\ Len(r) = Len(q)
        BY <2>1, <2>5
    <3> QED BY <2>6, <3>1, ReplacedParts
  <2> QED BY <2>1, <2>7 DEF r, n, lines
<1> QED BY <1>1, <1>2

(* A string inside a line put there moves no line and joins none.          *)
LEMMA EditPerLine ==
    ASSUME NEW t, NoReturns(t), NEW old \in Seq(Chars), NEW new \in Seq(Chars),
           OneLine(old), old # <<>>, OneLine(new)
    PROVE  ReadsAs(splitlines(Replaced(t, old, new)),
                   ReplacedLines(splitlines(t), old, new))
<1> DEFINE R == Replaced(t, old, new)
           ls == ReplacedLines(splitlines(t), old, new)
<1>1. t \in Seq(Chars) /\ Len(t) \in Nat
    BY LenProperties DEF NoReturns
<1>2. CASE t = <<>>
  <2>1. Positions(t, old) = {}
    <3>1. Len(old) \in Nat /\ Len(old) # 0 /\ Len(t) = 0
        BY <1>2, LenProperties, EmptySeq
    <3>2. ASSUME NEW i \in Positions(t, old)
          PROVE  FALSE
      <4>1. i \in 1..(Len(t) + 1) /\ i + Len(old) <= Len(t) + 1
          BY <3>2 DEF Positions
      <4> QED BY <3>1, <4>1
    <3> QED BY <3>2
  <2>2. R = <<>>
      BY <1>1, <1>2, <2>1, ReplacedNone
  <2>3. splitlines(R) = <<>>
      BY <2>2, SplitEmpty
  <2>4. ls = <<>>
    <3>1. splitlines(t) = <<>> /\ Len(<<>>) = 0
        BY <1>2, SplitEmpty, EmptySeq
    <3>2. ls = [k \in 1..0 |-> Replaced(<<>>[k], old, new)]
        BY <3>1 DEF ReplacedLines
    <3>3. ls \in Seq(Chars) /\ Len(ls) = 0
        BY <3>2
    <3> HIDE DEF ls
    <3> QED BY <3>3, EmptySeq
  <2> QED BY <2>3, <2>4 DEF ReadsAs
<1>3. CASE t # <<>> /\ Len(t) \in Breaks(t)
  <2>1. NoReturns(R) /\ \E f : LinesOf(ls, f, R)
      BY <1>3, ReplacedEndedText
  <2>2. splitlines(R) = ls
      BY <2>1, SplitIs
  <2> QED BY <2>2 DEF ReadsAs
<1>4. CASE t # <<>> /\ Len(t) \notin Breaks(t)
  <2> DEFINE T == Append(t, LF)
  <2>1. /\ T \in Seq(Chars) /\ T # <<>> /\ Len(T) = Len(t) + 1
        /\ T[Len(t) + 1] = LF /\ \A i \in 1..Len(t) : T[i] = t[i]
      BY <1>1, AppendProperties, TextAssumption
  <2>2. Replaced(T, old, new) = Append(R, LF)
      BY <1>1, ReplacedEnded
  <2>3. NoReturns(T)
    <3> HIDE DEF T
    <3>1. \A i \in 1..Len(T) : i = Len(t) + 1 \/ i \in 1..Len(t)
        BY <1>1, <2>1
    <3> QED BY <2>1, <3>1, TextAssumption DEF NoReturns
  <2>4. Len(T) \in Breaks(T)
    <3> HIDE DEF T
    <3>1. Len(T) \in 1..Len(T) /\ T[Len(T)] = LF
        BY <1>1, <2>1
    <3> QED BY <3>1 DEF Breaks
  <2>5. splitlines(T) = splitlines(t)
    <3>1. PICK f : LinesOf(splitlines(T), f, T)
        BY <2>3, SplitShape
    <3> DEFINE lines == splitlines(T)
    <3> HIDE DEF lines
    <3>2. LinesOf(lines, f, T)
        BY <3>1 DEF lines
    <3>3. /\ lines[Len(lines)] = <<>> <=> (t = <<>> \/ Len(t) \in Breaks(t))
          /\ lines[Len(lines)] # <<>> => LinesOf(lines, f, t)
        BY <3>2, AddNewline
    <3>4. LinesOf(lines, f, t)
        BY <1>4, <3>3
    <3>5. splitlines(t) = lines
        BY <3>4, SplitIs
    <3> QED BY <3>5 DEF lines
  <2>6. NoReturns(Replaced(T, old, new)) /\ \E f : LinesOf(ls, f, Replaced(T, old, new))
    <3> HIDE DEF T
    <3> QED BY <2>1, <2>3, <2>4, <2>5, ReplacedEndedText
  <2>7. PICK f : LinesOf(ls, f, Append(R, LF))
      BY <2>2, <2>6
  <2>8. R \in Seq(Chars)
      BY <1>1, ReplacedLaid
  <2> HIDE DEF R, ls, T
  <2>9. NoReturns(R)
    <3>1. /\ Len(Append(R, LF)) = Len(R) + 1 /\ Len(R) \in Nat
          /\ \A i \in 1..Len(R) : Append(R, LF)[i] = R[i]
        BY <2>8, AppendProperties, LenProperties, TextAssumption
    <3>2. \A i \in 1..Len(R) : i \in 1..Len(Append(R, LF))
        BY <3>1
    <3> QED BY <2>2, <2>6, <2>8, <3>1, <3>2 DEF NoReturns
  <2>10. /\ ls # <<>>
         /\ ls[Len(ls)] # <<>> => LinesOf(ls, f, R)
         /\ ls[Len(ls)] = <<>> => LinesOf(Front(ls), Front(f), R)
      BY <2>7, <2>9, AddNewline
  <2>11. CASE ls[Len(ls)] # <<>>
    <3>1. splitlines(R) = ls
        BY <2>9, <2>10, <2>11, SplitIs
    <3> QED BY <3>1 DEF ReadsAs, R, ls
  <2>12. CASE ls[Len(ls)] = <<>>
    <3>1. splitlines(R) = Front(ls)
        BY <2>9, <2>10, <2>12, SplitIs
    <3> QED BY <2>10, <2>12, <3>1 DEF ReadsAs, Last, R, ls
  <2> QED BY <2>11, <2>12
<1> QED BY <1>2, <1>3, <1>4

-----------------------------------------------------------------------------
(* Search by line.                                                         *)

\* A string without line breaks is in a text if and only if it is in a line.
LEMMA PatternInLines ==
    ASSUME NEW t, NoReturns(t), NEW s \in Seq(Chars), s # <<>>, OneLine(s)
    PROVE  Positions(t, s) # {} <=>
              \E k \in 1..Len(splitlines(t)) : Positions(splitlines(t)[k], s) # {}
<1> DEFINE lines == splitlines(t)
           n == Len(lines)
           m == Len(t)
           d == Len(s)
<1>1. PICK e : LinesOf(lines, e, t)
    BY SplitShape
<1> HIDE DEF lines
<1>2. /\ n \in Nat /\ Len(e) = n /\ Lists(e, LineEnds(t), m + 1)
      /\ t \in Seq(Chars) /\ m \in Nat /\ m + 1 \in Nat
    BY <1>1, LenProperties DEF LinesOf, NoReturns
<1>3. d \in Nat /\ 1 <= d /\ d # 0
  <2>1. d \in Nat /\ d # 0
      BY LenProperties, EmptySeq
  <2> QED BY <2>1
<1>a. t \in Seq(Chars)
    BY <1>2
<1>4. ASSUME NEW k \in 1..n
      PROVE  /\ lines[k] \in Seq(Chars) /\ Len(lines[k]) \in Nat
             /\ Start(e, k) \in Nat /\ 1 <= Start(e, k)
             /\ e[k] = Start(e, k) + Len(lines[k]) /\ e[k] <= m + 1
             /\ \A j \in 1..Len(lines[k]) : lines[k][j] = t[Start(e, k) + j - 1]
  <2>1. lines[k] \in Seq(Chars) /\ Len(lines[k]) \in Nat
    <3>1. lines[k] \in TextLine
        BY <1>1, ElementOfSeq DEF LinesOf
    <3> QED BY <3>1, LenProperties DEF TextLine
  <2>2. /\ Len(lines[k]) = e[k] - Start(e, k)
        /\ \A j \in 1..Len(lines[k]) : lines[k][j] = t[Start(e, k) + j - 1]
      BY <1>1, <1>2 DEF LinesOf
  <2>3. Start(e, k) \in Nat /\ 1 <= Start(e, k) /\ e[k] \in 1..(m + 1)
      BY <1>2, StartType
  <2>4. e[k] = Start(e, k) + Len(lines[k]) /\ e[k] <= m + 1
      BY <1>2, <2>1, <2>2, <2>3
  <2> QED BY <2>1, <2>2, <2>3, <2>4
<1> HIDE DEF n, m, d
<1>5. ASSUME NEW k \in 1..n, NEW i \in Positions(lines[k], s)
      PROVE  Positions(t, s) # {}
  <2> DEFINE l == lines[k]
             a == Start(e, k)
             x == a + i - 1
  <2>1. /\ l \in Seq(Chars) /\ Len(l) \in Nat /\ a \in Nat /\ 1 <= a
        /\ a + Len(l) <= m + 1 /\ \A j \in 1..Len(l) : l[j] = t[a + j - 1]
      BY <1>4
  <2>2. l \in Seq(Chars) /\ i \in Positions(l, s)
      BY <1>4
  <2> HIDE DEF l, a
  <2>3. i \in Nat
      BY <2>2 DEF Positions
  <2>4. 1 <= i /\ i + d <= Len(l) + 1 /\ \A j \in 1..d : l[i + j - 1] = s[j]
      BY <2>2, <2>3, PositionsAre DEF d
  <2>5. x \in Nat /\ 1 <= x /\ x + d <= m + 1
      BY <1>2, <1>3, <2>1, <2>3, <2>4
  <2>6. ASSUME NEW j \in 1..d
        PROVE  t[x + j - 1] = s[j]
    <3>1. i + j - 1 \in 1..Len(l) /\ x + j - 1 = a + (i + j - 1) - 1
        BY <1>3, <2>1, <2>3, <2>4
    <3>2. t[a + (i + j - 1) - 1] = l[i + j - 1]
        BY <2>1, <3>1
    <3> QED BY <2>4, <3>1, <3>2
  <2> HIDE DEF x
  <2>7. x \in Positions(t, s)
      BY <1>a, <2>5, <2>6, PositionsAre DEF d, m
  <2> QED BY <2>7
<1>6. ASSUME NEW x \in Positions(t, s)
      PROVE  \E k \in 1..n : Positions(lines[k], s) # {}
  <2>1. x \in Nat
      BY DEF Positions
  <2>2. 1 <= x /\ x + d <= m + 1 /\ \A j \in 1..d : t[x + j - 1] = s[j]
      BY <1>a, <2>1, PositionsAre DEF d, m
  \* There is a line end at or after every position.
  <2>3. \E k \in 1..n : x <= e[k]
    <3>1. t # <<>>
        BY <1>2, <1>3, <2>1, <2>2, EmptySeq DEF m
    <3>2. n \in 1..n /\ e[n] = IF t[m] \in {LF, FF} THEN m ELSE m + 1
        BY <1>2, <3>1, LastEnd DEF m
    <3> QED BY <1>2, <1>3, <2>1, <2>2, <3>2
  <2> DEFINE K == {k \in 1..n : x <= e[k]}
  <2>4. K \in SUBSET Nat /\ K # {}
      BY <2>3
  <2>5. PICK k \in K : \A y \in K : k <= y
      BY <2>4, Least
  <2>6. k \in 1..n /\ x <= e[k]
      OBVIOUS
  <2> DEFINE l == lines[k]
             a == Start(e, k)
             i == x - a + 1
  <2>7. /\ l \in Seq(Chars) /\ Len(l) \in Nat /\ a \in Nat /\ 1 <= a
        /\ e[k] = a + Len(l) /\ e[k] <= m + 1
        /\ \A j \in 1..Len(l) : l[j] = t[a + j - 1]
      BY <1>4, <2>6
  <2>8. a <= x
    <3>1. CASE k = 1
        BY <2>2, <3>1 DEF Start
    <3>2. CASE k # 1
      <4>1. k - 1 \in 1..n /\ ~ (k <= k - 1)
          BY <1>2, <2>6, <3>2
      <4>2. ~ (x <= e[k - 1])
          BY <2>5, <4>1
      <4>3. a = e[k - 1] + 1
          BY <3>2 DEF Start
      <4>4. e[k - 1] \in Nat
          BY <1>2, <4>1 DEF Lists
      <4> QED BY <2>1, <4>2, <4>3, <4>4
    <3> QED BY <3>1, <3>2
  \* The line does not end inside the occurrence.
  <2>9. x + d <= e[k]
    <3>1. SUFFICES ASSUME e[k] < x + d
                   PROVE  FALSE
        BY <1>3, <2>1, <2>7
    <3> DEFINE j == e[k] - x + 1
    <3>2. j \in 1..d /\ x + j - 1 = e[k] /\ e[k] \in 1..m /\ e[k] # m + 1
      <4>1. e[k] \in Nat /\ 1 <= e[k] /\ m \in Nat /\ x \in Nat /\ d \in Nat
          BY <1>2, <1>3, <2>1, <2>7
      <4>2. x <= e[k] /\ e[k] < x + d /\ x + d <= m + 1
          BY <2>2, <2>6, <3>1
      <4> QED BY <4>1, <4>2
    <3> HIDE DEF j
    <3>3. t[e[k]] = s[j]
        BY <2>2, <3>2
    <3>4. e[k] \in LineEnds(t)
        BY <1>2, <2>6 DEF Lists
    <3>5. e[k] \in Breaks(t)
        BY <3>2, <3>4 DEF LineEnds, m
    <3>6. t[e[k]] \in {LF, CR, FF}
        BY <3>5 DEF Breaks
    <3> QED BY <3>2, <3>3, <3>6 DEF OneLine, d
  <2> HIDE DEF l, a, K
  <2>10. i \in Nat /\ 1 <= i /\ i + d <= Len(l) + 1
      BY <1>3, <2>1, <2>7, <2>8, <2>9
  <2>11. ASSUME NEW j \in 1..d
         PROVE  l[i + j - 1] = s[j]
    <3>1. i + j - 1 \in 1..Len(l) /\ a + (i + j - 1) - 1 = x + j - 1
        BY <1>3, <2>1, <2>7, <2>10
    <3>2. l[i + j - 1] = t[a + (i + j - 1) - 1]
        BY <2>7, <3>1
    <3> QED BY <2>2, <3>1, <3>2
  <2> HIDE DEF i
  <2>12. l \in Seq(Chars)
      BY <2>7
  <2>13. i \in Positions(l, s)
      BY <2>10, <2>11, <2>12, PositionsAre DEF d
  <2> QED BY <2>6, <2>13 DEF l
<1> QED BY <1>5, <1>6 DEF n, lines

LEMMA SubSeqOne ==
    ASSUME NEW C, NEW s \in Seq(C), NEW k \in 1..Len(s)
    PROVE  SubSeq(s, k, k) = <<s[k]>>
<1>1. Len(s) \in Nat /\ k \in Nat /\ 1 <= k /\ k <= k + 1 /\ k <= Len(s) /\ k + 1 - k = 1
    BY LenProperties
<1>2. /\ SubSeq(s, k, k) \in Seq(C) /\ Len(SubSeq(s, k, k)) = k + 1 - k
      /\ \A i \in 1..(k + 1 - k) : SubSeq(s, k, k)[i] = s[k + i - 1]
    BY <1>1, SubSeqIs
<1>3. Len(SubSeq(s, k, k)) = 1 /\ SubSeq(s, k, k)[1] = s[k]
  <2>1. k + 1 - 1 = k /\ 1 \in 1..(k + 1 - k)
      BY <1>1
  <2> QED BY <1>1, <1>2, <2>1
<1>4. s[k] \in C
    BY ElementOfSeq
<1> DEFINE w == <<s[k]>>
<1>5. w \in Seq(C) /\ Len(w) = 1 /\ w[1] = s[k]
    BY <1>4
<1> HIDE DEF w
<1>6. SubSeq(s, k, k) = w
    BY <1>2, <1>3, <1>5, SeqEqual
<1> QED BY <1>6 DEF w

\* A line with the lines around it is a stretch of the lines.
LEMMA Around ==
    ASSUME NEW C, NEW s \in Seq(C), NEW k \in 1..Len(s), NEW a \in 1..k, NEW b \in k..Len(s)
    PROVE  /\ SubSeq(s, a, k - 1) \o <<s[k]>> \o SubSeq(s, k + 1, b) = SubSeq(s, a, b)
           /\ Len(SubSeq(s, a, k - 1)) = k - a /\ Len(SubSeq(s, k + 1, b)) = b - k
<1>1. Len(s) \in Nat /\ k \in Nat /\ a \in Nat /\ b \in Nat
    BY LenProperties
<1>2. SubSeq(s, a, k - 1) \o SubSeq(s, k, k) = SubSeq(s, a, k)
  <2>1. /\ a \in 1..(Len(s) + 1) /\ k - 1 \in (a - 1)..Len(s)
        /\ k \in (k - 1)..Len(s) /\ (k - 1) + 1 = k
      BY <1>1
  <2> QED BY <2>1, ConcatAdjacentSubSeq
<1>3. SubSeq(s, a, k) \o SubSeq(s, k + 1, b) = SubSeq(s, a, b)
  <2>1. a \in 1..(Len(s) + 1) /\ k \in (a - 1)..Len(s) /\ b \in k..Len(s)
      BY <1>1
  <2> QED BY <2>1, ConcatAdjacentSubSeq
<1>4. Len(SubSeq(s, a, k - 1)) = k - a
  <2>1. k - 1 \in Nat /\ 1 <= a /\ a <= (k - 1) + 1 /\ k - 1 <= Len(s) /\ (k - 1) + 1 - a = k - a
      BY <1>1
  <2> QED BY <1>1, <2>1, SubSeqIs
<1>5. Len(SubSeq(s, k + 1, b)) = b - k
  <2>1. k + 1 \in Nat /\ 1 <= k + 1 /\ k + 1 <= b + 1 /\ b <= Len(s) /\ b + 1 - (k + 1) = b - k
      BY <1>1
  <2> QED BY <1>1, <2>1, SubSeqIs
<1> QED BY <1>2, <1>3, <1>4, <1>5, SubSeqOne
=============================================================================
