----------------------------- MODULE RowsProofs -----------------------------
(***************************************************************************)
(* What the operators of Rows compute, for tables of every length.         *)
(*                                                                         *)
(* What a recursive function computes is proved by induction on the length *)
(* of what it runs through, in the form of NatInduct: a set of naturals    *)
(* with 0 and the successors of its elements is Nat.                       *)
(***************************************************************************)
EXTENDS Rows, SequenceTheorems, FiniteSetTheorems, WellFoundedInduction, TLAPS

NatLess == {ss \in Nat \X Nat : ss[1] < ss[2]}

(* A nonempty set of naturals has a least element.                                         *)
LEMMA NatLeast ==
  ASSUME NEW T \in SUBSET Nat, T # {}
  PROVE  \E m \in T : \A n \in T : m <= n
<1>1. IsWellFoundedOn(NatLess, Nat)
  BY NatLessThanWellFounded DEF OpToRel, NatLess
<1>2. PICK m \in T : \A n \in T : <<n, m>> \notin NatLess
  BY <1>1, WFMin
<1>3. ASSUME NEW n \in T PROVE m <= n
  <2>1. m \in Nat /\ n \in Nat
    OBVIOUS
  <2>2. ~(n < m)
    BY <1>2, <2>1 DEF NatLess
  <2> QED
    BY <2>1, <2>2
<1> QED
  BY <1>3

(* Induction, stated with a set so that first-order provers can use it.                    *)
LEMMA NatInduct ==
  ASSUME NEW T \in SUBSET Nat, 0 \in T, \A n \in T : n + 1 \in T
  PROVE  T = Nat
<1> SUFFICES ASSUME Nat \ T # {} PROVE FALSE
  OBVIOUS
<1>1. PICK m \in Nat \ T : \A n \in Nat \ T : m <= n
  BY NatLeast
<1>2. m - 1 \in Nat /\ m - 1 \notin Nat \ T
  BY <1>1
<1> QED
  BY <1>1, <1>2

(* Induction up to a bound.                                                                *)
LEMMA UpTo ==
  ASSUME NEW N \in Nat, NEW T, 0 \in T, \A n \in Nat : n < N /\ n \in T => n + 1 \in T
  PROVE  \A n \in 0 .. N : n \in T
<1> DEFINE U == {n \in Nat : n <= N => n \in T}
<1>1. 0 \in U
  OBVIOUS
<1>2. ASSUME NEW n \in U PROVE n + 1 \in U
  OBVIOUS
<1>3. U = Nat
  <2>1. U \in SUBSET Nat
    OBVIOUS
  <2> HIDE DEF U
  <2> QED
    BY <1>1, <1>2, <2>1, NatInduct
<1> QED
  BY <1>3

-----------------------------------------------------------------------------
(* Select: what the recursive function Selected computes.                                  *)

SelectedStep(g, rows, which, n) ==
  IF n = 0 THEN <<>>
  ELSE IF rows[n] \in which THEN Append(g[n - 1], rows[n]) ELSE g[n - 1]

(* The equation of Selected has a solution, so that Selected is one.                       *)
LEMMA SelectedEquation ==
  ASSUME NEW rows, NEW which, Len(rows) \in Nat
  PROVE  Selected(rows, which)
           = [n \in 0 .. Len(rows) |-> SelectedStep(Selected(rows, which), rows, which, n)]
<1> DEFINE Solves(g, n) == g = [i \in 0 .. n |-> SelectedStep(g, rows, which, i)]
           T == {n \in Nat : \E g : Solves(g, n)}
<1>1. 0 \in T
  <2> DEFINE g == [i \in 0 .. 0 |-> <<>>]
  <2>1. \A i \in 0 .. 0 : SelectedStep(g, rows, which, i) = <<>>
    BY DEF SelectedStep
  <2>2. Solves(g, 0)
    BY <2>1
  <2> QED
    BY <2>2
<1>2. ASSUME NEW n \in T PROVE n + 1 \in T
  <2>1. PICK g : Solves(g, n)
    OBVIOUS
  <2> DEFINE h == [i \in 0 .. n + 1 |->
                     IF i = n + 1 THEN SelectedStep(g, rows, which, n + 1) ELSE g[i]]
  <2>2. ASSUME NEW i \in 0 .. n + 1 PROVE h[i] = SelectedStep(h, rows, which, i)
    <3>1. i # 0 => h[i - 1] = g[i - 1]
      OBVIOUS
    <3>2. SelectedStep(h, rows, which, i) = SelectedStep(g, rows, which, i)
      BY <3>1 DEF SelectedStep
    <3>3. i # n + 1 => g[i] = SelectedStep(g, rows, which, i)
      <4> HIDE DEF h
      <4> QED
        BY <2>1
    <3> QED
      BY <3>2, <3>3
  <2>3. h = [i \in 0 .. n + 1 |-> h[i]]
    OBVIOUS
  <2>4. Solves(h, n + 1)
    <3> HIDE DEF h
    <3> QED
      BY <2>2, <2>3
  <2> HIDE DEF h, Solves
  <2> QED
    BY <2>4
<1>3. T = Nat
  <2> HIDE DEF T
  <2>1. T \in SUBSET Nat
    BY DEF T
  <2> QED
    BY <1>1, <1>2, <2>1, NatInduct
<1>4. PICK g : g = [n \in 0 .. Len(rows) |-> SelectedStep(g, rows, which, n)]
  BY <1>3
<1> QED
  BY <1>4 DEF Selected, SelectedStep

LEMMA SelectedRows ==
  ASSUME NEW S, NEW rows \in Seq(S), NEW which
  PROVE  /\ Selected(rows, which)[0] = <<>>
         /\ \A n \in 1 .. Len(rows) :
              Selected(rows, which)[n] =
                IF rows[n] \in which THEN Append(Selected(rows, which)[n - 1], rows[n])
                ELSE Selected(rows, which)[n - 1]
<1> DEFINE f == Selected(rows, which)
<1>1. f = [n \in 0 .. Len(rows) |-> SelectedStep(f, rows, which, n)]
  BY SelectedEquation
<1> HIDE DEF f
<1>2. \A n \in 0 .. Len(rows) : f[n] = SelectedStep(f, rows, which, n)
  BY <1>1
<1>0. Len(rows) \in Nat
  OBVIOUS
<1>3. f[0] = <<>>
  BY <1>0, <1>2 DEF SelectedStep
<1>4. ASSUME NEW n \in 1 .. Len(rows)
      PROVE  f[n] = IF rows[n] \in which THEN Append(f[n - 1], rows[n]) ELSE f[n - 1]
  <2>1. n \in 0 .. Len(rows) /\ n # 0
    BY <1>0
  <2>2. f[n] = SelectedStep(f, rows, which, n)
    BY <1>2, <2>1
  <2> QED
    BY <2>1, <2>2 DEF SelectedStep
<1> QED
  BY <1>3, <1>4 DEF f

SelectedAt(rows, which, n) == {i \in 1 .. n : rows[i] \in which}

(* The first n rows yield a sequence of rows, as long as there are rows to select.         *)
LEMMA SelectedLength ==
  ASSUME NEW S, NEW rows \in Seq(S), NEW which
  PROVE  \A n \in 0 .. Len(rows) :
           /\ Selected(rows, which)[n] \in Seq(S)
           /\ IsFiniteSet(SelectedAt(rows, which, n))
           /\ Len(Selected(rows, which)[n]) = Cardinality(SelectedAt(rows, which, n))
<1> DEFINE At(n) == SelectedAt(rows, which, n)
           sel == Selected(rows, which)
           P(n) == sel[n] \in Seq(S) /\ IsFiniteSet(At(n)) /\ Len(sel[n]) = Cardinality(At(n))
           T == {n \in Nat : n <= Len(rows) => P(n)}
<1>1. P(0)
  <2>1. At(0) = {}
    BY DEF SelectedAt
  <2>2. sel[0] = <<>>
    BY SelectedRows
  <2> HIDE DEF At, sel
  <2> QED
    BY <2>1, <2>2, FS_EmptySet, EmptySeq
<1>2. ASSUME NEW n \in Nat, n + 1 <= Len(rows), P(n) PROVE P(n + 1)
  <2>1. n + 1 \in 1 .. Len(rows) /\ rows[n + 1] \in S
    BY <1>2
  <2>2. At(n + 1) = IF rows[n + 1] \in which THEN At(n) \cup {n + 1} ELSE At(n)
    BY <2>1 DEF SelectedAt
  <2>3. n + 1 \notin At(n)
    BY <2>1 DEF SelectedAt
  <2> HIDE DEF At, sel
  <2>4. sel[n + 1] = IF rows[n + 1] \in which THEN Append(sel[n], rows[n + 1]) ELSE sel[n]
    BY <2>1, SelectedRows DEF sel
  <2>5. CASE rows[n + 1] \in which
    <3>1. sel[n + 1] \in Seq(S) /\ Len(sel[n + 1]) = Len(sel[n]) + 1
      BY <1>2, <2>1, <2>4, <2>5
    <3>2. IsFiniteSet(At(n + 1)) /\ Cardinality(At(n + 1)) = Cardinality(At(n)) + 1
      BY <1>2, <2>2, <2>3, <2>5, FS_AddElement
    <3> QED
      BY <1>2, <3>1, <3>2
  <2>6. CASE rows[n + 1] \notin which
    BY <1>2, <2>2, <2>4, <2>6
  <2> QED
    BY <2>5, <2>6
<1> HIDE DEF P
<1>3. 0 \in T /\ \A n \in T : n + 1 \in T
  BY <1>1, <1>2
<1>4. T = Nat
  <2>1. T \in SUBSET Nat
    OBVIOUS
  <2> HIDE DEF T
  <2> QED
    BY <1>3, <2>1, NatInduct
<1>5. \A n \in 0 .. Len(rows) : P(n)
  BY <1>4
<1> QED
  BY <1>5 DEF P

(* The k-th selected row stands at a position a of its own: the rows up to a yield the     *)
(* first k selected rows.                                                                  *)
LEMMA SelectedPositions ==
  ASSUME NEW S, NEW rows \in Seq(S), NEW which
  PROVE  \A n \in 0 .. Len(rows) : \A k \in 1 .. Len(Selected(rows, which)[n]) :
           \E a \in 1 .. n : /\ rows[a] \in which
                            /\ Selected(rows, which)[n][k] = rows[a]
                            /\ Selected(rows, which)[a] = SubSeq(Selected(rows, which)[n], 1, k)
<1> DEFINE sel == Selected(rows, which)
           Found(n, k) == \E a \in 1 .. n : /\ rows[a] \in which
                                           /\ sel[n][k] = rows[a]
                                           /\ sel[a] = SubSeq(sel[n], 1, k)
           P(n) == \A k \in 1 .. Len(sel[n]) : Found(n, k)
           T == {n \in Nat : n <= Len(rows) => P(n)}
<1>1. P(0)
  <2>1. sel[0] = <<>>
    BY SelectedRows
  <2> HIDE DEF sel, Found
  <2> QED
    BY <2>1
<1>2. ASSUME NEW n \in Nat, n + 1 <= Len(rows), P(n) PROVE P(n + 1)
  <2> SUFFICES ASSUME NEW k \in 1 .. Len(sel[n + 1]) PROVE Found(n + 1, k)
    OBVIOUS
  <2> HIDE DEF sel
  <2>1. n \in 0 .. Len(rows) /\ n + 1 \in 1 .. Len(rows) /\ rows[n + 1] \in S
    BY <1>2
  <2>2. sel[n] \in Seq(S) /\ sel[n + 1] \in Seq(S)
    <3>1. \A m \in 0 .. Len(rows) : sel[m] \in Seq(S)
      BY SelectedLength DEF sel
    <3> QED
      BY <2>1, <3>1
  <2>3. sel[n + 1] = IF rows[n + 1] \in which THEN Append(sel[n], rows[n + 1]) ELSE sel[n]
    BY <2>1, SelectedRows DEF sel
  <2>4. CASE k \in 1 .. Len(sel[n])
    <3>1. PICK a \in 1 .. n : /\ rows[a] \in which
                              /\ sel[n][k] = rows[a]
                              /\ sel[a] = SubSeq(sel[n], 1, k)
      BY <1>2, <2>4
    <3>2. sel[n + 1][k] = sel[n][k]
      BY <2>1, <2>2, <2>3, <2>4
    <3>3. SubSeq(sel[n + 1], 1, k) = SubSeq(sel[n], 1, k)
      <4>1. CASE sel[n + 1] = sel[n]
        BY <4>1
      <4>2. CASE sel[n + 1] = Append(sel[n], rows[n + 1])
        BY <2>1, <2>2, <2>4, <4>2
      <4> QED
        BY <2>3, <4>1, <4>2
    <3>4. a \in 1 .. n + 1
      OBVIOUS
    <3> QED
      BY <3>1, <3>2, <3>3, <3>4
  <2>5. CASE k \notin 1 .. Len(sel[n])
    <3>1. rows[n + 1] \in which
      BY <2>3, <2>5
    <3>2. sel[n + 1] = Append(sel[n], rows[n + 1])
      BY <2>3, <3>1
    <3>3. k = Len(sel[n]) + 1 /\ Len(sel[n + 1]) = k
      BY <2>1, <2>2, <2>5, <3>2
    <3>4. sel[n + 1][k] = rows[n + 1]
      BY <2>1, <2>2, <3>2, <3>3
    <3>5. SubSeq(sel[n + 1], 1, k) = sel[n + 1]
      BY <2>2, <3>3, SubSeqFull
    <3>6. n + 1 \in 1 .. n + 1
      OBVIOUS
    <3> QED
      BY <3>1, <3>4, <3>5, <3>6
  <2> QED
    BY <2>4, <2>5
<1> HIDE DEF P
<1>3. 0 \in T /\ \A n \in T : n + 1 \in T
  BY <1>1, <1>2
<1>4. T = Nat
  <2>1. T \in SUBSET Nat
    OBVIOUS
  <2> HIDE DEF T
  <2> QED
    BY <1>3, <2>1, NatInduct
<1>5. \A n \in 0 .. Len(rows) : P(n)
  BY <1>4
<1> QED
  BY <1>5 DEF P

(* Selecting only what comes after position a leaves out what the rows up to a yield.      *)
LEMMA SelectedAfter ==
  ASSUME NEW S, NEW rows \in Seq(S), NEW which, NEW later, NEW a \in 0 .. Len(rows),
         \A i \in 1 .. Len(rows) : rows[i] \in later <=> rows[i] \in which /\ i > a
  PROVE  Selected(rows, which)[Len(rows)]
           = Selected(rows, which)[a] \o Selected(rows, later)[Len(rows)]
<1> DEFINE sel == Selected(rows, which)
           lat == Selected(rows, later)
           P(n) == (n <= a => lat[n] = <<>>) /\ (n > a => sel[n] = sel[a] \o lat[n])
           T == {n \in Nat : n <= Len(rows) => P(n)}
<1>0. a \in Nat /\ Len(rows) \in Nat
  OBVIOUS
<1>1. lat[0] = <<>>
  BY SelectedRows
<1>2. \A n \in 0 .. Len(rows) : sel[n] \in Seq(S) /\ lat[n] \in Seq(S)
  BY SelectedLength
<1>3. \A n \in 1 .. Len(rows) :
        /\ sel[n] = IF rows[n] \in which THEN Append(sel[n - 1], rows[n]) ELSE sel[n - 1]
        /\ lat[n] = IF rows[n] \in later THEN Append(lat[n - 1], rows[n]) ELSE lat[n - 1]
  BY SelectedRows
<1> HIDE DEF sel, lat
<1>4. P(0)
  BY <1>1
<1>5. ASSUME NEW n \in Nat, n + 1 <= Len(rows), P(n) PROVE P(n + 1)
  <2>1. n \in 0 .. Len(rows) /\ n + 1 \in 1 .. Len(rows) /\ rows[n + 1] \in S /\ n + 1 - 1 = n
    BY <1>5
  <2>2. sel[n + 1] = IF rows[n + 1] \in which THEN Append(sel[n], rows[n + 1]) ELSE sel[n]
    BY <1>3, <2>1
  <2>3. lat[n + 1] = IF rows[n + 1] \in later THEN Append(lat[n], rows[n + 1]) ELSE lat[n]
    BY <1>3, <2>1
  <2>4. sel[n] \in Seq(S) /\ lat[n] \in Seq(S) /\ sel[a] \in Seq(S)
    BY <1>2, <2>1
  <2>5. CASE n + 1 <= a
    <3>1. lat[n] = <<>> /\ rows[n + 1] \notin later
      BY <1>5, <2>1, <2>5
    <3> QED
      BY <2>3, <2>5, <3>1
  <2>6. CASE n + 1 > a
    <3>1. rows[n + 1] \in later <=> rows[n + 1] \in which
      BY <2>1, <2>6
    <3>2. sel[n] = sel[a] \o lat[n]
      <4>1. CASE n = a
        <5>1. lat[n] = <<>>
          BY <1>5, <4>1
        <5> QED
          BY <2>4, <4>1, <5>1, ConcatEmptySeq
      <4>2. CASE n # a
        <5>1. n > a
          BY <1>0, <2>6, <4>2
        <5> QED
          BY <1>5, <5>1
      <4> QED
        BY <4>1, <4>2
    <3>3. Append(sel[a] \o lat[n], rows[n + 1]) = sel[a] \o Append(lat[n], rows[n + 1])
      <4> DEFINE s == sel[a]  t == lat[n]  e == rows[n + 1]
      <4>1. s \in Seq(S) /\ t \in Seq(S) /\ e \in S
        BY <2>1, <2>4
      <4> HIDE DEF s, t, e
      <4> DEFINE u == <<e>>
      <4>2. u \in Seq(S) /\ s \o t \in Seq(S)
        BY <4>1
      <4>3. Append(s \o t, e) = (s \o t) \o u /\ Append(t, e) = t \o u
        BY <4>1, <4>2, AppendIsConcat
      <4> HIDE DEF u
      <4>4. (s \o t) \o u = s \o (t \o u)
        BY <4>1, <4>2
      <4>5. Append(s \o t, e) = s \o Append(t, e)
        BY <4>3, <4>4
      <4> QED
        BY <4>5 DEF s, t, e
    <3>4. sel[n + 1] = sel[a] \o lat[n + 1]
      <4>1. CASE rows[n + 1] \in which
        BY <2>2, <2>3, <3>1, <3>2, <3>3, <4>1
      <4>2. CASE rows[n + 1] \notin which
        BY <2>2, <2>3, <3>1, <3>2, <4>2
      <4> QED
        BY <4>1, <4>2
    <3> QED
      BY <2>6, <3>4
  <2> QED
    BY <2>5, <2>6
<1> HIDE DEF P
<1>6. 0 \in T /\ \A n \in T : n + 1 \in T
  BY <1>4, <1>5
<1>7. T = Nat
  <2>1. T \in SUBSET Nat
    OBVIOUS
  <2> HIDE DEF T
  <2> QED
    BY <1>6, <2>1, NatInduct
<1>8. P(Len(rows))
  BY <1>7
<1>9. sel[Len(rows)] = sel[a] \o lat[Len(rows)]
  <2>1. CASE a = Len(rows)
    <3>1. lat[Len(rows)] = <<>> /\ sel[a] \in Seq(S)
      BY <1>0, <1>2, <1>8, <2>1 DEF P
    <3> QED
      BY <2>1, <3>1, ConcatEmptySeq
  <2>2. CASE a # Len(rows)
    <3>1. Len(rows) > a
      BY <1>0, <2>2
    <3> QED
      BY <1>8, <3>1 DEF P
  <2> QED
    BY <2>1, <2>2
<1> QED
  BY <1>9 DEF sel, lat

(* Selecting every row yields the rows.                                                    *)
LEMMA SelectAll ==
  ASSUME NEW S, NEW rows \in Seq(S), NEW which, \A i \in 1 .. Len(rows) : rows[i] \in which
  PROVE  \A n \in 0 .. Len(rows) : Selected(rows, which)[n] = SubSeq(rows, 1, n)
<1> DEFINE sel == Selected(rows, which)
           P(n) == sel[n] = SubSeq(rows, 1, n)
           T == {n \in Nat : n <= Len(rows) => P(n)}
<1>1. P(0)
  <2>1. sel[0] = <<>>
    BY SelectedRows
  <2> HIDE DEF sel
  <2> QED
    BY <2>1, SubSeqEmpty
<1>2. ASSUME NEW n \in Nat, n + 1 <= Len(rows), P(n) PROVE P(n + 1)
  <2> HIDE DEF sel
  <2>1. n + 1 \in 1 .. Len(rows) /\ n + 1 - 1 = n /\ rows[n + 1] \in S
    BY <1>2
  <2>2. sel[n + 1] = Append(sel[n], rows[n + 1])
    <3>1. sel[n + 1] = IF rows[n + 1] \in which THEN Append(sel[n], rows[n + 1]) ELSE sel[n]
      BY <2>1, SelectedRows DEF sel
    <3>2. rows[n + 1] \in which
      BY <2>1
    <3> QED
      BY <3>1, <3>2
  <2>3. SubSeq(rows, 1, n + 1) = SubSeq(rows, 1, n) \o <<rows[n + 1]>>
    <3>1. 1 \in 1 .. Len(rows) /\ n + 1 \in 1 .. Len(rows)
      BY <2>1
    <3> QED
      BY <2>1, <3>1, SubSeqRecursiveSecond
  <2>4. SubSeq(rows, 1, n) \in Seq(S)
    BY <2>1
  <2>5. Append(SubSeq(rows, 1, n), rows[n + 1]) = SubSeq(rows, 1, n) \o <<rows[n + 1]>>
    BY <2>1, <2>4, AppendIsConcat
  <2> QED
    BY <1>2, <2>2, <2>3, <2>5
<1> HIDE DEF P
<1>3. 0 \in T /\ \A n \in T : n + 1 \in T
  BY <1>1, <1>2
<1>4. T = Nat
  <2>1. T \in SUBSET Nat
    OBVIOUS
  <2> HIDE DEF T
  <2> QED
    BY <1>3, <2>1, NatInduct
<1>5. \A n \in 0 .. Len(rows) : P(n)
  BY <1>4
<1> QED
  BY <1>5 DEF P

LEMMA LimitIs ==
  ASSUME NEW S, NEW s \in Seq(S), NEW n \in Nat
  PROVE  /\ Limit(s, n) \in Seq(S)
         /\ Len(Limit(s, n)) = IF n < Len(s) THEN n ELSE Len(s)
         /\ \A i \in 1 .. Len(Limit(s, n)) : Limit(s, n)[i] = s[i]
         /\ Limit(s, n) = SubSeq(s, 1, Len(Limit(s, n)))
BY DEF Limit

LEMMA LimitRows ==
  ASSUME NEW S, NEW s \in Seq(S), NEW n \in Nat
  PROVE  /\ Limit(s, n) \in Seq(S)
         /\ Len(Limit(s, n)) = IF n < Len(s) THEN n ELSE Len(s)
         /\ \A i \in 1 .. Len(Limit(s, n)) : Limit(s, n)[i] = s[i]
BY LimitIs

LEMMA FiniteMax ==
  ASSUME NEW S \in SUBSET Nat, S # {}, IsFiniteSet(S)
  PROVE  \E x \in S : \A y \in S : x >= y
<1> DEFINE HasMax(U) == \E x \in U : \A y \in U : x >= y
           P(n) == \A U \in SUBSET Nat :
                     IsFiniteSet(U) /\ U # {} /\ Cardinality(U) = n => HasMax(U)
           T == {n \in Nat : P(n)}
<1>1. P(0)
  BY FS_EmptySet
<1>2. ASSUME NEW n \in Nat, P(n) PROVE P(n + 1)
  <2> SUFFICES ASSUME NEW U \in SUBSET Nat, IsFiniteSet(U), U # {}, Cardinality(U) = n + 1
               PROVE  HasMax(U)
    OBVIOUS
  <2>1. PICK u : u \in U
    OBVIOUS
  <2> DEFINE V == U \ {u}
  <2>2. V \in SUBSET Nat /\ IsFiniteSet(V) /\ Cardinality(V) = n
    <3>1. IsFiniteSet(U \ {u}) /\ Cardinality(U \ {u}) = Cardinality(U) - 1
      BY <2>1, FS_RemoveElement
    <3>2. Cardinality(U) - 1 = n
      BY <1>2
    <3> QED
      BY <3>1, <3>2
  <2>3. CASE V = {}
    <3>1. u \in Nat /\ \A y \in U : y = u
      BY <2>1, <2>3
    <3> QED
      BY <2>1, <3>1
  <2>4. CASE V # {}
    <3>1. PICK v \in V : \A y \in V : v >= y
      BY <1>2, <2>2, <2>4
    <3>2. v \in Nat /\ u \in Nat /\ v \in U /\ \A y \in U : y = u \/ y \in V
      BY <2>1, <2>2
    <3>3. CASE v >= u
      BY <3>1, <3>2, <3>3
    <3>4. CASE ~(v >= u)
      <4>1. \A y \in U : y \in Nat /\ u >= y
        BY <3>1, <3>2, <3>4
      <4> QED
        BY <2>1, <4>1
    <3> QED
      BY <3>3, <3>4
  <2> QED
    BY <2>3, <2>4
<1> HIDE DEF P
<1>3. 0 \in T /\ \A n \in T : n + 1 \in T
  BY <1>1, <1>2
<1>4. T = Nat
  <2>1. T \in SUBSET Nat
    OBVIOUS
  <2> HIDE DEF T
  <2> QED
    BY <1>3, <2>1, NatInduct
<1>5. P(Cardinality(S))
  <2>1. Cardinality(S) \in Nat
    BY FS_CardinalityType
  <2> QED
    BY <1>4, <2>1
<1> QED
  BY <1>5 DEF P

-----------------------------------------------------------------------------
(* Recursion in general: a function given by its value at 0 and a step exists.             *)

Recurs(g, N, base, step) == g[0] = base /\ \A n \in 1 .. N : g[n] = step[n][g[n - 1]]

LEMMA Recursion ==
  ASSUME NEW N \in Nat, NEW V, NEW base \in V, NEW step \in [Nat -> [V -> V]]
  PROVE  \E g \in [0 .. N -> V] : Recurs(g, N, base, step)
<1> DEFINE Solves(g, n) == /\ g \in [0 .. n -> V] /\ g[0] = base
                           /\ \A i \in 1 .. n : g[i] = step[i][g[i - 1]]
           T == {n \in Nat : \E g : Solves(g, n)}
<1>1. 0 \in T
  <2>1. Solves([i \in 0 .. 0 |-> base], 0)
    OBVIOUS
  <2> HIDE DEF Solves
  <2> QED
    BY <2>1
<1>2. ASSUME NEW n \in T PROVE n + 1 \in T
  <2>1. PICK g : Solves(g, n)
    OBVIOUS
  <2>2. n \in Nat /\ g[n] \in V
    BY <2>1
  <2> DEFINE h == [i \in 0 .. n + 1 |-> IF i = n + 1 THEN step[n + 1][g[n]] ELSE g[i]]
  <2>3. step[n + 1][g[n]] \in V
    BY <2>2
  <2>4. \A i \in 0 .. n : h[i] = g[i]
    BY <2>2
  <2>5. h[n + 1] = step[n + 1][h[n]]
    <3>1. h[n] = g[n] /\ h[n + 1] = step[n + 1][g[n]]
      BY <2>2, <2>4
    <3> QED
      BY <3>1
  <2>6. h \in [0 .. n + 1 -> V]
    BY <2>1, <2>2, <2>3
  <2> HIDE DEF h
  <2>7. h[0] = base
    BY <2>1, <2>2, <2>4
  <2>8. ASSUME NEW i \in 1 .. n + 1 PROVE h[i] = step[i][h[i - 1]]
    <3>1. CASE i = n + 1
      BY <2>2, <2>5, <3>1
    <3>2. CASE i # n + 1
      <4>1. i \in 1 .. n /\ i \in 0 .. n /\ i - 1 \in 0 .. n
        BY <2>2, <3>2
      <4> QED
        BY <2>1, <2>4, <4>1
    <3> QED
      BY <3>1, <3>2
  <2>9. Solves(h, n + 1)
    BY <2>6, <2>7, <2>8
  <2> HIDE DEF Solves
  <2> QED
    BY <2>2, <2>9
<1>3. T = Nat
  <2>1. T \in SUBSET Nat
    OBVIOUS
  <2> HIDE DEF T
  <2> QED
    BY <1>1, <1>2, <2>1, NatInduct
<1>4. PICK g : Solves(g, N)
  BY <1>3
<1> QED
  BY <1>4 DEF Recurs

-----------------------------------------------------------------------------
(* Sums.                                                                                   *)

LEMMA SumEquation ==
  ASSUME NEW s \in Seq(Int)
  PROVE  /\ SumTo(s)[0] = 0
         /\ \A n \in 1 .. Len(s) : SumTo(s)[n] = SumTo(s)[n - 1] + s[n]
         /\ \A n \in 0 .. Len(s) : SumTo(s)[n] \in Int
<1> DEFINE N == Len(s)
           step == [n \in Nat |-> [v \in Int |-> v + (IF n \in 1 .. N THEN s[n] ELSE 0)]]
<1>1. N \in Nat
  OBVIOUS
<1>2. step \in [Nat -> [Int -> Int]]
  BY <1>1
<1>3. \A n \in 1 .. N : \A v \in Int : step[n][v] = v + s[n]
  BY <1>1
<1> HIDE DEF step, N
<1>4. PICK g \in [0 .. N -> Int] : g[0] = 0 /\ \A n \in 1 .. N : g[n] = step[n][g[n - 1]]
  <2>1. 0 \in Int
    OBVIOUS
  <2>2. \E g \in [0 .. N -> Int] : Recurs(g, N, 0, step)
    BY <1>1, <1>2, <2>1, Recursion
  <2> QED
    BY <2>2 DEF Recurs
<1>5. \A n \in 1 .. N : g[n] = g[n - 1] + s[n]
  <2>1. \A n \in 1 .. N : n - 1 \in 0 .. N /\ g[n - 1] \in Int
    BY <1>1, <1>4
  <2> QED
    BY <1>3, <1>4, <2>1
<1> DEFINE Eq(f) == f = [n \in 0 .. N |-> IF n = 0 THEN 0 ELSE f[n - 1] + s[n]]
<1>6. Eq(g)
  BY <1>1, <1>4, <1>5
<1>7. Eq(SumTo(s))
  BY <1>6 DEF SumTo, N
<1> DEFINE f == SumTo(s)
<1>8. f[0] = 0 /\ \A n \in 1 .. N : f[n] = f[n - 1] + s[n]
  <2> HIDE DEF f
  <2>1. f = [n \in 0 .. N |-> IF n = 0 THEN 0 ELSE f[n - 1] + s[n]]
    BY <1>7 DEF f
  <2>2. \A n \in 0 .. N : f[n] = IF n = 0 THEN 0 ELSE f[n - 1] + s[n]
    BY <2>1
  <2> QED
    BY <1>1, <2>2
<1> HIDE DEF f
<1>9. \A n \in 0 .. N : f[n] \in Int
  <2> DEFINE T == {n \in Nat : f[n] \in Int}
  <2>1. 0 \in T
    BY <1>8
  <2>2. ASSUME NEW n \in Nat, n < N, n \in T PROVE n + 1 \in T
    <3>1. n + 1 \in 1 .. N /\ (n + 1) - 1 = n /\ s[n + 1] \in Int /\ f[n] \in Int
      BY <1>1, <2>2 DEF N
    <3> QED
      BY <1>8, <3>1
  <2> HIDE DEF T
  <2>3. \A n \in 0 .. N : n \in T
    BY <1>1, <2>1, <2>2, UpTo
  <2> QED
    BY <2>3 DEF T
<1> QED
  BY <1>8, <1>9 DEF f, N

LEMMA SumType ==
  ASSUME NEW s \in Seq(Int)
  PROVE  SumOf(s) \in Int
<1>1. Len(s) \in 0 .. Len(s)
  OBVIOUS
<1> QED
  BY <1>1, SumEquation DEF SumOf

(* The first n numbers of a sequence have the same sum in every sequence that starts so.   *)
LEMMA SumPrefix ==
  ASSUME NEW s \in Seq(Int), NEW t \in Seq(Int), NEW n \in Nat, n <= Len(s), n <= Len(t),
         \A i \in 1 .. n : s[i] = t[i]
  PROVE  SumTo(s)[n] = SumTo(t)[n]
<1> DEFINE T == {k \in Nat : SumTo(s)[k] = SumTo(t)[k]}
<1>1. 0 \in T
  BY SumEquation
<1>2. ASSUME NEW k \in Nat, k < n, k \in T PROVE k + 1 \in T
  <2>1. k + 1 \in 1 .. n /\ k + 1 \in 1 .. Len(s) /\ k + 1 \in 1 .. Len(t) /\ (k + 1) - 1 = k
    BY <1>2
  <2>2. SumTo(s)[k + 1] = SumTo(s)[k] + s[k + 1] /\ SumTo(t)[k + 1] = SumTo(t)[k] + t[k + 1]
    BY <2>1, SumEquation
  <2> QED
    BY <1>2, <2>1, <2>2
<1> HIDE DEF T
<1>3. \A k \in 0 .. n : k \in T
  BY <1>1, <1>2, UpTo
<1> QED
  BY <1>3 DEF T

LEMMA SumAppend ==
  ASSUME NEW s \in Seq(Int), NEW x \in Int
  PROVE  SumOf(Append(s, x)) = SumOf(s) + x
<1> DEFINE t == Append(s, x)
<1>1. /\ t \in Seq(Int) /\ Len(t) = Len(s) + 1 /\ Len(s) \in Nat
      /\ \A i \in 1 .. Len(s) : t[i] = s[i]
      /\ t[Len(s) + 1] = x
  OBVIOUS
<1> HIDE DEF t
<1>2. SumTo(t)[Len(s)] = SumTo(s)[Len(s)]
  <2> DEFINE n == Len(s)
  <2>1. n \in Nat /\ n <= Len(s) /\ n <= Len(t) /\ \A i \in 1 .. n : t[i] = s[i]
    BY <1>1
  <2> HIDE DEF n
  <2>2. SumTo(t)[n] = SumTo(s)[n]
    BY <1>1, <2>1, SumPrefix
  <2> QED
    BY <2>2 DEF n
<1>3. SumTo(t)[Len(s) + 1] = SumTo(t)[Len(s)] + t[Len(s) + 1]
  <2>1. Len(s) + 1 \in 1 .. Len(t) /\ (Len(s) + 1) - 1 = Len(s)
    BY <1>1
  <2> QED
    BY <1>1, <2>1, SumEquation
<1> QED
  BY <1>1, <1>2, <1>3 DEF SumOf, t

(* The sums of two sequences, number by number.                                            *)
LEMMA SumAdd ==
  ASSUME NEW s \in Seq(Int), NEW t \in Seq(Int), NEW u \in Seq(Int),
         Len(s) = Len(u), Len(t) = Len(u), \A i \in 1 .. Len(u) : u[i] = s[i] + t[i]
  PROVE  SumOf(u) = SumOf(s) + SumOf(t)
<1> DEFINE T == {k \in Nat : SumTo(u)[k] = SumTo(s)[k] + SumTo(t)[k]}
<1>1. 0 \in T
  BY SumEquation
<1>2. ASSUME NEW k \in Nat, k < Len(u), k \in T PROVE k + 1 \in T
  <2>1. k + 1 \in 1 .. Len(u) /\ k \in 0 .. Len(u) /\ (k + 1) - 1 = k
    BY <1>2
  <2>2. /\ SumTo(s)[k + 1] = SumTo(s)[k] + s[k + 1]
        /\ SumTo(t)[k + 1] = SumTo(t)[k] + t[k + 1]
        /\ SumTo(u)[k + 1] = SumTo(u)[k] + u[k + 1]
    BY <2>1, SumEquation
  <2>3. SumTo(s)[k] \in Int /\ SumTo(t)[k] \in Int /\ s[k + 1] \in Int /\ t[k + 1] \in Int
    BY <2>1, SumEquation
  <2>4. u[k + 1] = s[k + 1] + t[k + 1] /\ SumTo(u)[k] = SumTo(s)[k] + SumTo(t)[k]
    BY <1>2, <2>1
  <2>5. SumTo(u)[k + 1] = SumTo(s)[k + 1] + SumTo(t)[k + 1]
    BY <2>2, <2>3, <2>4
  <2> QED
    BY <2>5
<1> HIDE DEF T
<1>3. \A k \in 0 .. Len(u) : k \in T
  <2>1. Len(u) \in Nat
    OBVIOUS
  <2> QED
    BY <1>1, <1>2, <2>1, UpTo
<1>4. Len(u) \in 0 .. Len(u)
  OBVIOUS
<1> QED
  BY <1>3, <1>4 DEF T, SumOf

(* All numbers but the one at j are 0; with j = 0 all are.                                 *)
LEMMA SumSingle ==
  ASSUME NEW s \in Seq(Int), NEW j \in 0 .. Len(s), NEW v \in Int, j = 0 => v = 0,
         \A i \in 1 .. Len(s) : s[i] = IF i = j THEN v ELSE 0
  PROVE  SumOf(s) = v
<1> DEFINE T == {k \in Nat : SumTo(s)[k] = IF k < j THEN 0 ELSE v}
<1>1. 0 \in T
  BY SumEquation
<1>2. ASSUME NEW k \in Nat, k < Len(s), k \in T PROVE k + 1 \in T
  <2>1. k + 1 \in 1 .. Len(s) /\ (k + 1) - 1 = k
    BY <1>2
  <2>2. SumTo(s)[k + 1] = SumTo(s)[k] + s[k + 1]
    BY <2>1, SumEquation
  <2> QED
    BY <1>2, <2>1, <2>2
<1> HIDE DEF T
<1>3. \A k \in 0 .. Len(s) : k \in T
  <2>1. Len(s) \in Nat
    OBVIOUS
  <2> QED
    BY <1>1, <1>2, <2>1, UpTo
<1>4. Len(s) \in 0 .. Len(s) /\ ~(Len(s) < j)
  OBVIOUS
<1> QED
  BY <1>3, <1>4 DEF T, SumOf

LEMMA SumOnes ==
  ASSUME NEW n \in Nat
  PROVE  SumOf([i \in 1 .. n |-> 1]) = n
<1> DEFINE s == [i \in 1 .. n |-> 1]
<1>1. s \in Seq(Int) /\ Len(s) = n /\ \A i \in 1 .. n : s[i] = 1
  OBVIOUS
<1> HIDE DEF s
<1> DEFINE T == {k \in Nat : SumTo(s)[k] = k}
<1>2. 0 \in T
  BY <1>1, SumEquation
<1>3. ASSUME NEW k \in Nat, k < n, k \in T PROVE k + 1 \in T
  <2>1. k + 1 \in 1 .. Len(s) /\ (k + 1) - 1 = k
    BY <1>1, <1>3
  <2>2. SumTo(s)[k + 1] = SumTo(s)[k] + s[k + 1]
    BY <1>1, <2>1, SumEquation
  <2> QED
    BY <1>1, <1>3, <2>1, <2>2
<1> HIDE DEF T
<1>4. \A k \in 0 .. n : k \in T
  BY <1>2, <1>3, UpTo
<1>5. n \in T
  BY <1>4
<1> QED
  BY <1>1, <1>5 DEF T, SumOf, s

(* The numbers of w are put into n buckets: the sums of the buckets have the sum of w.     *)
InBucket(w, bucket, i) == [b \in 1 .. Len(w) |-> IF bucket[b] = i THEN w[b] ELSE 0]

LEMMA InBucketIs ==
  ASSUME NEW w \in Seq(Int), NEW bucket, NEW i
  PROVE  /\ InBucket(w, bucket, i) \in Seq(Int)
         /\ Len(InBucket(w, bucket, i)) = Len(w)
         /\ \A b \in 1 .. Len(w) : InBucket(w, bucket, i)[b] = IF bucket[b] = i THEN w[b] ELSE 0
<1>1. Len(w) \in Nat /\ \A b \in 1 .. Len(w) : w[b] \in Int
  OBVIOUS
<1>2. InBucket(w, bucket, i) \in [1 .. Len(w) -> Int]
  BY <1>1 DEF InBucket
<1> QED
  BY <1>1, <1>2 DEF InBucket

LEMMA Partition ==
  ASSUME NEW n \in Nat, NEW w \in Seq(Int), NEW bucket,
         \A b \in 1 .. Len(w) : bucket[b] \in 1 .. n
  PROVE  SumOf([i \in 1 .. n |-> SumOf(InBucket(w, bucket, i))]) = SumOf(w)
<1> DEFINE u(k) == [i \in 1 .. n |-> SumTo(InBucket(w, bucket, i))[k]]
           T == {k \in Nat : SumOf(u(k)) = SumTo(w)[k]}
<1>0. Len(w) \in Nat /\ \A b \in 1 .. Len(w) : w[b] \in Int
  OBVIOUS
<1>1. \A i : /\ InBucket(w, bucket, i) \in Seq(Int)
            /\ Len(InBucket(w, bucket, i)) = Len(w)
            /\ \A b \in 1 .. Len(w) :
                 InBucket(w, bucket, i)[b] = IF bucket[b] = i THEN w[b] ELSE 0
  BY InBucketIs
<1>2. ASSUME NEW k \in 0 .. Len(w) PROVE u(k) \in Seq(Int) /\ Len(u(k)) = n
  <2>1. \A i : SumTo(InBucket(w, bucket, i))[k] \in Int
    BY <1>1, SumEquation
  <2>2. u(k) \in [1 .. n -> Int]
    BY <2>1
  <2> QED
    BY <2>2
<1>3. 0 \in T
  <2>1. u(0) \in Seq(Int) /\ Len(u(0)) = n
    BY <1>0, <1>2
  <2>2. \A i \in 1 .. n : u(0)[i] = 0
    BY <1>1, SumEquation
  <2>3. SumOf(u(0)) = 0
    <3> DEFINE s == u(0)
    <3>1. s \in Seq(Int) /\ Len(s) = n /\ \A i \in 1 .. Len(s) : s[i] = IF i = 0 THEN 0 ELSE 0
      BY <2>1, <2>2
    <3> HIDE DEF s
    <3>2. 0 \in 0 .. Len(s) /\ 0 \in Int
      BY <3>1
    <3>3. SumOf(s) = 0
      BY <3>1, <3>2, SumSingle
    <3> QED
      BY <3>3 DEF s
  <2> HIDE DEF u
  <2> QED
    BY <2>3, SumEquation
<1>4. ASSUME NEW k \in Nat, k < Len(w), k \in T PROVE k + 1 \in T
  <2>1. k \in 0 .. Len(w) /\ k + 1 \in 0 .. Len(w) /\ k + 1 \in 1 .. Len(w) /\ (k + 1) - 1 = k
    BY <1>0, <1>4
  <2> DEFINE d == [i \in 1 .. n |-> IF i = bucket[k + 1] THEN w[k + 1] ELSE 0]
  <2>2. /\ d \in Seq(Int) /\ Len(d) = n
        /\ \A i \in 1 .. n : d[i] = IF i = bucket[k + 1] THEN w[k + 1] ELSE 0
    <3>1. d \in [1 .. n -> Int]
      BY <1>0, <2>1
    <3> QED
      BY <3>1
  <2>3. ASSUME NEW i \in 1 .. n PROVE u(k + 1)[i] = u(k)[i] + d[i]
    <3> DEFINE p == InBucket(w, bucket, i)
    <3>1. p \in Seq(Int) /\ Len(p) = Len(w) /\ p[k + 1] = IF bucket[k + 1] = i THEN w[k + 1] ELSE 0
      BY <1>1, <2>1
    <3>2. u(k + 1)[i] = SumTo(p)[k + 1] /\ u(k)[i] = SumTo(p)[k]
      OBVIOUS
    <3> HIDE DEF p, u, d
    <3>3. SumTo(p)[k + 1] = SumTo(p)[k] + p[k + 1]
      BY <2>1, <3>1, SumEquation
    <3> QED
      BY <2>2, <3>1, <3>2, <3>3
  <2>4. SumOf(d) = w[k + 1]
    <3> DEFINE j == bucket[k + 1]
               v == w[k + 1]
    <3>1. j \in 0 .. Len(d) /\ v \in Int /\ (j = 0 => v = 0)
      BY <1>0, <2>1, <2>2
    <3>2. \A i \in 1 .. Len(d) : d[i] = IF i = j THEN v ELSE 0
      BY <2>2
    <3> HIDE DEF j, v, d
    <3>3. SumOf(d) = v
      BY <2>2, <3>1, <3>2, SumSingle
    <3> QED
      BY <3>3 DEF v
  <2>5. u(k) \in Seq(Int) /\ Len(u(k)) = n /\ u(k + 1) \in Seq(Int) /\ Len(u(k + 1)) = n
    BY <1>2, <2>1
  <2> HIDE DEF u, d
  <2>6. SumOf(u(k + 1)) = SumOf(u(k)) + SumOf(d)
    <3> DEFINE a == u(k)
               c == u(k + 1)
    <3>1. a \in Seq(Int) /\ d \in Seq(Int) /\ c \in Seq(Int) /\ Len(a) = Len(c) /\ Len(d) = Len(c)
      BY <2>2, <2>5
    <3>2. \A i \in 1 .. Len(c) : c[i] = a[i] + d[i]
      BY <2>3, <2>5
    <3> HIDE DEF a, c
    <3>3. SumOf(c) = SumOf(a) + SumOf(d)
      BY <3>1, <3>2, SumAdd
    <3> QED
      BY <3>3 DEF a, c
  <2>7. SumTo(w)[k + 1] = SumTo(w)[k] + w[k + 1]
    BY <2>1, SumEquation
  <2> QED
    BY <1>4, <2>4, <2>6, <2>7
<1> DEFINE c == [i \in 1 .. n |-> SumOf(InBucket(w, bucket, i))]
<1>5. c = u(Len(w))
  BY <1>1 DEF SumOf
<1> HIDE DEF T, u, c
<1>6. \A k \in 0 .. Len(w) : k \in T
  BY <1>0, <1>3, <1>4, UpTo
<1>7. Len(w) \in T
  BY <1>0, <1>6
<1>8. SumOf(c) = SumOf(w)
  BY <1>5, <1>7 DEF T, SumOf
<1> QED
  BY <1>8 DEF c

-----------------------------------------------------------------------------
(* What a selection yields.                                                                *)

LEMMA SelectType ==
  ASSUME NEW S, NEW rows \in Seq(S), NEW which
  PROVE  Select(rows, which) \in Seq(S) /\ Len(Select(rows, which)) \in Nat
<1>1. Len(rows) \in 0 .. Len(rows)
  OBVIOUS
<1>2. Select(rows, which) \in Seq(S)
  BY <1>1, SelectedLength DEF Select
<1> QED
  BY <1>2

(* The first n rows yield the same in every table that starts with them, and for every     *)
(* condition that holds of the same of them.                                               *)
LEMMA SelectedSame ==
  ASSUME NEW S, NEW rows \in Seq(S), NEW more \in Seq(S), NEW which, NEW what,
         NEW n \in Nat, n <= Len(rows), n <= Len(more),
         \A i \in 1 .. n : more[i] = rows[i] /\ (rows[i] \in which <=> rows[i] \in what)
  PROVE  Selected(more, what)[n] = Selected(rows, which)[n]
<1> DEFINE T == {k \in Nat : Selected(more, what)[k] = Selected(rows, which)[k]}
<1>1. 0 \in T
  BY SelectedRows
<1>2. ASSUME NEW k \in Nat, k < n, k \in T PROVE k + 1 \in T
  <2>1. /\ k + 1 \in 1 .. n /\ k + 1 \in 1 .. Len(rows) /\ k + 1 \in 1 .. Len(more)
        /\ (k + 1) - 1 = k
    BY <1>2
  <2>2. /\ Selected(rows, which)[k + 1] =
             IF rows[k + 1] \in which THEN Append(Selected(rows, which)[k], rows[k + 1])
             ELSE Selected(rows, which)[k]
        /\ Selected(more, what)[k + 1] =
             IF more[k + 1] \in what THEN Append(Selected(more, what)[k], more[k + 1])
             ELSE Selected(more, what)[k]
    BY <2>1, SelectedRows
  <2>3. more[k + 1] = rows[k + 1] /\ (rows[k + 1] \in which <=> rows[k + 1] \in what)
    BY <2>1
  <2> QED
    BY <1>2, <2>2, <2>3
<1> HIDE DEF T
<1>3. \A k \in 0 .. n : k \in T
  BY <1>1, <1>2, UpTo
<1> QED
  BY <1>3 DEF T

LEMMA SelectSame ==
  ASSUME NEW S, NEW rows \in Seq(S), NEW which, NEW what,
         \A i \in 1 .. Len(rows) : rows[i] \in which <=> rows[i] \in what
  PROVE  Select(rows, which) = Select(rows, what)
<1>1. Len(rows) \in Nat
  OBVIOUS
<1> DEFINE n == Len(rows)
<1>2. n \in Nat /\ n <= Len(rows)
  BY <1>1
<1> HIDE DEF n
<1>3. \A i \in 1 .. n : rows[i] = rows[i] /\ (rows[i] \in which <=> rows[i] \in what)
  BY DEF n
<1>4. Selected(rows, what)[n] = Selected(rows, which)[n]
  BY <1>2, <1>3, SelectedSame
<1> QED
  BY <1>4 DEF Select, n

LEMMA SelectAppend ==
  ASSUME NEW S, NEW rows \in Seq(S), NEW r \in S, NEW which
  PROVE  Select(Append(rows, r), which)
           = IF r \in which THEN Append(Select(rows, which), r) ELSE Select(rows, which)
<1> DEFINE more == Append(rows, r)
           n == Len(rows)
<1>1. /\ more \in Seq(S) /\ n \in Nat /\ Len(more) = n + 1 /\ more[n + 1] = r
      /\ \A i \in 1 .. n : more[i] = rows[i]
  OBVIOUS
<1> HIDE DEF more
<1>2. Selected(more, which)[n] = Selected(rows, which)[n]
  <2>1. n \in Nat /\ n <= Len(rows) /\ n <= Len(more)
    BY <1>1
  <2> HIDE DEF n
  <2>2. \A i \in 1 .. n : more[i] = rows[i] /\ (rows[i] \in which <=> rows[i] \in which)
    BY <1>1
  <2> QED
    BY <1>1, <2>1, <2>2, SelectedSame
<1>3. Selected(more, which)[n + 1] = IF more[n + 1] \in which
                                     THEN Append(Selected(more, which)[n], more[n + 1])
                                     ELSE Selected(more, which)[n]
  <2>1. n + 1 \in 1 .. Len(more) /\ (n + 1) - 1 = n
    BY <1>1
  <2> QED
    BY <1>1, <2>1, SelectedRows
<1>4. Select(more, which) = Selected(more, which)[n + 1] /\ Select(rows, which) = Selected(rows, which)[n]
  BY <1>1 DEF Select
<1> QED
  BY <1>1, <1>2, <1>3, <1>4 DEF more

LEMMA SelectEmpty ==
  ASSUME NEW which
  PROVE  Select(<<>>, which) = <<>>
<1>1. <<>> \in Seq({}) /\ Len(<<>>) = 0
  OBVIOUS
<1>2. Selected(<<>>, which)[0] = <<>>
  BY <1>1, SelectedRows, ZenonT(30)
<1>3. Select(<<>>, which) = Selected(<<>>, which)[Len(<<>>)]
  BY Zenon DEF Select
<1> QED
  BY <1>1, <1>2, <1>3, Zenon

(* As many rows are selected as there are ones in the sequence of marks.                   *)
Marks(rows, which) == [i \in 1 .. Len(rows) |-> IF rows[i] \in which THEN 1 ELSE 0]

LEMMA MarksAre ==
  ASSUME NEW S, NEW rows \in Seq(S), NEW which
  PROVE  /\ Marks(rows, which) \in Seq(Int)
         /\ Len(Marks(rows, which)) = Len(rows)
         /\ \A i \in 1 .. Len(rows) : Marks(rows, which)[i] = IF rows[i] \in which THEN 1 ELSE 0
<1>1. Len(rows) \in Nat
  OBVIOUS
<1>2. Marks(rows, which) \in [1 .. Len(rows) -> Int]
  BY <1>1 DEF Marks
<1> QED
  BY <1>1, <1>2 DEF Marks

LEMMA SelectCount ==
  ASSUME NEW S, NEW rows \in Seq(S), NEW which
  PROVE  Len(Select(rows, which)) = SumOf(Marks(rows, which))
<1> DEFINE m == Marks(rows, which)
           f == Selected(rows, which)
           T == {k \in Nat : Len(f[k]) = SumTo(m)[k]}
<1>0. Len(rows) \in Nat
  OBVIOUS
<1>1. /\ m \in Seq(Int) /\ Len(m) = Len(rows)
      /\ \A i \in 1 .. Len(rows) : m[i] = IF rows[i] \in which THEN 1 ELSE 0
  BY MarksAre
<1>2. f[0] = <<>>
  BY SelectedRows
<1>3. ASSUME NEW k \in Nat, k < Len(rows)
      PROVE  f[k + 1] = IF rows[k + 1] \in which THEN Append(f[k], rows[k + 1]) ELSE f[k]
  <2>1. k + 1 \in 1 .. Len(rows) /\ (k + 1) - 1 = k
    BY <1>0, <1>3
  <2> QED
    BY <2>1, SelectedRows
<1>4. \A k \in 0 .. Len(rows) : f[k] \in Seq(S)
  BY SelectedLength
<1> HIDE DEF m, f
<1>5. 0 \in T
  BY <1>1, <1>2, SumEquation
<1>6. ASSUME NEW k \in Nat, k < Len(rows), k \in T PROVE k + 1 \in T
  <2>1. k + 1 \in 1 .. Len(rows) /\ k \in 0 .. Len(rows) /\ (k + 1) - 1 = k /\ rows[k + 1] \in S
    BY <1>0, <1>6
  <2>2. SumTo(m)[k + 1] = SumTo(m)[k] + m[k + 1]
    BY <1>1, <2>1, SumEquation
  <2>3. Len(f[k + 1]) = IF rows[k + 1] \in which THEN Len(f[k]) + 1 ELSE Len(f[k])
    <3>1. f[k] \in Seq(S)
      BY <1>4, <2>1
    <3>2. CASE rows[k + 1] \in which
      <4>1. f[k + 1] = Append(f[k], rows[k + 1])
        BY <1>3, <1>6, <3>2
      <4> QED
        BY <2>1, <3>1, <3>2, <4>1
    <3>3. CASE rows[k + 1] \notin which
      BY <1>3, <1>6, <3>3
    <3> QED
      BY <3>2, <3>3
  <2>4. Len(f[k]) \in Nat
    BY <1>4, <2>1
  <2> QED
    BY <1>1, <1>6, <2>1, <2>2, <2>3, <2>4
<1> HIDE DEF T
<1>7. \A k \in 0 .. Len(rows) : k \in T
  BY <1>0, <1>5, <1>6, UpTo
<1>8. Len(rows) \in T
  BY <1>0, <1>7
<1> QED
  BY <1>1, <1>8 DEF T, Select, SumOf, m, f

(* Each selected row is a row of the table, and each row to select is selected.            *)
LEMMA SelectRows ==
  ASSUME NEW S, NEW rows \in Seq(S), NEW which
  PROVE  /\ \A k \in 1 .. Len(Select(rows, which)) :
              \E a \in 1 .. Len(rows) : rows[a] \in which /\ Select(rows, which)[k] = rows[a]
         /\ \A a \in 1 .. Len(rows) :
              rows[a] \in which => \E k \in 1 .. Len(Select(rows, which)) : Select(rows, which)[k] = rows[a]
<1> DEFINE f == Selected(rows, which)
<1>0. Len(rows) \in Nat
  OBVIOUS
<1>1. \A k \in 1 .. Len(f[Len(rows)]) :
        \E a \in 1 .. Len(rows) : rows[a] \in which /\ f[Len(rows)][k] = rows[a]
  <2>1. Len(rows) \in 0 .. Len(rows)
    BY <1>0
  <2> QED
    BY <2>1, SelectedPositions
<1>2. ASSUME NEW k \in Nat, k < Len(rows)
      PROVE  f[k + 1] = IF rows[k + 1] \in which THEN Append(f[k], rows[k + 1]) ELSE f[k]
  <2>1. k + 1 \in 1 .. Len(rows) /\ (k + 1) - 1 = k
    BY <1>0, <1>2
  <2> QED
    BY <2>1, SelectedRows
<1>3. \A k \in 0 .. Len(rows) : f[k] \in Seq(S)
  BY SelectedLength
<1> HIDE DEF f
<1> DEFINE Found(n) == \A a \in 1 .. n : rows[a] \in which => \E k \in 1 .. Len(f[n]) : f[n][k] = rows[a]
           T == {n \in Nat : Found(n)}
<1>4. 0 \in T
  OBVIOUS
<1>5. ASSUME NEW n \in Nat, n < Len(rows), n \in T PROVE n + 1 \in T
  <2>1. f[n] \in Seq(S) /\ rows[n + 1] \in S
    BY <1>0, <1>3, <1>5
  <2>2. CASE rows[n + 1] \in which
    <3>1. f[n + 1] = Append(f[n], rows[n + 1])
      BY <1>2, <1>5, <2>2
    <3>2. /\ Len(f[n + 1]) = Len(f[n]) + 1 /\ f[n + 1][Len(f[n]) + 1] = rows[n + 1]
          /\ \A k \in 1 .. Len(f[n]) : f[n + 1][k] = f[n][k]
          /\ Len(f[n]) \in Nat
      BY <2>1, <3>1
    <3>3. ASSUME NEW a \in 1 .. n + 1, rows[a] \in which
          PROVE  \E k \in 1 .. Len(f[n + 1]) : f[n + 1][k] = rows[a]
      <4>1. CASE a = n + 1
        <5>1. Len(f[n]) + 1 \in 1 .. Len(f[n + 1])
          BY <3>2
        <5> QED
          BY <3>2, <4>1, <5>1
      <4>2. CASE a # n + 1
        <5>1. a \in 1 .. n
          BY <4>2
        <5>2. PICK k \in 1 .. Len(f[n]) : f[n][k] = rows[a]
          BY <1>5, <3>3, <5>1
        <5>3. k \in 1 .. Len(f[n + 1]) /\ f[n + 1][k] = rows[a]
          BY <3>2, <5>2
        <5> QED
          BY <5>3
      <4> QED
        BY <4>1, <4>2
    <3> QED
      BY <3>3
  <2>3. CASE rows[n + 1] \notin which
    <3>1. f[n + 1] = f[n]
      BY <1>2, <1>5, <2>3
    <3>2. \A a \in 1 .. n + 1 : rows[a] \in which => a \in 1 .. n
      BY <2>3
    <3> QED
      BY <1>5, <3>1, <3>2
  <2> QED
    BY <2>2, <2>3
<1> HIDE DEF T
<1>6. \A n \in 0 .. Len(rows) : n \in T
  BY <1>0, <1>4, <1>5, UpTo
<1>7. Found(Len(rows))
  <2>1. Len(rows) \in T
    BY <1>0, <1>6
  <2> QED
    BY <2>1 DEF T
<1> QED
  BY <1>1, <1>7 DEF Select, f

LEMMA SelectRange ==
  ASSUME NEW S, NEW rows \in Seq(S), NEW which
  PROVE  Range(Select(rows, which)) = {r \in Range(rows) : r \in which}
<1> DEFINE sel == Select(rows, which)
<1>1. DOMAIN rows = 1 .. Len(rows)
  OBVIOUS
<1>2. sel \in Seq(S)
  BY SelectType
<1>3. /\ \A k \in 1 .. Len(sel) : \E a \in 1 .. Len(rows) : rows[a] \in which /\ sel[k] = rows[a]
      /\ \A a \in 1 .. Len(rows) : rows[a] \in which => \E k \in 1 .. Len(sel) : sel[k] = rows[a]
  BY SelectRows
<1> HIDE DEF sel
<1>4. DOMAIN sel = 1 .. Len(sel)
  BY <1>2
<1>5. Range(sel) \subseteq {r \in Range(rows) : r \in which}
  BY <1>1, <1>3, <1>4 DEF Range
<1>6. ASSUME NEW r \in Range(rows), r \in which PROVE r \in Range(sel)
  <2>1. PICK a \in 1 .. Len(rows) : r = rows[a]
    BY <1>1 DEF Range
  <2>2. PICK k \in 1 .. Len(sel) : sel[k] = r
    BY <1>3, <1>6, <2>1
  <2> QED
    BY <1>4, <2>2 DEF Range
<1> QED
  BY <1>5, <1>6 DEF sel

LEMMA SelectNone ==
  ASSUME NEW S, NEW rows \in Seq(S), NEW which
  PROVE  Select(rows, which) = <<>> <=> \A a \in 1 .. Len(rows) : rows[a] \notin which
<1> DEFINE sel == Select(rows, which)
<1>1. sel \in Seq(S) /\ Len(sel) \in Nat
  BY SelectType
<1>2. /\ \A k \in 1 .. Len(sel) : \E a \in 1 .. Len(rows) : rows[a] \in which /\ sel[k] = rows[a]
      /\ \A a \in 1 .. Len(rows) : rows[a] \in which => \E k \in 1 .. Len(sel) : sel[k] = rows[a]
  BY SelectRows
<1> HIDE DEF sel
<1>3. sel = <<>> <=> Len(sel) = 0
  BY <1>1
<1>4. sel # <<>> => 1 \in 1 .. Len(sel)
  BY <1>1, <1>3
<1>5. sel = <<>> => \A k \in 1 .. Len(sel) : FALSE
  BY <1>3
<1> QED
  BY <1>2, <1>4, <1>5 DEF sel

LEMMA SelectWhole ==
  ASSUME NEW S, NEW rows \in Seq(S), NEW which, \A i \in 1 .. Len(rows) : rows[i] \in which
  PROVE  Select(rows, which) = rows
<1>1. Len(rows) \in 0 .. Len(rows)
  OBVIOUS
<1>2. Select(rows, which) = SubSeq(rows, 1, Len(rows))
  BY <1>1, SelectAll DEF Select
<1> QED
  BY <1>2

LEMMA SelectConcat ==
  ASSUME NEW S, NEW rows \in Seq(S), NEW more \in Seq(S), NEW which
  PROVE  Select(rows \o more, which) = Select(rows, which) \o Select(more, which)
<1> DEFINE all == rows \o more
           f == Selected(all, which)
           g == Selected(more, which)
           s == Select(rows, which)
           T == {n \in Nat : f[Len(rows) + n] = s \o g[n]}
<1>1. /\ all \in Seq(S) /\ Len(all) = Len(rows) + Len(more) /\ Len(rows) \in Nat /\ Len(more) \in Nat
      /\ \A i \in 1 .. Len(rows) : all[i] = rows[i]
      /\ \A i \in 1 .. Len(more) : all[Len(rows) + i] = more[i]
  OBVIOUS
<1> HIDE DEF all
<1>2. f[Len(rows)] = s
  <2> DEFINE n == Len(rows)
  <2>1. n \in Nat /\ n <= Len(rows) /\ n <= Len(all)
    BY <1>1
  <2> HIDE DEF n
  <2>2. \A i \in 1 .. n : all[i] = rows[i] /\ (rows[i] \in which <=> rows[i] \in which)
    BY <1>1 DEF n
  <2>3. Selected(all, which)[n] = Selected(rows, which)[n]
    <3>1. all \in Seq(S) /\ rows \in Seq(S)
      BY <1>1
    <3>2. \A i \in 1 .. n : all[i] = rows[i]
      BY <2>2
    <3> QED
      BY <2>1, <3>1, <3>2, SelectedSame
  <2> QED
    BY <2>3 DEF Select, n
<1>3. ASSUME NEW n \in Nat, n < Len(more)
      PROVE  /\ f[Len(rows) + n + 1] = IF more[n + 1] \in which
                                       THEN Append(f[Len(rows) + n], more[n + 1])
                                       ELSE f[Len(rows) + n]
             /\ g[n + 1] = IF more[n + 1] \in which THEN Append(g[n], more[n + 1]) ELSE g[n]
  <2>1. /\ n + 1 \in 1 .. Len(more) /\ (n + 1) - 1 = n
        /\ Len(rows) + n + 1 \in 1 .. Len(all) /\ (Len(rows) + n + 1) - 1 = Len(rows) + n
        /\ all[Len(rows) + n + 1] = more[n + 1]
    BY <1>1, <1>3
  <2>2. g[n + 1] = IF more[n + 1] \in which THEN Append(g[n], more[n + 1]) ELSE g[n]
    BY <2>1, SelectedRows
  <2> DEFINE k == Len(rows) + n + 1
  <2>3. k \in 1 .. Len(all) /\ k - 1 = Len(rows) + n /\ all[k] = more[n + 1]
    BY <2>1
  <2> HIDE DEF k
  <2>4. f[k] = IF all[k] \in which THEN Append(f[k - 1], all[k]) ELSE f[k - 1]
    <3>1. all \in Seq(S)
      BY <1>1
    <3> QED
      BY <2>3, <3>1, SelectedRows
  <2> QED
    BY <2>2, <2>3, <2>4 DEF k
<1>4. g[0] = <<>> /\ s \in Seq(S) /\ \A n \in 0 .. Len(more) : g[n] \in Seq(S)
  <2>1. g[0] = <<>>
    BY SelectedRows
  <2>2. s \in Seq(S)
    BY SelectType
  <2>3. \A n \in 0 .. Len(more) : g[n] \in Seq(S)
    BY SelectedLength
  <2> QED
    BY <2>1, <2>2, <2>3
<1> HIDE DEF f, g, s
<1>5. 0 \in T
  BY <1>1, <1>2, <1>4
<1>6. ASSUME NEW n \in Nat, n < Len(more), n \in T PROVE n + 1 \in T
  <2>1. Len(rows) + (n + 1) = Len(rows) + n + 1
    BY <1>1
  <2>2. f[Len(rows) + n] = s \o g[n] /\ g[n] \in Seq(S) /\ more[n + 1] \in S
    <3>1. f[Len(rows) + n] = s \o g[n]
      BY <1>6
    <3>2. n \in 0 .. Len(more) /\ n + 1 \in 1 .. Len(more)
      BY <1>1, <1>6
    <3> QED
      BY <1>4, <3>1, <3>2
  <2>3. CASE more[n + 1] \in which
    <3>1. Append(s \o g[n], more[n + 1]) = s \o Append(g[n], more[n + 1])
      <4> DEFINE t == g[n]  e == more[n + 1]
      <4>1. t \in Seq(S) /\ e \in S
        BY <2>2
      <4> HIDE DEF t, e
      <4> DEFINE u == <<e>>
      <4>2. u \in Seq(S) /\ s \o t \in Seq(S)
        BY <1>4, <4>1
      <4>3. Append(s \o t, e) = (s \o t) \o u /\ Append(t, e) = t \o u
        BY <4>1, <4>2, AppendIsConcat
      <4> HIDE DEF u
      <4>4. (s \o t) \o u = s \o (t \o u)
        BY <1>4, <4>1, <4>2
      <4>5. Append(s \o t, e) = s \o Append(t, e)
        BY <4>3, <4>4
      <4> QED
        BY <4>5 DEF t, e
    <3>2. f[Len(rows) + n + 1] = s \o g[n + 1]
      BY <1>3, <1>6, <2>2, <2>3, <3>1
    <3> QED
      BY <2>1, <3>2
  <2>4. CASE more[n + 1] \notin which
    <3>1. f[Len(rows) + n + 1] = s \o g[n + 1]
      BY <1>3, <1>6, <2>2, <2>4
    <3> QED
      BY <2>1, <3>1
  <2> QED
    BY <2>3, <2>4
<1> HIDE DEF T
<1>7. \A n \in 0 .. Len(more) : n \in T
  BY <1>1, <1>5, <1>6, UpTo
<1>8. f[Len(rows) + Len(more)] = s \o g[Len(more)]
  <2>1. Len(more) \in T
    BY <1>1, <1>7
  <2> QED
    BY <2>1 DEF T
<1> QED
  BY <1>1, <1>8 DEF Select, f, g, s, all

(* What is selected and what is not make up the table.                                     *)
LEMMA SelectRest ==
  ASSUME NEW S, NEW rows \in Seq(S), NEW which, NEW other,
         \A i \in 1 .. Len(rows) : rows[i] \in which <=> rows[i] \notin other
  PROVE  Len(Select(rows, which)) + Len(Select(rows, other)) = Len(rows)
<1> DEFINE n == Len(rows)
           a == Marks(rows, which)
           b == Marks(rows, other)
           c == [i \in 1 .. n |-> 1]
<1>1. n \in Nat
  OBVIOUS
<1>2. /\ a \in Seq(Int) /\ Len(a) = n /\ \A i \in 1 .. n : a[i] = IF rows[i] \in which THEN 1 ELSE 0
      /\ b \in Seq(Int) /\ Len(b) = n /\ \A i \in 1 .. n : b[i] = IF rows[i] \in other THEN 1 ELSE 0
  BY MarksAre
<1>3. c \in Seq(Int) /\ Len(c) = n /\ \A i \in 1 .. n : c[i] = 1
  BY <1>1
<1>4. SumOf(c) = n
  BY <1>1, SumOnes
<1>5. Len(Select(rows, which)) = SumOf(a) /\ Len(Select(rows, other)) = SumOf(b)
  BY SelectCount
<1> HIDE DEF a, b, c
<1>6. \A i \in 1 .. Len(c) : c[i] = a[i] + b[i]
  BY <1>2, <1>3
<1>7. SumOf(c) = SumOf(a) + SumOf(b)
  BY <1>2, <1>3, <1>6, SumAdd
<1> QED
  BY <1>4, <1>5, <1>7

(* Rows put into n groups.                                                                 *)
GroupSizes(rows, which, n) == [i \in 1 .. n |-> Len(Select(rows, which[i]))]

(* The groups have as many rows as the table.                      *)
LEMMA Grouped ==
  ASSUME NEW S, NEW rows \in Seq(S), NEW n \in Nat, NEW bucket, NEW which,
         \A b \in 1 .. Len(rows) : bucket[b] \in 1 .. n,
         \A b \in 1 .. Len(rows) : \A i \in 1 .. n : rows[b] \in which[i] <=> bucket[b] = i
  PROVE  SumOf(GroupSizes(rows, which, n)) = Len(rows)
<1> DEFINE w == [b \in 1 .. Len(rows) |-> 1]
<1>1. Len(rows) \in Nat
  OBVIOUS
<1>2. w \in Seq(Int) /\ Len(w) = Len(rows) /\ \A b \in 1 .. Len(rows) : w[b] = 1
  BY <1>1
<1>3. SumOf(w) = Len(rows)
  BY <1>1, SumOnes
<1> HIDE DEF w
<1>4. ASSUME NEW i \in 1 .. n PROVE Len(Select(rows, which[i])) = SumOf(InBucket(w, bucket, i))
  <2>1. Len(Select(rows, which[i])) = SumOf(Marks(rows, which[i]))
    BY SelectCount
  <2>2. Marks(rows, which[i]) = InBucket(w, bucket, i)
    BY <1>2 DEF Marks, InBucket
  <2> QED
    BY <2>1, <2>2
<1>5. GroupSizes(rows, which, n) = [i \in 1 .. n |-> SumOf(InBucket(w, bucket, i))]
  BY <1>4 DEF GroupSizes
<1>6. \A b \in 1 .. Len(w) : bucket[b] \in 1 .. n
  BY <1>2
<1>7. SumOf([i \in 1 .. n |-> SumOf(InBucket(w, bucket, i))]) = SumOf(w)
  BY <1>2, <1>6, Partition
<1> QED
  BY <1>3, <1>5, <1>7

LEMMA SumConcat ==
  ASSUME NEW s \in Seq(Int), NEW t \in Seq(Int)
  PROVE  SumOf(s \o t) = SumOf(s) + SumOf(t)
<1> DEFINE u == s \o t
           T == {n \in Nat : SumTo(u)[Len(s) + n] = SumOf(s) + SumTo(t)[n]}
<1>1. /\ u \in Seq(Int) /\ Len(u) = Len(s) + Len(t) /\ Len(s) \in Nat /\ Len(t) \in Nat
      /\ \A i \in 1 .. Len(s) : u[i] = s[i]
      /\ \A i \in 1 .. Len(t) : u[Len(s) + i] = t[i] /\ t[i] \in Int
  OBVIOUS
<1> HIDE DEF u
<1>2. SumOf(s) \in Int
  BY SumType
<1>3. 0 \in T
  <2> DEFINE n == Len(s)
  <2>1. n \in Nat /\ n <= Len(s) /\ n <= Len(u) /\ \A i \in 1 .. n : u[i] = s[i]
    BY <1>1
  <2> HIDE DEF n
  <2>2. SumTo(u)[n] = SumTo(s)[n]
    BY <1>1, <2>1, SumPrefix
  <2>3. SumTo(t)[0] = 0
    BY SumEquation
  <2>4. Len(s) + 0 = n
    BY <1>1 DEF n
  <2>5. SumTo(s)[n] = SumOf(s)
    BY DEF n, SumOf
  <2>6. SumTo(u)[Len(s) + 0] = SumOf(s) + SumTo(t)[0]
    BY <1>2, <2>2, <2>3, <2>4, <2>5
  <2> QED
    BY <2>6
<1>4. ASSUME NEW n \in Nat, n < Len(t), n \in T PROVE n + 1 \in T
  <2>1. /\ n + 1 \in 1 .. Len(t) /\ (n + 1) - 1 = n /\ n \in 0 .. Len(t)
        /\ Len(s) + n + 1 \in 1 .. Len(u) /\ (Len(s) + n + 1) - 1 = Len(s) + n
        /\ Len(s) + (n + 1) = Len(s) + n + 1
    BY <1>1, <1>4
  <2>2. SumTo(t)[n + 1] = SumTo(t)[n] + t[n + 1] /\ SumTo(t)[n] \in Int
    BY <2>1, SumEquation
  <2> DEFINE k == Len(s) + n + 1
  <2>3. k \in 1 .. Len(u) /\ k - 1 = Len(s) + n /\ u[k] = t[n + 1] /\ Len(s) + (n + 1) = k
    BY <1>1, <2>1
  <2> HIDE DEF k
  <2>4. SumTo(u)[k] = SumTo(u)[k - 1] + u[k]
    BY <1>1, <2>3, SumEquation
  <2>5. t[n + 1] \in Int
    BY <1>1, <2>1
  <2> QED
    BY <1>2, <1>4, <2>2, <2>3, <2>4, <2>5
<1> HIDE DEF T
<1>5. \A n \in 0 .. Len(t) : n \in T
  BY <1>1, <1>3, <1>4, UpTo
<1>6. SumTo(u)[Len(s) + Len(t)] = SumOf(s) + SumTo(t)[Len(t)]
  <2>1. Len(t) \in T
    BY <1>1, <1>5
  <2> QED
    BY <2>1 DEF T
<1>7. SumOf(u) = SumOf(s) + SumOf(t)
  BY <1>1, <1>6 DEF SumOf
<1> QED
  BY <1>7 DEF u

(* SetToSeq lists a finite set, each element once.                                         *)
LEMMA SetSeq ==
  ASSUME NEW T, IsFiniteSet(T)
  PROVE  /\ Cardinality(T) \in Nat
         /\ SetToSeq(T) \in Seq(T)
         /\ Len(SetToSeq(T)) = Cardinality(T)
         /\ \A i, j \in 1 .. Cardinality(T) : SetToSeq(T)[i] = SetToSeq(T)[j] => i = j
         /\ \A x \in T : \E i \in 1 .. Cardinality(T) : SetToSeq(T)[i] = x
<1> DEFINE n == Cardinality(T)
           f == SetToSeq(T)
<1>1. n \in Nat /\ ExistsBijection(1 .. n, T)
  BY FS_CardinalityType
<1>2. \E g \in [1 .. n -> T] : IsInjective(g)
  BY <1>1 DEF ExistsBijection, Bijection, Injection
<1>3. f \in [1 .. n -> T] /\ IsInjective(f)
  BY <1>2 DEF SetToSeq
<1> HIDE DEF f
<1>4. f \in Injection(1 .. n, T)
  BY <1>3 DEF Injection
<1>5. IsFiniteSet(1 .. n) /\ Cardinality(1 .. n) = n
  BY <1>1, FS_Interval
<1>6. f \in Surjection(1 .. n, T)
  BY <1>4, <1>5, FS_Injection
<1>7. f \in Seq(T) /\ Len(f) = n
  BY <1>1, <1>3
<1>8. \A i, j \in 1 .. n : f[i] = f[j] => i = j
  BY <1>3 DEF IsInjective
<1>9. \A x \in T : \E i \in 1 .. n : f[i] = x
  BY <1>6 DEF Surjection
<1> QED
  BY <1>1, <1>7, <1>8, <1>9 DEF f

LEMMA RangeFinite ==
  ASSUME NEW S, NEW rows \in Seq(S)
  PROVE  IsFiniteSet(Range(rows)) /\ Range(rows) \subseteq S
<1>1. Len(rows) \in Nat /\ DOMAIN rows = 1 .. Len(rows) /\ rows \in [1 .. Len(rows) -> S]
  OBVIOUS
<1>2. IsFiniteSet(1 .. Len(rows))
  BY <1>1, FS_Interval
<1>3. rows \in Surjection(1 .. Len(rows), Range(rows))
  BY <1>1 DEF Surjection, Range
<1> QED
  BY <1>1, <1>2, <1>3, FS_Surjection DEF Range

(* date_trunc to minutes and to hours, which the models stand for by units of 1 and 2.     *)
LEMMA TruncOne ==
  ASSUME NEW t \in Nat
  PROVE  Trunc(t, 1) = t
<1>1. t % 1 = 0
  BY SMT
<1> QED
  BY <1>1 DEF Trunc

LEMMA TruncTwo ==
  ASSUME NEW t \in Nat
  PROVE  /\ t \div 2 \in Nat
         /\ Trunc(t, 2) = 2 * (t \div 2)
         /\ 2 * (t \div 2) <= t /\ t <= 2 * (t \div 2) + 1
<1>1. PICK m, d : m = t % 2 /\ d = t \div 2
  OBVIOUS
<1>2. m \in 0 .. 1
  BY <1>1
<1>3. d \in Nat
  BY <1>1
<1>4. t = 2 * d + m
  BY <1>1
<1>5. Trunc(t, 2) = t - m
  BY <1>1 DEF Trunc
<1> QED
  BY <1>1, <1>2, <1>3, <1>4, <1>5

(* The least and the greatest of two numbers.                                              *)
LEMMA LeastOfTwo ==
  ASSUME NEW m \in Nat, NEW n \in Nat
  PROVE  Min({m, n}) = IF m < n THEN m ELSE n
<1> DEFINE T == {m, n}
           k == IF m < n THEN m ELSE n
<1>1. k \in T /\ \A y \in T : k <= y
  OBVIOUS
<1>2. \A x \in T : (\A y \in T : x <= y) => x = k
  OBVIOUS
<1> HIDE DEF T, k
<1>3. Min(T) = k
  BY <1>1, <1>2 DEF Min
<1> QED
  BY <1>3 DEF T, k

LEMMA GreatestOfTwo ==
  ASSUME NEW m \in Int, NEW n \in Int
  PROVE  Max({m, n}) = IF m < n THEN n ELSE m
<1> DEFINE T == {m, n}
           k == IF m < n THEN n ELSE m
<1>1. k \in T /\ \A y \in T : k >= y
  OBVIOUS
<1>2. \A x \in T : (\A y \in T : x >= y) => x = k
  OBVIOUS
<1> HIDE DEF T, k
<1>3. Max(T) = k
  BY <1>1, <1>2 DEF Max
<1> QED
  BY <1>3 DEF T, k
=============================================================================
