----------------------------- MODULE SequenceLemmas -----------------------------
(***************************************************************************)
(* Lemmas about naturals, and about flattening and filtering sequences,    *)
(* for the proofs about the components.  Induction over a sequence is by   *)
(* a smallest counterexample (LeastNat): the library's induction theorems  *)
(* take an operator, which the provers cannot instantiate.                 *)
(***************************************************************************)
EXTENDS SequenceFilter, FiniteSets, SequenceTheorems, FiniteSetTheorems,
        WellFoundedInduction, TLAPS

\* A nonempty set of naturals has a least element.
LEMMA LeastNat ==
    ASSUME NEW T \in SUBSET Nat, T # {}
    PROVE  \E x \in T : \A y \in T : x <= y
<1> DEFINE R == {ss \in Nat \X Nat : ss[1] < ss[2]}
<1>1. IsWellFoundedOn(R, Nat)
    BY NatLessThanWellFounded DEF OpToRel
<1>2. PICK x \in T : \A y \in T : ~(<<y, x>> \in R)
    <2> HIDE DEF R
    <2> QED BY <1>1, WFMin
<1>3. ASSUME NEW y \in T
      PROVE  x <= y
    <2>1. x \in Nat /\ y \in Nat /\ <<y, x>> \in Nat \X Nat /\ ~(<<y, x>> \in R)
        BY <1>2
    <2>2. ~(y < x)
        BY <2>1
    <2> QED BY <2>1, <2>2
<1> QED BY <1>3

\* Induction: a set of naturals that has 0 and with every number the next has them all.
LEMMA AllNat ==
    ASSUME NEW T \in SUBSET Nat, 0 \in T, \A n \in T : n + 1 \in T
    PROVE  T = Nat
<1>1. SUFFICES ASSUME Nat \ T # {} PROVE FALSE
    OBVIOUS
<1>2. PICK x \in Nat \ T : \A y \in Nat \ T : x <= y
    BY <1>1, LeastNat
<1>3. x # 0 /\ x - 1 \in Nat
    BY <1>2
<1>4. x - 1 \in T
    BY <1>2, <1>3
<1>5. (x - 1) + 1 = x
    BY <1>2
<1> QED BY <1>2, <1>4, <1>5

\* Induction over a sequence: a set of sequences over A that has the empty one and is
\* closed under Append has them all.
LEMMA AllSeq ==
    ASSUME NEW A, NEW T \in SUBSET Seq(A), <<>> \in T,
           \A s \in T, e \in A : Append(s, e) \in T
    PROVE  T = Seq(A)
<1> DEFINE N == {n \in Nat : \A s \in Seq(A) : Len(s) = n => s \in T}
<1>1. 0 \in N
    BY EmptySeq
<1>2. ASSUME NEW n \in N PROVE n + 1 \in N
    <2>1. SUFFICES ASSUME NEW s \in Seq(A), Len(s) = n + 1 PROVE s \in T
        OBVIOUS
    <2>2. s # <<>>
        BY <2>1, EmptySeq
    <2>3. PICK r \in Seq(A), e \in A : s = Append(r, e)
        BY <2>2, SequenceEmptyOrAppend
    <2>4. Len(r) \in Nat /\ Len(s) = Len(r) + 1
        BY <2>3, LenProperties, AppendProperties
    <2>5. Len(r) = n
        BY <2>1, <2>4
    <2> QED BY <2>3, <2>5
<1> HIDE DEF N
<1>3. N = Nat
    <2>1. N \in SUBSET Nat
        BY DEF N
    <2> QED BY <1>1, <1>2, <2>1, AllNat
<1> QED BY <1>3, LenProperties DEF N

--------------------------------------------------------------------------------
(* FlattenSeq *)

\* The recursion that defines FlattenSeq, as an equation for its function.
Flattens(f, ss, n) == f = [i \in 1..n |-> IF i = 1 THEN ss[i] ELSE f[i - 1] \o ss[i]]

LEMMA FlattensExists == ASSUME NEW ss PROVE \A n \in Nat : \E f : Flattens(f, ss, n)
<1> DEFINE T == {n \in Nat : \E f : Flattens(f, ss, n)}
<1>1. 0 \in T
    <2>1. Flattens([i \in 1..0 |-> 0], ss, 0)
        BY DEF Flattens
    <2> QED BY <2>1
<1>2. ASSUME NEW n \in T PROVE n + 1 \in T
    <2>1. PICK f : Flattens(f, ss, n)
        OBVIOUS
    <2> DEFINE g == [i \in 1..(n + 1) |-> IF i = 1 THEN ss[i] ELSE f[i - 1] \o ss[i]]
    <2>2. ASSUME NEW i \in 1..n PROVE g[i] = f[i]
        <3>1. i \in 1..(n + 1)
            OBVIOUS
        <3>2. f[i] = IF i = 1 THEN ss[i] ELSE f[i - 1] \o ss[i]
            BY <2>1 DEF Flattens
        <3> QED BY <3>1, <3>2
    <2>3. ASSUME NEW i \in 1..(n + 1), i # 1 PROVE g[i] = g[i - 1] \o ss[i]
        <3>1. i - 1 \in 1..n
            BY <2>3
        <3>2. g[i - 1] = f[i - 1]
            BY <2>2, <3>1
        <3>3. g[i] = f[i - 1] \o ss[i]
            BY <2>3
        <3> QED BY <3>2, <3>3
    <2>4. \A i \in 1..(n + 1) : g[i] = IF i = 1 THEN ss[i] ELSE g[i - 1] \o ss[i]
        BY <2>3
    <2>5. DOMAIN g = 1..(n + 1) /\ g = [i \in 1..(n + 1) |-> g[i]]
        OBVIOUS
    <2> HIDE DEF g
    <2>6. Flattens(g, ss, n + 1)
        BY <2>4, <2>5 DEF Flattens
    <2> QED BY <2>6
<1> HIDE DEF T
<1>3. T \in SUBSET Nat
    BY DEF T
<1>4. T = Nat
    BY <1>1, <1>2, <1>3, AllNat
<1> QED BY <1>4 DEF T

LEMMA FlattensUnique ==
    ASSUME NEW ss, NEW n \in Nat, NEW f, NEW g, Flattens(f, ss, n), Flattens(g, ss, n)
    PROVE  \A i \in 1..n : f[i] = g[i]
<1> DEFINE T == {i \in Nat : i \in 1..n => f[i] = g[i]}
<1>1. 0 \in T
    OBVIOUS
<1>2. ASSUME NEW i \in T PROVE i + 1 \in T
    <2>1. SUFFICES ASSUME i + 1 \in 1..n PROVE f[i + 1] = g[i + 1]
        OBVIOUS
    <2>2. /\ f[i + 1] = IF i + 1 = 1 THEN ss[i + 1] ELSE f[(i + 1) - 1] \o ss[i + 1]
          /\ g[i + 1] = IF i + 1 = 1 THEN ss[i + 1] ELSE g[(i + 1) - 1] \o ss[i + 1]
        BY <2>1 DEF Flattens
    <2>3. i + 1 = 1 \/ i \in 1..n
        BY <2>1
    <2>4. (i + 1) - 1 = i
        OBVIOUS
    <2> QED BY <2>2, <2>3, <2>4
<1>3. T \in SUBSET Nat
    OBVIOUS
<1>4. T = Nat
    <2> HIDE DEF T
    <2> QED BY <1>1, <1>2, <1>3, AllNat
<1> QED BY <1>4

\* Any function that satisfies the equation has what FlattenSeq returns at its end.
LEMMA FlattenIs ==
    ASSUME NEW ss, NEW n \in Nat \ {0}, Len(ss) = n, NEW f, Flattens(f, ss, n)
    PROVE  FlattenSeq(ss) = f[n]
<1> DEFINE g == CHOOSE x : Flattens(x, ss, n)
<1>1. FlattenSeq(ss) = g[n]
    BY DEF FlattenSeq, Flattens
<1>2. Flattens(g, ss, n)
    OBVIOUS
<1> HIDE DEF g
<1>3. g[n] = f[n]
    BY <1>2, FlattensUnique
<1> QED BY <1>1, <1>3

LEMMA FlattenEmpty == FlattenSeq(<<>>) = <<>>
BY EmptySeq DEF FlattenSeq

LEMMA FlattenAppend ==
    ASSUME NEW S, NEW ss \in Seq(Seq(S)), NEW x \in Seq(S)
    PROVE  FlattenSeq(Append(ss, x)) = FlattenSeq(ss) \o x
<1> DEFINE n == Len(ss)
<1>1. n \in Nat /\ (n = 0 => ss = <<>>)
    BY EmptySeq, LenProperties
<1>2. /\ Len(Append(ss, x)) = n + 1 /\ Append(ss, x)[n + 1] = x
      /\ \A i \in 1..n : Append(ss, x)[i] = ss[i]
    BY AppendProperties
<1> HIDE DEF n
<1>0. n + 1 \in Nat \ {0}
    BY <1>1
<1>3. PICK f : Flattens(f, Append(ss, x), n + 1)
    BY <1>0, FlattensExists
<1>4. FlattenSeq(Append(ss, x)) = f[n + 1]
    BY <1>0, <1>2, <1>3, FlattenIs
<1>5. CASE n = 0
    <2>1. f[n + 1] = x
        BY <1>2, <1>3, <1>5 DEF Flattens
    <2>2. FlattenSeq(ss) = <<>>
        BY <1>1, <1>5, FlattenEmpty
    <2> QED BY <1>4, <2>1, <2>2, ConcatEmptySeq
<1>6. CASE n # 0
    <2> DEFINE g == [i \in 1..n |-> f[i]]
    <2>1. ASSUME NEW i \in 1..n
          PROVE  f[i] = IF i = 1 THEN ss[i] ELSE f[i - 1] \o ss[i]
        <3>1. i \in 1..(n + 1)
            BY <1>1
        <3>2. f[i] = IF i = 1 THEN Append(ss, x)[i] ELSE f[i - 1] \o Append(ss, x)[i]
            BY <1>3, <3>1 DEF Flattens
        <3> QED BY <1>2, <3>2
    <2>2. \A i \in 1..n : i # 1 => i - 1 \in 1..n
        BY <1>1
    <2>3. Flattens(g, ss, n)
        <3>1. \A i \in 1..n : g[i] = IF i = 1 THEN ss[i] ELSE g[i - 1] \o ss[i]
            BY <2>1, <2>2
        <3>2. g = [i \in 1..n |-> g[i]]
            OBVIOUS
        <3> HIDE DEF g
        <3> QED BY <3>1, <3>2 DEF Flattens
    <2>4. FlattenSeq(ss) = g[n]
        <3> HIDE DEF g
        <3> QED BY <1>1, <1>6, <2>3, FlattenIs DEF n
    <2>5. n \in 1..n /\ n + 1 \in 1..(n + 1) /\ n + 1 # 1 /\ (n + 1) - 1 = n
        BY <1>1, <1>6
    <2>6. f[n + 1] = f[n] \o Append(ss, x)[n + 1]
        BY <1>3, <2>5 DEF Flattens
    <2> QED BY <1>2, <1>4, <2>4, <2>5, <2>6
<1> QED BY <1>5, <1>6

LEMMA FlattenType == ASSUME NEW S PROVE \A ss \in Seq(Seq(S)) : FlattenSeq(ss) \in Seq(S)
<1> DEFINE T == {ss \in Seq(Seq(S)) : FlattenSeq(ss) \in Seq(S)}
<1>1. <<>> \in T
    BY FlattenEmpty, EmptySeq
<1>2. ASSUME NEW ss \in T, NEW x \in Seq(S) PROVE Append(ss, x) \in T
    <2>1. FlattenSeq(Append(ss, x)) = FlattenSeq(ss) \o x
        BY FlattenAppend
    <2> QED BY <2>1, AppendProperties, ConcatProperties
<1>3. T = Seq(Seq(S))
    <2>1. T \in SUBSET Seq(Seq(S))
        OBVIOUS
    <2> HIDE DEF T
    <2> QED BY <1>1, <1>2, <2>1, AllSeq
<1> QED BY <1>3

LEMMA AppendConcat ==
    ASSUME NEW A, NEW s \in Seq(A), NEW t \in Seq(A), NEW e \in A
    PROVE  s \o Append(t, e) = Append(s \o t, e)
<1>1. <<e>> \in Seq(A) /\ s \o t \in Seq(A)
    BY ConcatProperties
<1>2. Append(t, e) = t \o <<e>> /\ Append(s \o t, e) = (s \o t) \o <<e>>
    BY <1>1, AppendIsConcat
<1> QED BY <1>1, <1>2, ConcatAssociative

LEMMA FlattenConcat ==
    ASSUME NEW S, NEW ss \in Seq(Seq(S))
    PROVE  \A tt \in Seq(Seq(S)) : FlattenSeq(ss \o tt) = FlattenSeq(ss) \o FlattenSeq(tt)
<1> DEFINE T == {tt \in Seq(Seq(S)) : FlattenSeq(ss \o tt) = FlattenSeq(ss) \o FlattenSeq(tt)}
<1>1. <<>> \in T
    <2>1. FlattenSeq(ss) \in Seq(S)
        BY FlattenType
    <2>2. ss \o <<>> = ss /\ FlattenSeq(ss) \o <<>> = FlattenSeq(ss) /\ <<>> \in Seq(Seq(S))
        BY <2>1, ConcatEmptySeq, EmptySeq
    <2> QED BY <2>2, FlattenEmpty
<1>2. ASSUME NEW tt \in T, NEW x \in Seq(S) PROVE Append(tt, x) \in T
    <2>1. /\ FlattenSeq(ss) \in Seq(S) /\ FlattenSeq(tt) \in Seq(S) /\ ss \o tt \in Seq(Seq(S))
          /\ Append(tt, x) \in Seq(Seq(S))
        BY FlattenType, ConcatProperties, AppendProperties
    <2>2. ss \o Append(tt, x) = Append(ss \o tt, x)
        BY AppendConcat
    <2>3. FlattenSeq(Append(ss \o tt, x)) = FlattenSeq(ss \o tt) \o x
        BY <2>1, FlattenAppend
    <2>4. FlattenSeq(Append(tt, x)) = FlattenSeq(tt) \o x
        BY FlattenAppend
    <2>5. (FlattenSeq(ss) \o FlattenSeq(tt)) \o x = FlattenSeq(ss) \o (FlattenSeq(tt) \o x)
        BY <2>1, ConcatAssociative
    <2> QED BY <2>1, <2>2, <2>3, <2>4, <2>5
<1>3. T = Seq(Seq(S))
    <2>1. T \in SUBSET Seq(Seq(S))
        OBVIOUS
    <2> HIDE DEF T
    <2> QED BY <1>1, <1>2, <2>1, AllSeq
<1> QED BY <1>3

--------------------------------------------------------------------------------
(* Keep *)

\* What Keep flattens.
Picks(s, S) == [i \in DOMAIN s |-> IF s[i] \in S THEN <<s[i]>> ELSE <<>>]

LEMMA PicksType == ASSUME NEW A, NEW s \in Seq(A), NEW S PROVE Picks(s, S) \in Seq(Seq(A))
<1>1. Len(s) \in Nat /\ DOMAIN s = 1..Len(s) /\ \A i \in 1..Len(s) : s[i] \in A
    BY LenProperties, ElementOfSeq
<1>2. \A x \in A : <<x>> \in Seq(A)
    OBVIOUS
<1>3. Picks(s, S) \in [1..Len(s) -> Seq(A)]
    BY <1>1, <1>2, EmptySeq DEF Picks
<1> QED BY <1>1, <1>3, SeqDef

LEMMA KeepType == ASSUME NEW A, NEW s \in Seq(A), NEW S PROVE Keep(s, S) \in Seq(A)
BY PicksType, FlattenType DEF Keep, Picks

LEMMA KeepEmpty == ASSUME NEW S PROVE Keep(<<>>, S) = <<>>
<1>1. Picks(<<>>, S) = <<>>
    BY DEF Picks
<1> QED BY <1>1, FlattenEmpty DEF Keep, Picks

LEMMA KeepAppend ==
    ASSUME NEW A, NEW s \in Seq(A), NEW e \in A, NEW S
    PROVE  Keep(Append(s, e), S) = IF e \in S THEN Append(Keep(s, S), e) ELSE Keep(s, S)
<1> DEFINE pick == IF e \in S THEN <<e>> ELSE <<>>
<1>1. Picks(s, S) \in Seq(Seq(A)) /\ pick \in Seq(A) /\ Picks(Append(s, e), S) \in Seq(Seq(A))
    <2>1. <<e>> \in Seq(A) /\ <<>> \in Seq(A)
        OBVIOUS
    <2>2. Append(s, e) \in Seq(A)
        BY AppendProperties
    <2> QED BY <2>1, <2>2, PicksType
<1>2. Picks(Append(s, e), S) = Append(Picks(s, S), pick)
    <2>1. /\ Len(s) \in Nat /\ DOMAIN s = 1..Len(s) /\ DOMAIN Append(s, e) = 1..(Len(s) + 1)
          /\ Append(s, e)[Len(s) + 1] = e
          /\ \A i \in 1..Len(s) : Append(s, e)[i] = s[i]
        BY LenProperties, AppendProperties
    <2>2. DOMAIN Picks(s, S) = 1..Len(s)
        BY <2>1 DEF Picks
    <2>3. Len(Picks(s, S)) = Len(s)
        BY <1>1, <2>1, <2>2, LenProperties
    <2> DEFINE long == Append(Picks(s, S), pick)
    <2>4. /\ long \in Seq(Seq(A)) /\ Len(long) = Len(s) + 1 /\ long[Len(s) + 1] = pick
          /\ \A i \in 1..Len(s) : long[i] = Picks(s, S)[i]
        BY <1>1, <2>3, AppendProperties
    <2>5. Len(Picks(Append(s, e), S)) = Len(s) + 1
        BY <1>1, <2>1, LenProperties DEF Picks
    <2>6. ASSUME NEW i \in 1..(Len(s) + 1)
          PROVE  Picks(Append(s, e), S)[i] = long[i]
        <3>1. CASE i = Len(s) + 1
            BY <2>1, <2>4, <3>1 DEF Picks
        <3>2. CASE i # Len(s) + 1
            <4>1. i \in 1..Len(s)
                BY <2>1, <3>2
            <4>2. Picks(Append(s, e), S)[i] = Picks(s, S)[i]
                BY <2>1, <4>1 DEF Picks
            <4> QED BY <2>4, <4>1, <4>2
        <3> QED BY <3>1, <3>2
    <2> HIDE DEF long, pick
    <2>7. Picks(Append(s, e), S) = long
        BY <1>1, <2>4, <2>5, <2>6, SeqEqual
    <2> QED BY <2>7 DEF long
<1>3. Keep(Append(s, e), S) = Keep(s, S) \o pick
    <2> HIDE DEF pick
    <2>1. FlattenSeq(Append(Picks(s, S), pick)) = FlattenSeq(Picks(s, S)) \o pick
        BY <1>1, FlattenAppend
    <2> QED BY <1>2, <2>1 DEF Keep, Picks
<1>4. Keep(s, S) \in Seq(A)
    BY KeepType
<1>5. Keep(s, S) \o <<>> = Keep(s, S) /\ Keep(s, S) \o <<e>> = Append(Keep(s, S), e)
    BY <1>4, ConcatEmptySeq, AppendIsConcat
<1> QED BY <1>3, <1>5

LEMMA KeepConcat ==
    ASSUME NEW A, NEW s \in Seq(A), NEW S
    PROVE  \A t \in Seq(A) : Keep(s \o t, S) = Keep(s, S) \o Keep(t, S)
<1> DEFINE T == {t \in Seq(A) : Keep(s \o t, S) = Keep(s, S) \o Keep(t, S)}
<1>0. Keep(s, S) \in Seq(A)
    BY KeepType
<1>1. <<>> \in T
    BY <1>0, EmptySeq, ConcatEmptySeq, KeepEmpty
<1>2. ASSUME NEW t \in T, NEW e \in A PROVE Append(t, e) \in T
    <2>1. /\ Append(t, e) \in Seq(A) /\ s \o t \in Seq(A) /\ Keep(t, S) \in Seq(A)
          /\ s \o Append(t, e) = Append(s \o t, e)
        BY AppendProperties, ConcatProperties, KeepType, AppendConcat
    <2>2. Keep(Append(s \o t, e), S) = IF e \in S THEN Append(Keep(s \o t, S), e) ELSE Keep(s \o t, S)
        <3>1. \A r \in Seq(A) :
                 Keep(Append(r, e), S) = IF e \in S THEN Append(Keep(r, S), e) ELSE Keep(r, S)
            BY KeepAppend
        <3> QED BY <2>1, <3>1
    <2>3. Keep(Append(t, e), S) = IF e \in S THEN Append(Keep(t, S), e) ELSE Keep(t, S)
        BY KeepAppend
    <2>4. Keep(s, S) \o Append(Keep(t, S), e) = Append(Keep(s, S) \o Keep(t, S), e)
        BY <1>0, <2>1, AppendConcat
    <2> QED BY <2>1, <2>2, <2>3, <2>4
<1>3. T = Seq(A)
    <2>1. T \in SUBSET Seq(A)
        OBVIOUS
    <2> HIDE DEF T
    <2> QED BY <1>1, <1>2, <2>1, AllSeq
<1> QED BY <1>3

\* The elements of a sequence.
Elems(s) == {s[i] : i \in 1..Len(s)}

LEMMA ElemsEmpty == Elems(<<>>) = {}
BY EmptySeq DEF Elems

LEMMA ElemsAppend ==
    ASSUME NEW A, NEW s \in Seq(A), NEW e \in A
    PROVE  Elems(Append(s, e)) = Elems(s) \cup {e}
<1>1. /\ Len(s) \in Nat /\ Len(Append(s, e)) = Len(s) + 1 /\ Append(s, e)[Len(s) + 1] = e
      /\ \A i \in 1..Len(s) : Append(s, e)[i] = s[i]
    BY LenProperties, AppendProperties
<1>2. 1..(Len(s) + 1) = 1..Len(s) \cup {Len(s) + 1}
    BY <1>1
<1> QED BY <1>1, <1>2 DEF Elems

\* Keep loses nothing that is in the set, and adds nothing.
LEMMA KeepElems ==
    ASSUME NEW A, NEW S
    PROVE  \A s \in Seq(A) : Elems(Keep(s, S)) = Elems(s) \cap S
<1> DEFINE T == {s \in Seq(A) : Elems(Keep(s, S)) = Elems(s) \cap S}
<1>1. <<>> \in T
    BY KeepEmpty, ElemsEmpty, EmptySeq
<1>2. ASSUME NEW s \in T, NEW e \in A PROVE Append(s, e) \in T
    <2>1. Append(s, e) \in Seq(A) /\ Keep(s, S) \in Seq(A)
        BY AppendProperties, KeepType
    <2>2. Keep(Append(s, e), S) = IF e \in S THEN Append(Keep(s, S), e) ELSE Keep(s, S)
        BY KeepAppend
    <2>3. /\ Elems(Append(s, e)) = Elems(s) \cup {e}
          /\ Elems(Append(Keep(s, S), e)) = Elems(Keep(s, S)) \cup {e}
        BY <2>1, ElemsAppend
    <2> QED BY <2>1, <2>2, <2>3
<1>3. T = Seq(A)
    <2>1. T \in SUBSET Seq(A)
        OBVIOUS
    <2> HIDE DEF T
    <2> QED BY <1>1, <1>2, <2>1, AllSeq
<1> QED BY <1>3

\* The elements before the n-th.
ElemsBefore(s, n) == {s[i] : i \in 1..(n - 1)}

LEMMA EarlierSame ==
    ASSUME NEW s, NEW t, NEW n \in Nat, \A i \in 1..(n - 1) : s[i] = t[i]
    PROVE  ElemsBefore(s, n) = ElemsBefore(t, n)
BY DEF ElemsBefore

\* One of them is at a place before the n-th.
LEMMA EarlierAt ==
    ASSUME NEW s, NEW n, NEW e, e \in ElemsBefore(s, n)
    PROVE  \E i \in 1..(n - 1) : e = s[i]
BY Zenon DEF ElemsBefore

LEMMA EarlierAll ==
    ASSUME NEW s, NEW n \in Nat, Len(s) = n
    PROVE  ElemsBefore(s, n + 1) = Elems(s)
<1>1. (n + 1) - 1 = Len(s)
    OBVIOUS
<1> QED BY <1>1, Zenon DEF ElemsBefore, Elems

\* Keep leaves the elements in their order: what stands before one that is kept are those
\* kept of what stood before it.
LEMMA KeepOrder ==
    ASSUME NEW A, NEW S
    PROVE  \A s \in Seq(A) : \A i \in 1..Len(Keep(s, S)) : \E f \in 1..Len(s) :
              Keep(s, S)[i] = s[f] /\ ElemsBefore(Keep(s, S), i) = ElemsBefore(s, f) \cap S
<1> DEFINE T == {s \in Seq(A) : \A i \in 1..Len(Keep(s, S)) : \E f \in 1..Len(s) :
                    Keep(s, S)[i] = s[f] /\ ElemsBefore(Keep(s, S), i) = ElemsBefore(s, f) \cap S}
<1>1. <<>> \in T
    BY KeepEmpty, EmptySeq
<1>2. ASSUME NEW s \in T, NEW e \in A PROVE Append(s, e) \in T
    <2> DEFINE l == Append(s, e)
               k == Keep(s, S)
               r == Keep(l, S)
    <2>0. s \in Seq(A)
        OBVIOUS
    <2>1. l \in Seq(A) /\ k \in Seq(A) /\ Len(s) \in Nat /\ Len(k) \in Nat
        BY <2>0, AppendProperties, KeepType, LenProperties
    <2>2. r = IF e \in S THEN Append(k, e) ELSE k
        BY <2>0, KeepAppend
    <2>3. Elems(k) = Elems(s) \cap S
        BY <2>0, KeepElems
    <2>4. \A i \in 1..Len(k) : \E f \in 1..Len(s) : k[i] = s[f] /\ ElemsBefore(k, i) = ElemsBefore(s, f) \cap S
        OBVIOUS
    <2>5. Len(l) = Len(s) + 1 /\ l[Len(s) + 1] = e /\ \A i \in 1..Len(s) : l[i] = s[i]
        BY <2>0, AppendProperties
    <2>6. e \in S => Len(r) = Len(k) + 1 /\ r[Len(k) + 1] = e /\ \A i \in 1..Len(k) : r[i] = k[i]
        BY <2>1, <2>2, AppendProperties
    <2> HIDE DEF l, k, r
    <2>7. \A f \in 1..Len(s) : ElemsBefore(l, f) = ElemsBefore(s, f)
        <3> SUFFICES ASSUME NEW f \in 1..Len(s) PROVE ElemsBefore(l, f) = ElemsBefore(s, f)
            OBVIOUS
        <3>1. f \in Nat /\ \A i \in 1..(f - 1) : l[i] = s[i]
            BY <2>1, <2>5
        <3> QED BY <3>1, EarlierSame
    <2>8. \A i \in 1..Len(k) : r[i] = k[i] /\ ElemsBefore(r, i) = ElemsBefore(k, i)
        <3>1. \A i \in 1..Len(k) : r[i] = k[i]
            BY <2>2, <2>6
        <3>2. ASSUME NEW i \in 1..Len(k) PROVE ElemsBefore(r, i) = ElemsBefore(k, i)
            <4>1. i \in Nat /\ \A n \in 1..(i - 1) : r[n] = k[n]
                BY <2>1, <3>1
            <4> QED BY <4>1, EarlierSame
        <3> QED BY <3>1, <3>2
    <2>9. \A i \in 1..Len(k) : \E f \in 1..Len(l) : r[i] = l[f] /\ ElemsBefore(r, i) = ElemsBefore(l, f) \cap S
        <3> SUFFICES ASSUME NEW i \in 1..Len(k)
                     PROVE  \E f \in 1..Len(l) : r[i] = l[f] /\ ElemsBefore(r, i) = ElemsBefore(l, f) \cap S
            OBVIOUS
        <3>1. PICK f \in 1..Len(s) : k[i] = s[f] /\ ElemsBefore(k, i) = ElemsBefore(s, f) \cap S
            BY <2>4
        <3>2. f \in 1..Len(l)
            BY <2>1, <2>5
        <3>3. r[i] = l[f] /\ ElemsBefore(r, i) = ElemsBefore(l, f) \cap S
            BY <2>5, <2>7, <2>8, <3>1
        <3> QED BY <3>2, <3>3
    <2>10. ASSUME NEW i \in 1..Len(r)
           PROVE  \E f \in 1..Len(l) : r[i] = l[f] /\ ElemsBefore(r, i) = ElemsBefore(l, f) \cap S
        <3>1. CASE i \in 1..Len(k)
            BY <2>9, <3>1
        <3>2. CASE i \notin 1..Len(k)
            <4>1. e \in S /\ i = Len(k) + 1
                BY <2>1, <2>2, <2>6, <3>2
            <4>2. ElemsBefore(r, Len(k) + 1) = Elems(k)
                <5>1. Len(k) + 1 \in Nat /\ \A n \in 1..((Len(k) + 1) - 1) : r[n] = k[n]
                    BY <2>1, <2>8
                <5> QED BY <2>1, <5>1, EarlierSame, EarlierAll
            <4>3. ElemsBefore(l, Len(s) + 1) = Elems(s)
                <5>1. Len(s) + 1 \in Nat /\ \A n \in 1..((Len(s) + 1) - 1) : l[n] = s[n]
                    BY <2>1, <2>5
                <5> QED BY <2>1, <5>1, EarlierSame, EarlierAll
            <4>4. Len(s) + 1 \in 1..Len(l) /\ r[i] = l[Len(s) + 1]
                BY <2>1, <2>5, <2>6, <4>1
            <4> QED BY <2>3, <4>1, <4>2, <4>3, <4>4
        <3> QED BY <3>1, <3>2
    <2> QED BY <2>1, <2>10 DEF l, r
<1>3. T = Seq(A)
    <2>1. T \in SUBSET Seq(A)
        OBVIOUS
    <2> HIDE DEF T
    <2> QED BY <1>1, <1>2, <2>1, AllSeq
<1> QED BY <1>3

\* No element twice.
Once(s) == \A i, k \in 1..Len(s) : s[i] = s[k] => i = k

LEMMA OnceAppend ==
    ASSUME NEW A, NEW s \in Seq(A), NEW e \in A
    PROVE  Once(Append(s, e)) <=> Once(s) /\ e \notin Elems(s)
<1> DEFINE l == Append(s, e)
<1>1. /\ Len(s) \in Nat /\ Len(l) = Len(s) + 1 /\ l[Len(s) + 1] = e
      /\ \A i \in 1..Len(s) : l[i] = s[i]
    BY LenProperties, AppendProperties
<1> HIDE DEF l
<1>2. 1..(Len(s) + 1) = 1..Len(s) \cup {Len(s) + 1} /\ Len(s) + 1 \notin 1..Len(s)
    BY <1>1
<1>3. ASSUME Once(l) PROVE Once(s) /\ e \notin Elems(s)
    BY <1>1, <1>2, <1>3 DEF Once, Elems
<1>4. ASSUME Once(s), e \notin Elems(s) PROVE Once(l)
    BY <1>1, <1>2, <1>4 DEF Once, Elems
<1> QED BY <1>3, <1>4 DEF l

LEMMA KeepOnce ==
    ASSUME NEW A, NEW S
    PROVE  \A s \in Seq(A) : Once(s) => Once(Keep(s, S))
<1> DEFINE T == {s \in Seq(A) : Once(s) => Once(Keep(s, S))}
<1>1. <<>> \in T
    BY KeepEmpty, EmptySeq DEF Once
<1>2. ASSUME NEW s \in T, NEW e \in A PROVE Append(s, e) \in T
    <2>1. Append(s, e) \in Seq(A) /\ Keep(s, S) \in Seq(A)
        BY AppendProperties, KeepType
    <2>2. Keep(Append(s, e), S) = IF e \in S THEN Append(Keep(s, S), e) ELSE Keep(s, S)
        BY KeepAppend
    <2>3. Elems(Keep(s, S)) = Elems(s) \cap S
        BY KeepElems
    <2>4. /\ Once(Append(s, e)) <=> Once(s) /\ e \notin Elems(s)
          /\ Once(Append(Keep(s, S), e)) <=> Once(Keep(s, S)) /\ e \notin Elems(Keep(s, S))
        BY <2>1, OnceAppend
    <2> QED BY <2>1, <2>2, <2>3, <2>4
<1>3. T = Seq(A)
    <2>1. T \in SUBSET Seq(A)
        OBVIOUS
    <2> HIDE DEF T
    <2> QED BY <1>1, <1>2, <2>1, AllSeq
<1> QED BY <1>3

LEMMA OnceLen ==
    ASSUME NEW A
    PROVE  \A s \in Seq(A) : Once(s) => IsFiniteSet(Elems(s)) /\ Cardinality(Elems(s)) = Len(s)
<1> DEFINE T == {s \in Seq(A) : Once(s) => IsFiniteSet(Elems(s)) /\ Cardinality(Elems(s)) = Len(s)}
<1>1. <<>> \in T
    BY ElemsEmpty, EmptySeq, FS_EmptySet
<1>2. ASSUME NEW s \in T, NEW e \in A PROVE Append(s, e) \in T
    <2>1. Append(s, e) \in Seq(A) /\ Len(Append(s, e)) = Len(s) + 1
        BY AppendProperties
    <2>2. Elems(Append(s, e)) = Elems(s) \cup {e}
        BY ElemsAppend
    <2>3. Once(Append(s, e)) <=> Once(s) /\ e \notin Elems(s)
        BY OnceAppend
    <2>4. SUFFICES ASSUME Once(s), e \notin Elems(s)
                   PROVE  /\ IsFiniteSet(Elems(s) \cup {e})
                          /\ Cardinality(Elems(s) \cup {e}) = Len(s) + 1
        BY <2>1, <2>2, <2>3
    <2>5. IsFiniteSet(Elems(s)) /\ Cardinality(Elems(s)) = Len(s)
        BY <2>4
    <2> QED BY <2>4, <2>5, FS_AddElement
<1>3. T = Seq(A)
    <2>1. T \in SUBSET Seq(A)
        OBVIOUS
    <2> HIDE DEF T
    <2> QED BY <1>1, <1>2, <2>1, AllSeq
<1> QED BY <1>3

\* What Keep returns depends only on which of the elements are in the set.
LEMMA KeepSame ==
    ASSUME NEW A, NEW s \in Seq(A), NEW S, NEW R, Elems(s) \cap S = Elems(s) \cap R
    PROVE  Keep(s, S) = Keep(s, R)
<1>1. DOMAIN s = 1..Len(s)
    BY LenProperties
<1>2. \A i \in DOMAIN s : s[i] \in S <=> s[i] \in R
    BY <1>1 DEF Elems
<1>3. Picks(s, S) = Picks(s, R)
    BY <1>2 DEF Picks
<1> QED BY <1>3 DEF Keep, Picks

LEMMA KeepNone ==
    ASSUME NEW A, NEW s \in Seq(A), NEW S, Elems(s) \cap S = {}
    PROVE  Keep(s, S) = <<>>
<1>1. Keep(s, S) \in Seq(A) /\ Elems(Keep(s, S)) = {}
    BY KeepType, KeepElems
<1>2. Len(Keep(s, S)) \in Nat
    BY <1>1, LenProperties
<1>3. Len(Keep(s, S)) = 0
    BY <1>1, <1>2 DEF Elems
<1> QED BY <1>1, <1>3, EmptySeq

LEMMA KeepKeep ==
    ASSUME NEW A, NEW S, NEW R, NEW Q, Q = S \cap R
    PROVE  \A s \in Seq(A) : Keep(Keep(s, S), R) = Keep(s, Q)
<1> DEFINE T == {s \in Seq(A) : Keep(Keep(s, S), R) = Keep(s, Q)}
<1>1. <<>> \in T
    BY KeepEmpty, EmptySeq
<1>2. ASSUME NEW s \in T, NEW e \in A PROVE Append(s, e) \in T
    <2>1. Append(s, e) \in Seq(A) /\ Keep(s, S) \in Seq(A)
        BY AppendProperties, KeepType
    <2>0. SUFFICES Keep(Keep(Append(s, e), S), R) = Keep(Append(s, e), Q)
        BY <2>1, Zenon
    <2>2. /\ Keep(Append(s, e), S) = IF e \in S THEN Append(Keep(s, S), e) ELSE Keep(s, S)
          /\ Keep(Append(s, e), Q) =
                IF e \in Q THEN Append(Keep(s, Q), e) ELSE Keep(s, Q)
        BY KeepAppend
    <2>3. Keep(Append(Keep(s, S), e), R) =
            IF e \in R THEN Append(Keep(Keep(s, S), R), e) ELSE Keep(Keep(s, S), R)
        <3>1. \A r \in Seq(A) :
                 Keep(Append(r, e), R) = IF e \in R THEN Append(Keep(r, R), e) ELSE Keep(r, R)
            BY KeepAppend
        <3> DEFINE k == Keep(s, S)
        <3>2. k \in Seq(A)
            BY <2>1
        <3> HIDE DEF k
        <3>3. Keep(Append(k, e), R) = IF e \in R THEN Append(Keep(k, R), e) ELSE Keep(k, R)
            BY <3>1, <3>2
        <3> QED BY <3>3 DEF k
    <2>4. Keep(Keep(s, S), R) = Keep(s, Q)
        OBVIOUS
    <2>5. CASE e \in S
        <3>1. Keep(Append(s, e), S) = Append(Keep(s, S), e)
            BY <2>2, <2>5
        <3>2. Keep(Keep(Append(s, e), S), R) =
                 IF e \in R THEN Append(Keep(s, Q), e) ELSE Keep(s, Q)
            BY <2>3, <2>4, <3>1, Zenon
        <3>3. Keep(Append(s, e), Q) =
                 IF e \in R THEN Append(Keep(s, Q), e) ELSE Keep(s, Q)
            BY <2>2, <2>5
        <3> QED BY <3>2, <3>3, Zenon
    <2>6. CASE e \notin S
        <3>1. Keep(Append(s, e), S) = Keep(s, S)
            BY <2>2, <2>6
        <3>2. Keep(Append(s, e), Q) = Keep(s, Q)
            BY <2>2, <2>6
        <3> QED BY <2>4, <3>1, <3>2, Zenon
    <2> QED BY <2>0, <2>5, <2>6
<1>3. T = Seq(A)
    <2>1. T \in SUBSET Seq(A)
        OBVIOUS
    <2> HIDE DEF T
    <2> QED BY <1>1, <1>2, <2>1, AllSeq
<1> QED BY <1>3

--------------------------------------------------------------------------------
(* A sequence around one of its places *)

Before(s, i) == SubSeq(s, 1, i - 1)
Behind(s, i) == SubSeq(s, i + 1, Len(s))

LEMMA SplitAt ==
    ASSUME NEW A, NEW s \in Seq(A), NEW i \in 1..Len(s)
    PROVE  /\ Before(s, i) \in Seq(A) /\ Behind(s, i) \in Seq(A)
           /\ s = Before(s, i) \o (<<s[i]>> \o Behind(s, i))
           /\ \A x \in Elems(Before(s, i)) : \E k \in 1..(i - 1) : x = s[k]
           /\ \A x \in Elems(Behind(s, i)) : \E k \in (i + 1)..Len(s) : x = s[k]
<1> DEFINE n == Len(s)
<1>1. n \in Nat /\ \A k \in 1..n : s[k] \in A
    BY LenProperties, ElementOfSeq
<1>2. /\ Before(s, i) \in Seq(A) /\ Len(Before(s, i)) = IF 1 <= i - 1 THEN i - 1 - 1 + 1 ELSE 0
      /\ \A k \in 1..(i - 1 - 1 + 1) : Before(s, i)[k] = s[1 + k - 1]
    BY <1>1, SubSeqProperties DEF Before
<1>3. /\ Behind(s, i) \in Seq(A)
      /\ Len(Behind(s, i)) = IF i + 1 <= n THEN n - (i + 1) + 1 ELSE 0
      /\ \A k \in 1..(n - (i + 1) + 1) : Behind(s, i)[k] = s[(i + 1) + k - 1]
    BY <1>1, SubSeqProperties DEF Behind
<1>4. s = Before(s, i) \o (<<s[i]>> \o Behind(s, i))
    <2>1. SubSeq(s, 1, n) = s
        BY SubSeqFull
    <2>2. SubSeq(s, i, n) = <<s[i]>> \o SubSeq(s, i + 1, n)
        BY <1>1, SubSeqRecursiveFirst
    <2>3. /\ 1 \in 1..(n + 1) /\ i - 1 \in (1 - 1)..n /\ n \in (i - 1)..n
          /\ (i - 1) + 1 = i
        BY <1>1
    <2>4. SubSeq(s, 1, i - 1) \o SubSeq(s, (i - 1) + 1, n) = SubSeq(s, 1, n)
        BY <2>3, ConcatAdjacentSubSeq
    <2> QED BY <2>1, <2>2, <2>3, <2>4 DEF Before, Behind
<1> HIDE DEF n
<1>5. \A x \in Elems(Before(s, i)) : \E k \in 1..(i - 1) : x = s[k]
    <2>1. Len(Before(s, i)) = i - 1
        BY <1>1, <1>2 DEF n
    <2>2. \A k \in 1..(i - 1) : Before(s, i)[k] = s[k]
        BY <1>2
    <2> QED BY <2>1, <2>2 DEF Elems
<1>6. \A x \in Elems(Behind(s, i)) : \E k \in (i + 1)..n : x = s[k]
    <2>1. Len(Behind(s, i)) = n - i
        BY <1>1, <1>3 DEF n
    <2>2. \A k \in 1..(n - i) : Behind(s, i)[k] = s[k + i]
        BY <1>1, <1>3 DEF n
    <2>3. \A k \in 1..(n - i) : k + i \in (i + 1)..n
        BY <1>1 DEF n
    <2> QED BY <2>1, <2>2, <2>3 DEF Elems
<1> QED BY <1>2, <1>3, <1>4, <1>5, <1>6 DEF n

LEMMA KeepSplit ==
    ASSUME NEW A, NEW s \in Seq(A), NEW i \in 1..Len(s), NEW S
    PROVE  /\ s[i] \in S => Keep(s, S) = Keep(Before(s, i), S) \o (<<s[i]>> \o Keep(Behind(s, i), S))
           /\ s[i] \notin S => Keep(s, S) = Keep(Before(s, i), S) \o Keep(Behind(s, i), S)
<1> DEFINE l == Before(s, i)
           r == Behind(s, i)
           one == <<s[i]>>
           tail == one \o r
<1>1. /\ l \in Seq(A) /\ r \in Seq(A) /\ s = l \o tail
    BY SplitAt
<1>2. s[i] \in A /\ one \in Seq(A) /\ one = Append(<<>>, s[i])
    BY ElementOfSeq
<1>3. Keep(one, S) = IF s[i] \in S THEN Append(Keep(<<>>, S), s[i]) ELSE Keep(<<>>, S)
    <2>1. <<>> \in Seq(A)
        BY EmptySeq
    <2>2. Keep(Append(<<>>, s[i]), S) = IF s[i] \in S THEN Append(Keep(<<>>, S), s[i]) ELSE Keep(<<>>, S)
        BY <1>2, <2>1, KeepAppend
    <2> QED BY <1>2, <2>2, Zenon
<1>4. Keep(one, S) = IF s[i] \in S THEN <<s[i]>> ELSE <<>>
    BY <1>2, <1>3, KeepEmpty
<1> HIDE DEF l, r, one
<1>5. tail \in Seq(A) /\ Keep(tail, S) = Keep(one, S) \o Keep(r, S)
    <2>1. \A x \in Seq(A) : Keep(one \o x, S) = Keep(one, S) \o Keep(x, S)
        <3>1. one \in Seq(A)
            BY <1>2
        <3> QED BY <3>1, KeepConcat
    <2> QED BY <1>1, <1>2, <2>1, ConcatProperties
<1> HIDE DEF tail
<1>6. Keep(s, S) = Keep(l, S) \o Keep(tail, S)
    <2>1. \A x \in Seq(A) : Keep(l \o x, S) = Keep(l, S) \o Keep(x, S)
        BY <1>1, KeepConcat
    <2>2. Keep(l \o tail, S) = Keep(l, S) \o Keep(tail, S)
        BY <1>5, <2>1
    <2> QED BY <1>1, <2>2, Zenon
<1>7. <<>> \o Keep(r, S) = Keep(r, S)
    BY <1>1, KeepType, ConcatEmptySeq
<1> QED BY <1>4, <1>5, <1>6, <1>7 DEF l, r

--------------------------------------------------------------------------------
(* Short sequences, and a sequence piece by piece *)

LEMMA Single == ASSUME NEW S PROVE \A x \in S : <<x>> \in Seq(S)
OBVIOUS

LEMMA Pair ==
    ASSUME NEW S, NEW x \in S, NEW y \in S
    PROVE  <<x, y>> \in Seq(S) /\ <<x>> \o <<y>> = <<x, y>> /\ Append(<<x>>, y) = <<x, y>>
<1> DEFINE l == <<x>> \o <<y>>
           r == <<x, y>>
<1>1. l \in Seq(S) /\ r \in Seq(S) /\ <<x>> \in Seq(S)
    OBVIOUS
<1>2. Len(l) = 2 /\ Len(r) = 2
    OBVIOUS
<1>3. l[1] = x /\ l[2] = y
    BY ConcatProperties
<1>4. r[1] = x /\ r[2] = y
    OBVIOUS
<1>5. \A i \in 1..2 : l[i] = r[i]
    BY <1>3, <1>4
<1>6. Append(<<x>>, y) = l
    BY <1>1, AppendIsConcat
<1> HIDE DEF l, r
<1> QED BY <1>1, <1>2, <1>5, <1>6, SeqEqual DEF l, r

LEMMA PairBehind ==
    ASSUME NEW S, NEW t \in Seq(S), NEW x \in S, NEW y \in S
    PROVE  t \o <<x, y>> = (t \o <<x>>) \o <<y>>
<1>1. <<x>> \in Seq(S) /\ <<y>> \in Seq(S)
    OBVIOUS
<1>2. \A a, b \in Seq(S) : t \o (a \o b) = (t \o a) \o b
    BY ConcatAssociative
<1>3. t \o (<<x>> \o <<y>>) = (t \o <<x>>) \o <<y>>
    BY <1>1, <1>2, Zenon
<1>4. <<x>> \o <<y>> = <<x, y>>
    BY Pair
<1> QED BY <1>3, <1>4, Zenon

LEMMA ConcatBehind ==
    ASSUME NEW S, NEW t \in Seq(S)
    PROVE  \A x, y \in Seq(S) : t \o (x \o y) = (t \o x) \o y
BY ConcatAssociative

LEMMA HeadConcat ==
    ASSUME NEW S, NEW s \in Seq(S), NEW t \in Seq(S), Len(s) >= 1
    PROVE  s \o t \in Seq(S) /\ Len(s \o t) >= 1 /\ (s \o t)[1] = s[1]
<1>1. Len(s) \in Nat /\ Len(t) \in Nat
    BY LenProperties
<1>2. s \o t \in Seq(S) /\ Len(s \o t) = Len(s) + Len(t)
    BY ConcatProperties
<1>3. (s \o t)[1] = s[1]
    <2>1. 1 \in 1..Len(s)
        BY <1>1
    <2>2. \A i \in 1..Len(s) : (s \o t)[i] = s[i]
        BY <1>1, ConcatProperties
    <2> QED BY <2>1, <2>2
<1> QED BY <1>1, <1>2, <1>3

\* A nonempty set of naturals below a bound has a greatest element.
LEMMA GreatestNat ==
    ASSUME NEW n \in Nat, NEW T \in SUBSET (1..n), T # {}
    PROVE  \E x \in T : \A y \in T : x >= y
<1> DEFINE R == {n - x : x \in T}
<1>1. R \in SUBSET Nat /\ R # {}
    <2>1. \A x \in T : x \in 1..n /\ n - x \in Nat
        OBVIOUS
    <2>2. PICK x \in T : TRUE
        OBVIOUS
    <2>3. n - x \in R
        OBVIOUS
    <2> QED BY <2>1, <2>3
<1>2. PICK r \in R : \A y \in R : r <= y
    <2> HIDE DEF R
    <2> QED BY <1>1, LeastNat
<1>3. PICK x \in T : r = n - x
    OBVIOUS
<1>4. ASSUME NEW y \in T PROVE x >= y
    <2>1. n - y \in R
        OBVIOUS
    <2>2. n - x <= n - y
        BY <1>2, <1>3, <2>1
    <2>3. x \in 1..n /\ y \in 1..n
        OBVIOUS
    <2> HIDE DEF R
    <2> QED BY <2>2, <2>3
<1> QED BY <1>4

\* The first n pieces, put together.
Upto(w, n) == FlattenSeq([i \in 1..n |-> w[i]])

LEMMA UptoNone == ASSUME NEW w PROVE Upto(w, 0) = <<>>
<1>1. [i \in 1..0 |-> w[i]] = <<>>
    OBVIOUS
<1> QED BY <1>1, FlattenEmpty DEF Upto

LEMMA UptoType ==
    ASSUME NEW S, NEW w, NEW n \in Nat, \A i \in 1..n : w[i] \in Seq(S)
    PROVE  Upto(w, n) \in Seq(S)
<1>1. [i \in 1..n |-> w[i]] \in Seq(Seq(S))
    <2>1. [i \in 1..n |-> w[i]] \in [1..n -> Seq(S)]
        OBVIOUS
    <2> QED BY <2>1, SeqDef
<1> QED BY <1>1, FlattenType DEF Upto

LEMMA UptoNext ==
    ASSUME NEW S, NEW w, NEW n \in Nat, \A i \in 1..(n + 1) : w[i] \in Seq(S)
    PROVE  Upto(w, n + 1) = Upto(w, n) \o w[n + 1]
<1> DEFINE s == [i \in 1..n |-> w[i]]
           longer == [i \in 1..(n + 1) |-> w[i]]
           wanted == Append(s, w[n + 1])
<1>1. n + 1 \in 1..(n + 1) /\ w[n + 1] \in Seq(S) /\ \A i \in 1..n : i \in 1..(n + 1)
    OBVIOUS
<1>2. s \in [1..n -> Seq(S)] /\ longer \in [1..(n + 1) -> Seq(S)]
    BY <1>1
<1>3. s \in Seq(Seq(S)) /\ longer \in Seq(Seq(S))
    BY <1>2, SeqDef
<1>4. Len(s) = n /\ Len(longer) = n + 1
    BY <1>3, LenProperties
<1>5. /\ \A i \in 1..n : s[i] = w[i]
      /\ \A i \in 1..(n + 1) : longer[i] = w[i]
    OBVIOUS
<1>6. /\ wanted \in Seq(Seq(S)) /\ Len(wanted) = n + 1 /\ wanted[n + 1] = w[n + 1]
      /\ \A i \in 1..n : wanted[i] = s[i]
    <2> HIDE DEF s
    <2> QED BY <1>1, <1>3, <1>4, AppendProperties
<1>7. ASSUME NEW i \in 1..(n + 1) PROVE longer[i] = wanted[i]
    <2>1. i = n + 1 \/ i \in 1..n
        OBVIOUS
    <2> HIDE DEF s, longer, wanted
    <2> QED BY <1>5, <1>6, <2>1
<1>8. FlattenSeq(wanted) = FlattenSeq(s) \o w[n + 1]
    <2> HIDE DEF s
    <2> QED BY <1>1, <1>3, FlattenAppend
<1>9. Upto(w, n + 1) = FlattenSeq(longer) /\ Upto(w, n) = FlattenSeq(s)
    BY DEF Upto
<1> HIDE DEF s, longer, wanted
<1>10. longer = wanted
    BY <1>3, <1>4, <1>6, <1>7, SeqEqual
<1> QED BY <1>8, <1>9, <1>10

LEMMA UptoAll ==
    ASSUME NEW n \in Nat, NEW w, w = [i \in 1..n |-> w[i]]
    PROVE  FlattenSeq(w) = Upto(w, n)
BY DEF Upto

\* What is put together begins as its first piece does.
LEMMA UptoFirst ==
    ASSUME NEW S, NEW w, NEW n \in Nat, \A i \in 1..n : w[i] \in Seq(S), n >= 1, Len(w[1]) >= 1
    PROVE  Upto(w, n) \in Seq(S) /\ Len(Upto(w, n)) >= 1 /\ Upto(w, n)[1] = w[1][1]
<1> DEFINE Good(k) == Upto(w, k) \in Seq(S) /\ Len(Upto(w, k)) >= 1 /\ Upto(w, k)[1] = w[1][1]
           T == {k \in Nat : k \in 1..n => Good(k)}
<1>1. 0 \in T
    OBVIOUS
<1>2. ASSUME NEW k \in T PROVE k + 1 \in T
    <2>1. SUFFICES ASSUME k + 1 \in 1..n PROVE Good(k + 1)
        OBVIOUS
    <2>2. k \in Nat /\ \A i \in 1..(k + 1) : w[i] \in Seq(S)
        BY <2>1
    <2>3. Upto(w, k + 1) = Upto(w, k) \o w[k + 1]
        BY <2>2, UptoNext
    <2>4. w[k + 1] \in Seq(S)
        BY <2>1
    <2>5. CASE k = 0
        <3>1. Upto(w, k) = <<>>
            BY <2>5, UptoNone
        <3>2. <<>> \o w[k + 1] = w[k + 1]
            BY <2>4, ConcatEmptySeq
        <3> QED BY <2>3, <2>4, <2>5, <3>1, <3>2
    <2>6. CASE k # 0
        <3>1. Good(k)
            BY <2>1, <2>6
        <3> DEFINE l == Upto(w, k)
                   r == w[k + 1]
        <3>2. l \in Seq(S) /\ r \in Seq(S) /\ Len(l) >= 1 /\ l[1] = w[1][1]
            BY <2>4, <3>1
        <3> HIDE DEF l, r
        <3>3. l \o r \in Seq(S) /\ Len(l \o r) >= 1 /\ (l \o r)[1] = l[1]
            BY <3>2, HeadConcat
        <3> QED BY <2>3, <3>2, <3>3 DEF l, r
    <2> QED BY <2>5, <2>6
<1>3. T \in SUBSET Nat
    OBVIOUS
<1>4. T = Nat
    <2> HIDE DEF T
    <2> QED BY <1>1, <1>2, <1>3, AllNat
<1> QED BY <1>4

\* A sequence, each element replaced by what a function has for it.
Mapped(s, h) == [i \in DOMAIN s |-> h[s[i]]]

LEMMA MappedType ==
    ASSUME NEW A, NEW B, NEW h \in [A -> B]
    PROVE  \A s \in Seq(A) : Mapped(s, h) \in Seq(B) /\ Len(Mapped(s, h)) = Len(s)
<1> SUFFICES ASSUME NEW s \in Seq(A)
             PROVE  Mapped(s, h) \in Seq(B) /\ Len(Mapped(s, h)) = Len(s)
    OBVIOUS
<1>1. DOMAIN s = 1..Len(s) /\ Len(s) \in Nat /\ \A i \in 1..Len(s) : s[i] \in A
    BY LenProperties, ElementOfSeq
<1>2. Mapped(s, h) \in [1..Len(s) -> B]
    BY <1>1 DEF Mapped
<1>3. Mapped(s, h) \in Seq(B)
    BY <1>1, <1>2, SeqDef
<1> QED BY <1>1, <1>2, <1>3, LenProperties

LEMMA MappedAppend ==
    ASSUME NEW A, NEW B, NEW h \in [A -> B], NEW s \in Seq(A), NEW e \in A
    PROVE  Mapped(Append(s, e), h) = Append(Mapped(s, h), h[e])
<1> DEFINE n == Len(s)
           longer == Append(s, e)
           wanted == Append(Mapped(s, h), h[e])
<1>1. /\ n \in Nat /\ longer \in Seq(A) /\ Len(longer) = n + 1 /\ longer[n + 1] = e
      /\ \A i \in 1..n : longer[i] = s[i]
    BY LenProperties, AppendProperties
<1>0. \A r \in Seq(A) : Mapped(r, h) \in Seq(B) /\ Len(Mapped(r, h)) = Len(r)
    BY MappedType
<1>2. Mapped(s, h) \in Seq(B) /\ Len(Mapped(s, h)) = n /\ h[e] \in B
    BY <1>0
<1>3. /\ wanted \in Seq(B) /\ Len(wanted) = n + 1 /\ wanted[n + 1] = h[e]
      /\ \A i \in 1..n : wanted[i] = Mapped(s, h)[i]
    <2> HIDE DEF n
    <2> QED BY <1>2, AppendProperties
<1>4. DOMAIN s = 1..n /\ DOMAIN longer = 1..(n + 1)
    BY <1>1, LenProperties
<1> HIDE DEF n, longer
<1>5. Mapped(longer, h) \in Seq(B) /\ Len(Mapped(longer, h)) = n + 1
    BY <1>0, <1>1
<1>6. ASSUME NEW i \in 1..(n + 1) PROVE Mapped(longer, h)[i] = wanted[i]
    <2>1. Mapped(longer, h)[i] = h[longer[i]]
        BY <1>4 DEF Mapped
    <2>2. i = n + 1 \/ i \in 1..n
        BY <1>1
    <2>3. i \in 1..n => Mapped(s, h)[i] = h[s[i]]
        BY <1>4 DEF Mapped
    <2> HIDE DEF wanted
    <2> QED BY <1>1, <1>3, <2>1, <2>2, <2>3
<1> HIDE DEF wanted
<1>7. Mapped(longer, h) = wanted
    BY <1>3, <1>5, <1>6, SeqEqual
<1> QED BY <1>7 DEF longer, wanted
================================================================================
