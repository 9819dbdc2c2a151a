------------------------------ MODULE Induction ------------------------------
(* What the proofs know of all numbers and of all sequences.  Induction is *)
(* stated with the set of numbers, or of sequences, for which a statement  *)
(* holds, and comes from the least-number principle: of the numbers for    *)
(* which it fails there is a least.  With it follows what the recursive    *)
(* operators FlattenSeq and Only compute.                                  *)
EXTENDS Integers, Subsequences, SequenceTheorems, FiniteSetTheorems, WellFoundedInduction, TLAPS

(***************************************************************************)
(* A set of numbers that is not empty has a least element: of the finite   *)
(* sets 0 .. m with m in S one contains no other.                          *)
(***************************************************************************)
LEMMA LeastNumber ==
  ASSUME NEW S \in SUBSET Nat, S # {}
  PROVE  \E x \in S : \A y \in S : x <= y
<1> DEFINE Upto == {0 .. m : m \in S}
<1>1. Upto \subseteq FiniteSubsetsOf(Nat) /\ Upto # {}
  <2>1. \A m \in Nat : IsFiniteSet(0 .. m) /\ 0 .. m \subseteq Nat
    BY FS_Interval
  <2>2. QED
    BY <2>1 DEF FiniteSubsetsOf
<1>2. PICK X \in Upto : \A Y \in Upto : ~ (<<Y, X>> \in StrictSubsetOrdering(Nat))
  <2>1. IsWellFoundedOn(StrictSubsetOrdering(Nat), FiniteSubsetsOf(Nat))
    BY FS_StrictSubsetOrderingWellFounded
  <2>2. QED
    BY <1>1, <2>1, WFMin
<1>3. PICK x \in S : X = 0 .. x
  OBVIOUS
<1>4. ASSUME NEW y \in S PROVE x <= y
  <2>1. ~ (<<0 .. y, 0 .. x>> \in StrictSubsetOrdering(Nat))
    BY <1>2, <1>3
  <2>2. ~ (0 .. y \subseteq 0 .. x /\ 0 .. y # 0 .. x)
    BY <2>1 DEF StrictSubsetOrdering
  <2>3. CASE y < x
    <3>1. 0 .. y \subseteq 0 .. x /\ x \in 0 .. x /\ x \notin 0 .. y
      BY <2>3
    <3>2. QED
      BY <2>2, <3>1
  <2>4. QED
    BY <2>3
<1>5. QED
  BY <1>4

(***************************************************************************)
(* A set of integers with a bound has a greatest element.                  *)
(***************************************************************************)
LEMMA GreatestNumber ==
  ASSUME NEW n \in Int, NEW S \in SUBSET Int, S # {}, \A m \in S : m <= n
  PROVE  \E x \in S : \A y \in S : y <= x
<1> DEFINE Below == {n - m : m \in S}
<1>1. \A m \in S : n - m \in Nat /\ n - m \in Below
  OBVIOUS
<1>2. Below \in SUBSET Nat /\ Below # {}
  BY <1>1
<1>3. PICK d \in Below : \A e \in Below : d <= e
  BY <1>2, LeastNumber
<1>4. PICK x \in S : d = n - x
  OBVIOUS
<1>5. \A y \in S : y <= x
  <2> HIDE DEF Below
  <2>1. \A y \in S : n - x <= n - y
    BY <1>1, <1>3, <1>4
  <2>2. QED
    BY <2>1
<1>6. QED
  BY <1>5

(***************************************************************************)
(* So Min and Max are what their names say.                                *)
(***************************************************************************)
LEMMA MinOf ==
  ASSUME NEW S \in SUBSET Nat, S # {}
  PROVE  /\ Min(S) \in S
         /\ \A m \in S : Min(S) <= m
  BY LeastNumber DEF Min

(* The same of the greatest one of a set with a bound.                      *)
LEMMA MaxOf ==
  ASSUME NEW n \in Int, NEW S \in SUBSET Int, S # {}, \A m \in S : m <= n
  PROVE  /\ Max(S) \in S
         /\ \A m \in S : m <= Max(S)
<1>1. \E x \in S : \A y \in S : y <= x
  BY GreatestNumber
<1>2. \A x \in S, y \in S : y <= x <=> x >= y
  OBVIOUS
<1>3. QED
  BY <1>1, <1>2 DEF Max

-----------------------------------------------------------------------------
(* Induction *)

(* A set of numbers with 0 and each one's successor is the set of all.     *)
LEMMA NumberInduction ==
  ASSUME NEW C \in SUBSET Nat, 0 \in C, \A n \in C : n + 1 \in C
  PROVE  C = Nat
<1>1. SUFFICES ASSUME Nat \ C # {} PROVE FALSE
  OBVIOUS
<1>2. PICK n \in Nat \ C : \A m \in Nat \ C : n <= m
  BY <1>1, LeastNumber
<1>3. n - 1 \in Nat /\ ~ (n <= n - 1)
  OBVIOUS
<1>4. n - 1 \in C
  BY <1>2, <1>3
<1>5. QED
  BY <1>2, <1>4

(* A set of sequences with <<>> and each one's extensions is that of all.  *)
LEMMA SequenceInduction ==
  ASSUME NEW S, NEW C \in SUBSET Seq(S), <<>> \in C,
         \A s \in C, e \in S : Append(s, e) \in C
  PROVE  C = Seq(S)
<1> DEFINE Lengths == {n \in Nat : \A s \in Seq(S) : Len(s) = n => s \in C}
<1>1. 0 \in Lengths
  BY EmptySeq
<1>2. ASSUME NEW n \in Lengths PROVE n + 1 \in Lengths
  <2>1. SUFFICES ASSUME NEW s \in Seq(S), Len(s) = n + 1 PROVE s \in C
    OBVIOUS
  <2>2. s # <<>>
    BY <2>1, EmptySeq
  <2>3. PICK t \in Seq(S), e \in S : s = Append(t, e)
    BY <2>2, SequenceEmptyOrAppend
  <2>4. Len(t) \in Nat /\ Len(s) = Len(t) + 1
    BY <2>3, AppendProperties
  <2>5. Len(t) = n
    BY <2>1, <2>4
  <2>6. QED
    BY <2>3, <2>5
<1>3. Lengths = Nat
  <2> HIDE DEF Lengths
  <2>1. Lengths \in SUBSET Nat
    BY DEF Lengths
  <2>2. QED
    BY <1>1, <1>2, <2>1, NumberInduction
<1>4. QED
  BY <1>3, LenProperties

(* Appending to the second of two sequences appends to both together.      *)
LEMMA ConcatAppend ==
  ASSUME NEW S, NEW s \in Seq(S), NEW t \in Seq(S), NEW e \in S
  PROVE  s \o Append(t, e) = Append(s \o t, e)
<1>1. /\ s \o t \in Seq(S) /\ Append(t, e) \in Seq(S) /\ <<e>> \in Seq(S)
      /\ Append(t, e) = t \o <<e>>
  BY ConcatProperties, AppendProperties, AppendIsConcat
<1>2. Append(s \o t, e) = (s \o t) \o <<e>>
  BY <1>1, AppendIsConcat
<1>3. (s \o t) \o <<e>> = s \o (t \o <<e>>)
  BY <1>1, ConcatAssociative, SMTT(40)
<1>4. QED
  BY <1>1, <1>2, <1>3

-----------------------------------------------------------------------------
(* FlattenSeq *)

(* The function by which FlattenSeq is defined.                            *)
LEMMA FlattenDef ==
  ASSUME NEW S, NEW ss \in Seq(Seq(S)), ss # <<>>
  PROVE  \E f : /\ f = [i \in 1 .. Len(ss) |-> IF i = 1 THEN ss[i] ELSE f[i - 1] \o ss[i]]
                /\ FlattenSeq(ss) = f[Len(ss)]
<1> DEFINE Flattens(f, m) == f = [i \in 1 .. m |-> IF i = 1 THEN ss[i] ELSE f[i - 1] \o ss[i]]
           Numbers == {m \in Nat : \E f : Flattens(f, m)}
<1>1. 0 \in Numbers
  <2>1. Flattens([i \in 1 .. 0 |-> <<>>], 0)
    OBVIOUS
  <2>2. QED
    BY <2>1
<1>2. ASSUME NEW m \in Numbers PROVE m + 1 \in Numbers
  <2>1. PICK f : Flattens(f, m)
    OBVIOUS
  <2> DEFINE g == [i \in 1 .. m + 1 |->
                     IF i = m + 1 THEN IF i = 1 THEN ss[i] ELSE f[m] \o ss[i] ELSE f[i]]
  <2>2. ASSUME NEW i \in 1 .. m + 1
        PROVE  g[i] = IF i = 1 THEN ss[i] ELSE g[i - 1] \o ss[i]
    <3>1. CASE i = m + 1
      BY <3>1
    <3>2. CASE i # m + 1
      <4>1. i \in 1 .. m /\ (i # 1 => i - 1 \in 1 .. m + 1 /\ i - 1 # m + 1)
        BY <3>2
      <4>2. g[i] = f[i] /\ (i # 1 => g[i - 1] = f[i - 1])
        BY <3>2, <4>1
      <4>3. f[i] = IF i = 1 THEN ss[i] ELSE f[i - 1] \o ss[i]
        BY <2>1, <4>1
      <4>4. QED
        BY <4>2, <4>3
    <3>3. QED
      BY <3>1, <3>2
  <2>3. g = [i \in 1 .. m + 1 |-> IF i = 1 THEN ss[i] ELSE g[i - 1] \o ss[i]]
    BY <2>2
  <2>4. Flattens(g, m + 1)
    BY <2>3
  <2>5. QED
    <3> HIDE DEF g, Flattens
    <3>1. \E h : Flattens(h, m + 1)
      BY <2>4
    <3>2. QED
      BY <3>1
<1>3. Numbers = Nat
  <2> HIDE DEF Numbers
  <2>1. Numbers \in SUBSET Nat
    BY DEF Numbers
  <2>2. QED
    BY <1>1, <1>2, <2>1, NumberInduction
<1>4. Len(ss) \in Nat /\ Len(ss) # 0
  BY EmptySeq, LenProperties
<1>5. \E f : Flattens(f, Len(ss))
  BY <1>3, <1>4
<1>6. Flattens(CHOOSE f : Flattens(f, Len(ss)), Len(ss))
  BY <1>5
<1>7. QED
  BY <1>4, <1>6 DEF FlattenSeq

(* Of no sequence; of one sequence more; then of sequences in general.     *)
LEMMA FlattenEmpty == FlattenSeq(<<>>) = <<>>
  BY DEF FlattenSeq

LEMMA FlattenAppend ==
  ASSUME NEW S, NEW ss \in Seq(Seq(S)), NEW s \in Seq(S)
  PROVE  FlattenSeq(Append(ss, s)) = FlattenSeq(ss) \o s
<1> DEFINE tt == Append(ss, s)
           n == Len(ss)
<1>1. /\ tt \in Seq(Seq(S)) /\ tt # <<>> /\ n \in Nat /\ Len(tt) = n + 1
      /\ \A i \in 1 .. n : tt[i] = ss[i]
      /\ tt[n + 1] = s
  BY AppendProperties, LenProperties
<1> HIDE DEF tt, n
<1>2. PICK g : /\ g = [i \in 1 .. n + 1 |-> IF i = 1 THEN tt[i] ELSE g[i - 1] \o tt[i]]
               /\ FlattenSeq(tt) = g[n + 1]
  BY <1>1, FlattenDef
<1>3. CASE n = 0
  <2>1. ss = <<>>
    BY <1>3, EmptySeq DEF n
  <2>2. FlattenSeq(tt) = s
    BY <1>1, <1>2, <1>3
  <2>3. FlattenSeq(ss) \o s = s
    BY <2>1, FlattenEmpty, ConcatEmptySeq
  <2>4. QED
    BY <2>2, <2>3 DEF tt
<1>4. CASE n # 0
  <2>1. ss # <<>>
    BY <1>4, EmptySeq DEF n
  <2>2. PICK f : /\ f = [i \in 1 .. n |-> IF i = 1 THEN ss[i] ELSE f[i - 1] \o ss[i]]
                 /\ FlattenSeq(ss) = f[n]
    BY <2>1, FlattenDef DEF n
  <2> DEFINE Same == {k \in Nat : k + 1 <= n => g[k + 1] = f[k + 1]}
  <2>3. 0 \in Same
    BY <1>1, <1>2, <1>4, <2>2
  <2>4. ASSUME NEW k \in Same PROVE k + 1 \in Same
    <3>1. SUFFICES ASSUME k + 2 <= n PROVE g[k + 2] = f[k + 2]
      BY <1>1
    <3>2. g[k + 1] = f[k + 1]
      BY <3>1, <1>1
    <3>3. /\ k + 2 \in 1 .. n + 1 /\ k + 2 \in 1 .. n
          /\ k + 2 # 1 /\ (k + 2) - 1 = k + 1
      BY <3>1, <1>1
    <3>4. g[k + 2] = g[k + 1] \o tt[k + 2] /\ f[k + 2] = f[k + 1] \o ss[k + 2]
      <4>1. g[k + 2] = g[(k + 2) - 1] \o tt[k + 2]
        BY <1>2, <3>3
      <4>2. f[k + 2] = f[(k + 2) - 1] \o ss[k + 2]
        BY <2>2, <3>3
      <4>3. QED
        BY <3>3, <4>1, <4>2
    <3>5. QED
      BY <1>1, <3>2, <3>3, <3>4
  <2>5. Same = Nat
    <3> HIDE DEF Same
    <3>1. Same \in SUBSET Nat
      BY DEF Same
    <3>2. QED
      BY <2>3, <2>4, <3>1, NumberInduction
  <2>6. g[n] = f[n]
    <3>1. n - 1 \in Nat /\ (n - 1) + 1 = n
      BY <1>1, <1>4
    <3>2. n - 1 \in Same
      BY <2>5, <3>1
    <3>3. QED
      BY <1>1, <3>1, <3>2
  <2>7. g[n + 1] = g[n] \o s
    <3>1. n + 1 \in 1 .. n + 1 /\ n + 1 # 1 /\ (n + 1) - 1 = n
      BY <1>1, <1>4
    <3>2. g[n + 1] = g[(n + 1) - 1] \o tt[n + 1]
      BY <1>2, <3>1
    <3>3. QED
      BY <1>1, <3>1, <3>2
  <2>8. QED
    BY <1>2, <2>2, <2>6, <2>7 DEF tt
<1>5. QED
  BY <1>3, <1>4

LEMMA FlattenOne ==
  ASSUME NEW S, NEW s \in Seq(S)
  PROVE  FlattenSeq(<<s>>) = s
<1>1. <<>> \in Seq(Seq(S)) /\ <<s>> = Append(<<>>, s)
  BY EmptySeq
<1>2. FlattenSeq(<<s>>) = <<>> \o s
  BY <1>1, FlattenAppend, FlattenEmpty
<1>3. QED
  BY <1>2, ConcatEmptySeq

LEMMA FlattenType ==
  ASSUME NEW S, NEW ss \in Seq(Seq(S))
  PROVE  FlattenSeq(ss) \in Seq(S)
<1> DEFINE Typed == {tt \in Seq(Seq(S)) : FlattenSeq(tt) \in Seq(S)}
<1>1. <<>> \in Typed
  BY EmptySeq, FlattenEmpty
<1>2. ASSUME NEW tt \in Typed, NEW s \in Seq(S) PROVE Append(tt, s) \in Typed
  BY AppendProperties, ConcatProperties, FlattenAppend
<1>3. Typed = Seq(Seq(S))
  <2> HIDE DEF Typed
  <2>1. Typed \in SUBSET Seq(Seq(S))
    BY DEF Typed
  <2>2. QED
    BY <1>1, <1>2, <2>1, SequenceInduction
<1>4. QED
  BY <1>3

LEMMA FlattenConcat ==
  ASSUME NEW S, NEW ss \in Seq(Seq(S)), NEW tt \in Seq(Seq(S))
  PROVE  FlattenSeq(ss \o tt) = FlattenSeq(ss) \o FlattenSeq(tt)
<1> DEFINE Good == {uu \in Seq(Seq(S)) : FlattenSeq(ss \o uu) = FlattenSeq(ss) \o FlattenSeq(uu)}
<1>1. <<>> \in Good
  BY EmptySeq, FlattenEmpty, FlattenType, ConcatEmptySeq
<1>2. ASSUME NEW uu \in Good, NEW s \in Seq(S) PROVE Append(uu, s) \in Good
  <2>1. Append(uu, s) \in Seq(Seq(S)) /\ ss \o uu \in Seq(Seq(S))
    BY AppendProperties, ConcatProperties
  <2>2. ss \o Append(uu, s) = Append(ss \o uu, s)
    BY ConcatAppend, SMTT(40)
  <2>4. FlattenSeq(ss \o Append(uu, s)) = (FlattenSeq(ss) \o FlattenSeq(uu)) \o s
    BY <2>1, <2>2, FlattenAppend
  <2>5. FlattenSeq(Append(uu, s)) = FlattenSeq(uu) \o s
    BY FlattenAppend
  <2>6. FlattenSeq(ss) \in Seq(S) /\ FlattenSeq(uu) \in Seq(S)
    BY FlattenType
  <2>7. (FlattenSeq(ss) \o FlattenSeq(uu)) \o s = FlattenSeq(ss) \o (FlattenSeq(uu) \o s)
    BY <2>6, ConcatAssociative, SMTT(40)
  <2>8. FlattenSeq(ss \o Append(uu, s)) = FlattenSeq(ss) \o FlattenSeq(Append(uu, s))
    BY <2>4, <2>5, <2>7
  <2>9. QED
    BY <2>1, <2>8
<1>3. Good = Seq(Seq(S))
  <2> HIDE DEF Good
  <2>1. Good \in SUBSET Seq(Seq(S))
    BY DEF Good
  <2>2. QED
    BY <1>1, <1>2, <2>1, SequenceInduction
<1>4. QED
  BY <1>3

-----------------------------------------------------------------------------
(* Only *)

(* Of no element; of one element more; then of sequences in general.       *)
LEMMA OnlyEmpty == \A keep : Only(<<>>, keep) = <<>>
<1> TAKE keep
<1>1. [i \in DOMAIN <<>> |-> IF <<>>[i] \in keep THEN <<<<>>[i]>> ELSE <<>>] = <<>>
  OBVIOUS
<1>2. QED
  BY <1>1, FlattenEmpty DEF Only

LEMMA OnlyAppend ==
  ASSUME NEW S, NEW s \in Seq(S), NEW e \in S, NEW keep
  PROVE  Only(Append(s, e), keep) = IF e \in keep THEN Append(Only(s, keep), e) ELSE Only(s, keep)
<1> DEFINE Single(x) == IF x \in keep THEN <<x>> ELSE <<>>
           Singles(t) == [i \in DOMAIN t |-> Single(t[i])]
           n == Len(s)
<1>1. /\ n \in Nat /\ DOMAIN s = 1 .. n /\ DOMAIN Append(s, e) = 1 .. n + 1
      /\ \A i \in 1 .. n : Append(s, e)[i] = s[i] /\ s[i] \in S
      /\ Append(s, e)[n + 1] = e
  BY AppendProperties, LenProperties, ElementOfSeq
<1>2. \A x \in S : Single(x) \in Seq(S)
  BY EmptySeq
<1>3. Singles(s) \in Seq(Seq(S)) /\ Len(Singles(s)) = n
  <2> HIDE DEF Single
  <2>1. Singles(s) = [i \in 1 .. n |-> Single(s[i])] /\ Singles(s) \in [1 .. n -> Seq(S)]
    BY <1>1, <1>2
  <2> HIDE DEF n
  <2>2. QED
    BY <1>1, <2>1
<1>4. Singles(Append(s, e)) = Append(Singles(s), Single(e))
  <2> HIDE DEF Single
  <2>1. /\ Append(Singles(s), Single(e)) \in Seq(Seq(S))
        /\ Len(Append(Singles(s), Single(e))) = n + 1
        /\ \A i \in 1 .. n : Append(Singles(s), Single(e))[i] = Singles(s)[i]
        /\ Append(Singles(s), Single(e))[n + 1] = Single(e)
    <3> HIDE DEF n, Singles
    <3>1. Single(e) \in Seq(S)
      BY <1>2
    <3>2. QED
      BY <1>1, <1>3, <3>1, AppendProperties
  <2>2. /\ Singles(Append(s, e)) = [i \in 1 .. n + 1 |-> Single(Append(s, e)[i])]
        /\ \A i \in 1 .. n : Singles(s)[i] = Single(s[i])
    BY <1>1
  <2>3. \A i \in 1 .. n + 1 : i \in 1 .. n \/ i = n + 1
    <3> HIDE DEF n
    <3>1. QED
      BY <1>1
  <2>4. \A i \in 1 .. n + 1 : Single(Append(s, e)[i]) = Append(Singles(s), Single(e))[i]
    BY <1>1, <2>1, <2>2, <2>3
  <2>5. DOMAIN Append(Singles(s), Single(e)) = 1 .. n + 1
    <3> HIDE DEF n, Singles
    <3>1. QED
      BY <2>1, LenProperties
  <2>6. Append(Singles(s), Single(e)) = [i \in 1 .. n + 1 |-> Append(Singles(s), Single(e))[i]]
    <3> HIDE DEF n, Singles
    <3>1. QED
      BY <2>1, <2>5, LenProperties
  <2>7. QED
    BY <2>2, <2>4, <2>6
<1>5. Only(Append(s, e), keep) = FlattenSeq(Append(Singles(s), Single(e)))
  BY <1>4 DEF Only
<1>6. Only(s, keep) = FlattenSeq(Singles(s)) /\ FlattenSeq(Singles(s)) \in Seq(S)
  <2>1. Only(s, keep) = FlattenSeq(Singles(s))
    BY DEF Only
  <2>2. FlattenSeq(Singles(s)) \in Seq(S)
    <3> HIDE DEF Singles
    <3>1. QED
      BY <1>3, FlattenType
  <2>3. QED
    BY <2>1, <2>2
<1>7. FlattenSeq(Append(Singles(s), Single(e))) = Only(s, keep) \o Single(e)
  <2> HIDE DEF Singles, Single
  <2>1. FlattenSeq(Append(Singles(s), Single(e))) = FlattenSeq(Singles(s)) \o Single(e)
    BY <1>2, <1>3, FlattenAppend
  <2>2. QED
    BY <1>6, <2>1
<1>8. Only(s, keep) \in Seq(S)
  BY <1>6
<1> HIDE DEF Singles
<1>9. CASE e \in keep
  <2>1. Only(s, keep) \o <<e>> = Append(Only(s, keep), e)
    BY <1>8, AppendIsConcat
  <2>2. QED
    BY <1>5, <1>7, <1>9, <2>1
<1>10. CASE e \notin keep
  <2>1. Only(s, keep) \o <<>> = Only(s, keep)
    BY <1>8, ConcatEmptySeq
  <2>2. QED
    BY <1>5, <1>7, <1>10, <2>1
<1>11. QED
  BY <1>9, <1>10

(* What is kept are elements of s that are in keep, every one of them.     *)
LEMMA OnlyType ==
  ASSUME NEW S, NEW s \in Seq(S), NEW keep
  PROVE  /\ Only(s, keep) \in Seq(S)
         /\ Range(Only(s, keep)) = Range(s) \cap keep
<1> DEFINE Kept == {t \in Seq(S) : /\ Only(t, keep) \in Seq(S)
                                    /\ Range(Only(t, keep)) = Range(t) \cap keep}
<1>1. \A t \in Seq(S), e \in S : Append(t, e) \in Seq(S) /\ Range(Append(t, e)) = Range(t) \cup {e}
  <2> TAKE t \in Seq(S), e \in S
  <2>1. /\ Append(t, e) \in Seq(S)
        /\ Len(t) \in Nat /\ DOMAIN t = 1 .. Len(t)
        /\ DOMAIN Append(t, e) = 1 .. Len(t) + 1
        /\ \A i \in 1 .. Len(t) : Append(t, e)[i] = t[i]
        /\ Append(t, e)[Len(t) + 1] = e
    BY AppendProperties, LenProperties
  <2>2. QED
    BY <2>1 DEF Range
<1>2. <<>> \in Kept
  <2>1. Range(<<>>) = {}
    BY DEF Range
  <2>2. QED
    BY <2>1, EmptySeq, OnlyEmpty
<1>3. ASSUME NEW t \in Kept, NEW e \in S PROVE Append(t, e) \in Kept
  <2>1. CASE e \in keep
    <3>1. Only(Append(t, e), keep) = Append(Only(t, keep), e)
      BY <2>1, OnlyAppend
    <3>2. Range(Append(t, e)) \cap keep = (Range(t) \cap keep) \cup {e}
      BY <1>1, <2>1
    <3>3. Range(Append(Only(t, keep), e)) = (Range(t) \cap keep) \cup {e}
      BY <1>1
    <3>4. Append(Only(t, keep), e) \in Seq(S) /\ Append(t, e) \in Seq(S)
      BY <1>1
    <3>5. QED
      BY <3>1, <3>2, <3>3, <3>4
  <2>2. CASE e \notin keep
    <3>1. Only(Append(t, e), keep) = Only(t, keep)
      BY <2>2, OnlyAppend
    <3>2. Range(Append(t, e)) \cap keep = Range(t) \cap keep
      BY <1>1, <2>2
    <3>3. Append(t, e) \in Seq(S)
      BY <1>1
    <3>4. QED
      BY <3>1, <3>2, <3>3
  <2>3. QED
    BY <2>1, <2>2
<1>4. Kept = Seq(S)
  <2> HIDE DEF Kept
  <2>1. Kept \in SUBSET Seq(S)
    BY DEF Kept
  <2>2. QED
    BY <1>2, <1>3, <2>1, SequenceInduction
<1>5. QED
  BY <1>4

LEMMA OnlyConcat ==
  ASSUME NEW S, NEW s \in Seq(S), NEW t \in Seq(S), NEW keep
  PROVE  Only(s \o t, keep) = Only(s, keep) \o Only(t, keep)
<1> DEFINE Good == {u \in Seq(S) : Only(s \o u, keep) = Only(s, keep) \o Only(u, keep)}
<1>1. <<>> \in Good
  BY EmptySeq, OnlyEmpty, OnlyType, ConcatEmptySeq
<1>2. ASSUME NEW u \in Good, NEW e \in S PROVE Append(u, e) \in Good
  <2>1. Append(u, e) \in Seq(S) /\ s \o u \in Seq(S)
    BY AppendProperties, ConcatProperties
  <2>2. s \o Append(u, e) = Append(s \o u, e)
    BY ConcatAppend
  <2>3. Only(s \o Append(u, e), keep)
           = IF e \in keep THEN Append(Only(s, keep) \o Only(u, keep), e)
                            ELSE Only(s, keep) \o Only(u, keep)
    <3>1. ASSUME NEW v \in Seq(S)
          PROVE  Only(Append(v, e), keep) = IF e \in keep THEN Append(Only(v, keep), e) ELSE Only(v, keep)
      BY OnlyAppend
    <3>2. Only(s \o u, keep) = Only(s, keep) \o Only(u, keep)
      OBVIOUS
    <3>3. Only(Append(s \o u, e), keep)
             = IF e \in keep THEN Append(Only(s \o u, keep), e) ELSE Only(s \o u, keep)
      BY <2>1, <3>1, Zenon
    <3>4. QED
      BY <2>2, <3>2, <3>3
  <2>4. Only(s, keep) \in Seq(S) /\ Only(u, keep) \in Seq(S)
    BY OnlyType
  <2>5. Append(Only(s, keep) \o Only(u, keep), e) = Only(s, keep) \o Append(Only(u, keep), e)
    <3> DEFINE a == Only(s, keep)
               b == Only(u, keep)
    <3>1. a \in Seq(S) /\ b \in Seq(S)
      BY <2>4
    <3> HIDE DEF a, b
    <3>2. a \o Append(b, e) = Append(a \o b, e)
      BY <3>1, ConcatAppend
    <3>3. QED
      BY <3>2 DEF a, b
  <2>6. Only(Append(u, e), keep) = IF e \in keep THEN Append(Only(u, keep), e) ELSE Only(u, keep)
    BY OnlyAppend
  <2>7. Only(s \o Append(u, e), keep) = Only(s, keep) \o Only(Append(u, e), keep)
    BY <2>3, <2>5, <2>6
  <2>8. QED
    BY <2>1, <2>7
<1>3. Good = Seq(S)
  <2> HIDE DEF Good
  <2>1. Good \in SUBSET Seq(S)
    BY DEF Good
  <2>2. QED
    BY <1>1, <1>2, <2>1, SequenceInduction
<1>4. QED
  BY <1>3

(* It matters only which elements of s are in keep; if all are, s is kept. *)
LEMMA OnlySame ==
  ASSUME NEW S, NEW s \in Seq(S), NEW keep, NEW other,
         \A i \in 1 .. Len(s) : s[i] \in keep <=> s[i] \in other
  PROVE  Only(s, keep) = Only(s, other)
<1>1. DOMAIN s = 1 .. Len(s)
  BY LenProperties
<1>2. QED
  BY <1>1 DEF Only

LEMMA OnlyAll ==
  ASSUME NEW S, NEW s \in Seq(S), NEW keep, \A i \in 1 .. Len(s) : s[i] \in keep
  PROVE  Only(s, keep) = s
<1> DEFINE Whole == {t \in Seq(S) : (\A i \in 1 .. Len(t) : t[i] \in keep) => Only(t, keep) = t}
<1>1. <<>> \in Whole
  BY EmptySeq, OnlyEmpty
<1>2. ASSUME NEW t \in Whole, NEW e \in S PROVE Append(t, e) \in Whole
  <2>1. /\ Append(t, e) \in Seq(S)
        /\ Len(t) \in Nat /\ Len(Append(t, e)) = Len(t) + 1
        /\ \A i \in 1 .. Len(t) : Append(t, e)[i] = t[i]
        /\ Append(t, e)[Len(t) + 1] = e
    BY AppendProperties, LenProperties
  <2>2. SUFFICES ASSUME \A i \in 1 .. Len(t) + 1 : Append(t, e)[i] \in keep
                 PROVE  Only(Append(t, e), keep) = Append(t, e)
    BY <2>1
  <2>3. e \in keep /\ \A i \in 1 .. Len(t) : t[i] \in keep
    BY <2>1, <2>2
  <2>4. Only(Append(t, e), keep) = Append(Only(t, keep), e)
    BY <2>3, OnlyAppend
  <2>5. QED
    BY <2>3, <2>4
<1>3. Whole = Seq(S)
  <2> HIDE DEF Whole
  <2>1. Whole \in SUBSET Seq(S)
    BY DEF Whole
  <2>2. QED
    BY <1>1, <1>2, <2>1, SequenceInduction
<1>4. QED
  BY <1>3

LEMMA OnlyNone ==
  ASSUME NEW S, NEW s \in Seq(S), NEW keep, \A i \in 1 .. Len(s) : s[i] \notin keep
  PROVE  Only(s, keep) = <<>>
<1>1. Range(s) \cap keep = {}
  BY LenProperties DEF Range
<1>2. Only(s, keep) \in Seq(S) /\ Range(Only(s, keep)) = {}
  BY <1>1, OnlyType
<1>3. SUFFICES ASSUME Only(s, keep) # <<>> PROVE FALSE
  OBVIOUS
<1>4. 1 \in DOMAIN Only(s, keep)
  BY <1>2, <1>3, EmptySeq, LenProperties
<1>5. QED
  BY <1>2, <1>4 DEF Range
=============================================================================
