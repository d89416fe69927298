------------------------------ MODULE SeqLemmas ------------------------------
(***************************************************************************)
(* Facts about the library's operators that the proofs of several          *)
(* components need.  What a recursive function of the library returns is   *)
(* had from its defining equation and a least counterexample.              *)
(***************************************************************************)
EXTENDS Integers, Sequences, SequencesExt, SequenceTheorems, WellFoundedInduction, TLAPS

(* A set of naturals that is not empty has a least element. *)
LEMMA LeastNat ==
  ASSUME NEW T \in SUBSET Nat, T # {}
  PROVE  \E n \in T : \A m \in T : n <= m
<1> DEFINE R == OpToRel(<, Nat)
<1>1. IsWellFoundedOn(R, Nat)
  BY NatLessThanWellFounded
<1>2. \A x, y \in Nat : x < y => <<x, y>> \in R
  BY DEF OpToRel
<1> HIDE DEF R
<1>3. PICK n \in T : \A m \in T : <<m, n>> \notin R
  BY <1>1, WFMin
<1>4. \A m \in T : ~ (m < n)
  BY <1>2, <1>3
<1> QED
  BY <1>3, <1>4

(* A set of naturals that is not empty and has a bound has a greatest. *)
LEMMA GreatestNat ==
  ASSUME NEW T \in SUBSET Nat, T # {}, NEW b \in Nat, \A n \in T : n <= b
  PROVE  \E n \in T : \A m \in T : m <= n
<1> DEFINE U == {k \in Nat : b - k \in T}
<1>1. U \in SUBSET Nat /\ U # {}
  <2>1. PICK n \in T : TRUE
    OBVIOUS
  <2>2. b - n \in U
    BY <2>1
  <2> QED
    BY <2>2
<1>2. PICK k \in U : \A j \in U : k <= j
  BY <1>1, LeastNat
<1>3. \A m \in T : b - m \in U
  OBVIOUS
<1>4. b - k \in T /\ \A m \in T : m <= b - k
  BY <1>2, <1>3
<1> QED
  BY <1>4

(* A function on 1..n with values in S is a sequence.                      *)
LEMMA FunctionIsSeq ==
  ASSUME NEW n \in Nat, NEW S, NEW f, f = [i \in 1..n |-> f[i]], \A i \in 1..n : f[i] \in S
  PROVE  f \in Seq(S) /\ Len(f) = n /\ DOMAIN f = 1..n
<1>1. f \in [1..n -> S]
  OBVIOUS
<1>2. f \in Seq(S)
  BY <1>1
<1>3. Len(f) = n
  BY <1>1, <1>2
<1> QED
  BY <1>1, <1>2, <1>3

-----------------------------------------------------------------------------
(* FlattenSeq.                                                             *)

(* The function that FlattenSeq defines by recursion exists: a partial one *)
(* is extended by one element, so none is the least that is missing.       *)
Flattens(f, s, n) == f = [i \in 1..n |-> IF i = 1 THEN s[i] ELSE f[i - 1] \o s[i]]

LEMMA FlattensExists ==
  ASSUME NEW s, NEW n \in Nat
  PROVE  \E f : Flattens(f, s, n)
<1> DEFINE T == {k \in Nat : ~ \E f : Flattens(f, s, k)}
<1> SUFFICES ASSUME T # {} PROVE FALSE
  OBVIOUS
<1>1. PICK k \in T : \A j \in T : k <= j
  BY LeastNat
<1>2. CASE k = 0
  <2>1. Flattens(<<>>, s, 0)
    BY DEF Flattens
  <2> QED
    BY <1>1, <1>2, <2>1
<1>3. CASE k # 0
  <2>1. k - 1 \in Nat /\ k - 1 \notin T
    BY <1>1, <1>3
  <2>2. PICK f : Flattens(f, s, k - 1)
    BY <2>1
  <2> DEFINE g == [i \in 1..k |-> IF i = k THEN (IF k = 1 THEN s[k] ELSE f[k - 1] \o s[k]) ELSE f[i]]
  <2>3. \A i \in 1..k : g[i] = IF i = 1 THEN s[i] ELSE g[i - 1] \o s[i]
    <3> SUFFICES ASSUME NEW i \in 1..k PROVE g[i] = IF i = 1 THEN s[i] ELSE g[i - 1] \o s[i]
      OBVIOUS
    <3>1. CASE i = k
      BY <1>3, <2>1, <3>1
    <3>2. CASE i # k
      <4>1. i \in 1..(k - 1) /\ (i # 1 => i - 1 \in 1..(k - 1) /\ i - 1 # k)
        BY <2>1, <3>2
      <4>2. f[i] = IF i = 1 THEN s[i] ELSE f[i - 1] \o s[i]
        BY <2>2, <4>1 DEF Flattens
      <4> QED
        BY <3>2, <4>1, <4>2
    <3> QED
      BY <3>1, <3>2
  <2>4. Flattens(g, s, k)
    <3>1. g = [i \in 1..k |-> g[i]]
      OBVIOUS
    <3> HIDE DEF g
    <3> QED
      BY <2>3, <3>1 DEF Flattens
  <2> QED
    BY <1>1, <2>4
<1> QED
  BY <1>2, <1>3

LEMMA FlattensAt ==
  ASSUME NEW f, NEW s, NEW n, Flattens(f, s, n), NEW k \in 1..n
  PROVE  f[k] = IF k = 1 THEN s[k] ELSE f[k - 1] \o s[k]
BY DEF Flattens

(* Two such functions agree as far as both go. *)
Agree(s, t, m) == \A i \in 1..m : s[i] = t[i]

LEMMA FlattensAgree ==
  ASSUME NEW s, NEW t, NEW m \in Nat, NEW n \in Nat, m <= n, Agree(s, t, m),
         NEW f, Flattens(f, s, m), NEW g, Flattens(g, t, n)
  PROVE  Agree(f, g, m)
<1> DEFINE T == {k \in 1..m : f[k] # g[k]}
<1> SUFFICES ASSUME T # {} PROVE FALSE
  BY DEF Agree
<1>1. PICK k \in T : \A j \in T : k <= j
  <2>1. T \in SUBSET Nat
    OBVIOUS
  <2> QED
    BY <2>1, LeastNat
<1>2. f[k] = IF k = 1 THEN s[k] ELSE f[k - 1] \o s[k]
  BY FlattensAt
<1>4. g[k] = IF k = 1 THEN t[k] ELSE g[k - 1] \o t[k]
  <2>1. k \in 1..n
    OBVIOUS
  <2> QED
    BY <2>1, FlattensAt
<1>5. s[k] = t[k]
  BY DEF Agree
<1>3. k # 1 => f[k - 1] = g[k - 1]
  <2>1. k # 1 => k - 1 \in 1..m /\ k - 1 \notin T
    BY <1>1
  <2> QED
    BY <2>1
<1> QED
  BY <1>2, <1>3, <1>4, <1>5

(* What FlattenSeq returns: nothing of nothing, and of one more sequence   *)
(* what it returned before and then that sequence.                         *)
LEMMA FlattenIs ==
  ASSUME NEW s, Len(s) \in Nat \ {0}
  PROVE  \E f : Flattens(f, s, Len(s)) /\ FlattenSeq(s) = f[Len(s)]
<1> DEFINE F == CHOOSE f : Flattens(f, s, Len(s))
<1>1. Flattens(F, s, Len(s))
  BY FlattensExists
<1>2. FlattenSeq(s) = F[Len(s)]
  BY DEF FlattenSeq, Flattens
<1> QED
  BY <1>1, <1>2

LEMMA FlattenEmpty == FlattenSeq(<<>>) = <<>>
  BY DEF FlattenSeq

LEMMA FlattenPrefix ==
  ASSUME NEW S, NEW t \in Seq(Seq(S)), Len(t) # 0
  PROVE  \E g : /\ FlattenSeq(t) = g[Len(t)]
                /\ \A k \in 1..Len(t) : g[k] = IF k = 1 THEN t[k] ELSE g[k - 1] \o t[k]
                /\ \A s \in Seq(Seq(S)) :
                     Len(s) \in 1..Len(t) /\ (\A i \in 1..Len(s) : s[i] = t[i]) => FlattenSeq(s) = g[Len(s)]
<1>1. Len(t) \in Nat \ {0}
  OBVIOUS
<1>2. PICK g : Flattens(g, t, Len(t)) /\ FlattenSeq(t) = g[Len(t)]
  BY <1>1, FlattenIs
<1>3. \A k \in 1..Len(t) : g[k] = IF k = 1 THEN t[k] ELSE g[k - 1] \o t[k]
  BY <1>2, FlattensAt
<1>4. ASSUME NEW s \in Seq(Seq(S)), Len(s) \in 1..Len(t), \A i \in 1..Len(s) : s[i] = t[i]
      PROVE  FlattenSeq(s) = g[Len(s)]
  <2>1. Len(s) \in Nat \ {0} /\ Len(s) \in Nat /\ Len(t) \in Nat /\ Len(s) <= Len(t) /\ Len(s) \in 1..Len(s)
    BY <1>1, <1>4
  <2>2. PICK f : Flattens(f, s, Len(s)) /\ FlattenSeq(s) = f[Len(s)]
    BY <2>1, FlattenIs
  <2>3. Agree(s, t, Len(s))
    BY <1>4 DEF Agree
  <2>4. Agree(f, g, Len(s))
    BY <1>2, <2>1, <2>2, <2>3, FlattensAgree
  <2> QED
    BY <2>1, <2>2, <2>4 DEF Agree
<1>5. \A s \in Seq(Seq(S)) :
         Len(s) \in 1..Len(t) /\ (\A i \in 1..Len(s) : s[i] = t[i]) => FlattenSeq(s) = g[Len(s)]
  BY <1>4
<1> WITNESS g
<1> QED
  BY <1>2, <1>3, <1>5

LEMMA FlattenStep ==
  ASSUME NEW S, NEW s \in Seq(Seq(S)), NEW x \in Seq(S)
  PROVE  FlattenSeq(Append(s, x)) = FlattenSeq(s) \o x
<1> DEFINE t == Append(s, x)
<1>1. /\ t \in Seq(Seq(S)) /\ Len(t) = Len(s) + 1 /\ Len(s) \in Nat
      /\ \A i \in 1..Len(s) : t[i] = s[i]
      /\ t[Len(s) + 1] = x
  BY AppendProperties
<1> HIDE DEF t
<1>2. PICK g : /\ FlattenSeq(t) = g[Len(t)]
               /\ \A k \in 1..Len(t) : g[k] = IF k = 1 THEN t[k] ELSE g[k - 1] \o t[k]
               /\ \A r \in Seq(Seq(S)) :
                     Len(r) \in 1..Len(t) /\ (\A i \in 1..Len(r) : r[i] = t[i]) => FlattenSeq(r) = g[Len(r)]
  <2>1. t \in Seq(Seq(S)) /\ Len(t) # 0
    BY <1>1
  <2> QED
    BY <2>1, FlattenPrefix
<1>3. g[Len(t)] = IF Len(s) = 0 THEN x ELSE g[Len(s)] \o x
  <2>1. Len(t) \in 1..Len(t) /\ Len(t) - 1 = Len(s) /\ (Len(t) = 1 <=> Len(s) = 0) /\ t[Len(t)] = x
    BY <1>1
  <2> QED
    BY <1>2, <2>1
<1>4. CASE Len(s) = 0
  <2>1. s = <<>>
    BY <1>4, EmptySeq
  <2>2. FlattenSeq(s) = <<>> /\ <<>> \o x = x
    BY <2>1, FlattenEmpty, ConcatEmptySeq
  <2> QED
    BY <1>2, <1>3, <1>4, <2>2 DEF t
<1>5. CASE Len(s) # 0
  <2>1. Len(s) \in 1..Len(t) /\ \A i \in 1..Len(s) : s[i] = t[i]
    BY <1>1, <1>5
  <2>2. FlattenSeq(s) = g[Len(s)]
    BY <1>2, <2>1
  <2> QED
    BY <1>2, <1>3, <1>5, <2>2 DEF t
<1> QED
  BY <1>4, <1>5

LEMMA FlattenType ==
  ASSUME NEW S, NEW s \in Seq(Seq(S))
  PROVE  FlattenSeq(s) \in Seq(S)
<1> DEFINE T == {n \in Nat : \E t \in Seq(Seq(S)) : Len(t) = n /\ FlattenSeq(t) \notin Seq(S)}
<1>1. ASSUME T # {} PROVE FALSE
  <2>1. PICK n \in T : \A m \in T : n <= m
    BY <1>1, LeastNat
  <2>2. PICK t \in Seq(Seq(S)) : Len(t) = n /\ FlattenSeq(t) \notin Seq(S)
    BY <2>1
  <2>3. t # <<>>
    BY <2>2, FlattenEmpty, EmptySeq
  <2>4. PICK r \in Seq(Seq(S)), x \in Seq(S) : t = Append(r, x)
    BY <2>3, SequenceEmptyOrAppend
  <2>5. Len(r) \in Nat /\ n = Len(r) + 1
    BY <2>2, <2>4, AppendProperties
  <2>6. Len(r) \notin T
    <3> HIDE DEF T
    <3> QED
      BY <2>1, <2>5
  <2>7. FlattenSeq(r) \in Seq(S)
    BY <2>5, <2>6
  <2> QED
    BY <2>2, <2>4, <2>7, FlattenStep, ConcatProperties
<1> QED
  <2>1. Len(s) \in Nat
    OBVIOUS
  <2> QED
    BY <1>1, <2>1

(* What is in FlattenSeq of some sequences is in one of them. *)
LEMMA FlattenRange ==
  ASSUME NEW S, NEW s \in Seq(Seq(S))
  PROVE  Range(FlattenSeq(s)) = UNION {Range(s[i]) : i \in 1..Len(s)}
<1> DEFINE Good(t) == Range(FlattenSeq(t)) = UNION {Range(t[i]) : i \in 1..Len(t)}
           T == {n \in Nat : \E t \in Seq(Seq(S)) : Len(t) = n /\ ~Good(t)}
<1>1. ASSUME T # {} PROVE FALSE
  <2>1. PICK n \in T : \A m \in T : n <= m
    BY <1>1, LeastNat
  <2>2. PICK t \in Seq(Seq(S)) : Len(t) = n /\ ~Good(t)
    BY <2>1
  <2>3. t # <<>>
    <3>1. Range(<<>>) = {} /\ Len(<<>>) = 0
      BY DEF Range
    <3>2. Good(<<>>)
      BY <3>1, FlattenEmpty
    <3> QED
      BY <2>2, <3>2
  <2>4. PICK r \in Seq(Seq(S)), x \in Seq(S) : t = Append(r, x)
    BY <2>3, SequenceEmptyOrAppend
  <2>5. /\ Len(r) \in Nat /\ n = Len(r) + 1
        /\ \A i \in 1..Len(r) : t[i] = r[i]
        /\ t[n] = x
    BY <2>2, <2>4, AppendProperties
  <2>6. Good(r)
    <3>1. Len(r) \notin T
      <4> HIDE DEF T
      <4> QED
        BY <2>1, <2>5
    <3> HIDE DEF Good
    <3> QED
      BY <2>5, <3>1
  <2>7. Range(FlattenSeq(t)) = Range(FlattenSeq(r)) \cup Range(x)
    <3>1. FlattenSeq(t) = FlattenSeq(r) \o x /\ FlattenSeq(r) \in Seq(S)
      BY <2>4, FlattenStep, FlattenType
    <3> QED
      BY <3>1, RangeConcatenation
  <2>8. UNION {Range(t[i]) : i \in 1..Len(t)} = (UNION {Range(r[i]) : i \in 1..Len(r)}) \cup Range(x)
    <3>1. 1..n = 1..Len(r) \cup {n}
      BY <2>5
    <3> QED
      BY <2>2, <2>5, <3>1
  <2> QED
    BY <2>2, <2>6, <2>7, <2>8
<1> QED
  <2>1. Len(s) \in Nat
    OBVIOUS
  <2> HIDE DEF Good
  <2>2. Good(s)
    BY <1>1, <2>1
  <2> QED
    BY <2>2 DEF Good

LEMMA Associates ==
  \A S : \A a, b, c \in Seq(S) : (a \o b) \o c = a \o (b \o c)
  BY ConcatAssociative

(* FlattenSeq of two parts, one after the other. *)
LEMMA FlattenConcat ==
  ASSUME NEW S, NEW s \in Seq(Seq(S)), NEW t \in Seq(Seq(S))
  PROVE  FlattenSeq(s \o t) = FlattenSeq(s) \o FlattenSeq(t)
<1> DEFINE Good(u) == FlattenSeq(s \o u) = FlattenSeq(s) \o FlattenSeq(u)
           T == {n \in Nat : \E u \in Seq(Seq(S)) : Len(u) = n /\ ~Good(u)}
<1>1. ASSUME T # {} PROVE FALSE
  <2>1. PICK n \in T : \A m \in T : n <= m
    BY <1>1, LeastNat
  <2>2. PICK u \in Seq(Seq(S)) : Len(u) = n /\ ~Good(u)
    BY <2>1
  <2>3. FlattenSeq(s) \in Seq(S)
    BY FlattenType
  <2>4. Good(<<>>)
    BY <2>3, FlattenEmpty, ConcatEmptySeq
  <2> HIDE DEF Good
  <2>5. PICK r \in Seq(Seq(S)), x \in Seq(S) : u = Append(r, x)
    BY <2>2, <2>4, SequenceEmptyOrAppend
  <2>6. Len(r) \in Nat /\ n = Len(r) + 1
    BY <2>2, <2>5, AppendProperties
  <2>7. Good(r)
    <3>1. Len(r) \notin T
      <4> HIDE DEF T
      <4> QED
        BY <2>1, <2>6
    <3> QED
      BY <2>6, <3>1
  <2>8. s \o u = Append(s \o r, x)
    <3>1. u = r \o <<x>> /\ <<x>> \in Seq(Seq(S)) /\ s \o r \in Seq(Seq(S))
      BY <2>5, AppendIsConcat, ConcatProperties
    <3>2. s \o (r \o <<x>>) = (s \o r) \o <<x>>
      BY <3>1, Associates
    <3> QED
      BY <3>1, <3>2, AppendIsConcat
  <2>9. FlattenSeq(s \o u) = FlattenSeq(s \o r) \o x
    <3>1. s \o r \in Seq(Seq(S))
      BY ConcatProperties
    <3> QED
      BY <2>8, <3>1, FlattenStep
  <2>10. FlattenSeq(u) = FlattenSeq(r) \o x /\ FlattenSeq(r) \in Seq(S)
    BY <2>5, FlattenStep, FlattenType
  <2>11. (FlattenSeq(s) \o FlattenSeq(r)) \o x = FlattenSeq(s) \o (FlattenSeq(r) \o x)
    <3>1. FlattenSeq(r) \in Seq(S)
      BY <2>10
    <3>2. x \in Seq(S)
      BY <2>5
    <3> DEFINE a == FlattenSeq(s)
               b == FlattenSeq(r)
    <3>3. a \in Seq(S) /\ b \in Seq(S)
      BY <2>3, <3>1
    <3> HIDE DEF a, b, T
    <3>4. (a \o b) \o x = a \o (b \o x)
      BY <3>2, <3>3, Associates
    <3> QED
      BY <3>4 DEF a, b
  <2>12. Good(u)
    BY <2>7, <2>9, <2>10, <2>11 DEF Good
  <2> QED
    BY <2>2, <2>12
<1>2. Good(t)
  <2>1. Len(t) \in Nat
    OBVIOUS
  <2> HIDE DEF Good
  <2> QED
    BY <1>1, <2>1
<1> QED
  BY <1>2

(* FlattenSeq of one sequence, and of sequences with nothing in them. *)
LEMMA FlattenOne ==
  ASSUME NEW S, NEW x \in Seq(S)
  PROVE  FlattenSeq(<<x>>) = x
<1>1. <<>> \in Seq(Seq(S)) /\ Append(<<>>, x) = <<x>>
  BY EmptySeq
<1>2. FlattenSeq(<<x>>) = FlattenSeq(<<>>) \o x
  BY <1>1, FlattenStep
<1> QED
  BY <1>2, FlattenEmpty, ConcatEmptySeq

LEMMA FlattenNothing ==
  ASSUME NEW S, NEW s \in Seq(Seq(S)), \A i \in 1..Len(s) : s[i] = <<>>
  PROVE  FlattenSeq(s) = <<>>
<1>1. CASE s = <<>>
  BY <1>1, FlattenEmpty
<1>2. CASE s # <<>>
  <2>1. Len(s) \in Nat /\ Len(s) # 0
    BY <1>2, EmptySeq
  <2>2. PICK g : /\ FlattenSeq(s) = g[Len(s)]
                 /\ \A k \in 1..Len(s) : g[k] = IF k = 1 THEN s[k] ELSE g[k - 1] \o s[k]
    BY <2>1, FlattenPrefix
  <2> DEFINE T == {k \in 1..Len(s) : g[k] # <<>>}
  <2>3. ASSUME T # {} PROVE FALSE
    <3>1. PICK k \in T : \A j \in T : k <= j
      <4>1. T \in SUBSET Nat
        OBVIOUS
      <4> QED
        BY <2>3, <4>1, LeastNat
    <3>2. s[k] = <<>>
      OBVIOUS
    <3>3. k # 1 => k - 1 \in 1..Len(s) /\ k - 1 \notin T
      BY <2>1, <3>1
    <3>4. k # 1 => g[k - 1] = <<>>
      BY <3>3
    <3>5. <<>> \o <<>> = <<>>
      BY EmptySeq, ConcatEmptySeq
    <3> QED
      BY <2>2, <3>1, <3>2, <3>4, <3>5
  <2> QED
    BY <2>1, <2>2, <2>3
<1> QED
  BY <1>1, <1>2
=============================================================================
