-------------------------- MODULE LogFanoutProofs --------------------------
(***************************************************************************)
(* What holds of a logger made of any options, with any number of sinks,   *)
(* loggers derived from it and attributes in a call: the inductive         *)
(* invariant IInv of LogFanout and what follows from it.                   *)
(***************************************************************************)
EXTENDS LogFanout, SeqLemmas, TLAPS

-----------------------------------------------------------------------------
(* Sequences and the records of log/slog.                                  *)

(* A sequence is its front and the rest of it. *)
LEMMA Halves ==
  ASSUME NEW S, NEW s \in Seq(S), NEW n \in 0..Len(s)
  PROVE  /\ SubSeq(s, 1, n) \in Seq(S) /\ Len(SubSeq(s, 1, n)) = n
         /\ SubSeq(s, n + 1, Len(s)) \in Seq(S) /\ Len(SubSeq(s, n + 1, Len(s))) = Len(s) - n
         /\ SubSeq(s, 1, n) \o SubSeq(s, n + 1, Len(s)) = s
<1>1. Len(s) \in Nat /\ \A i \in 1..Len(s) : s[i] \in S
  BY LenProperties
<1>2. n \in Int /\ n + 1 \in Int /\ Len(s) \in Int
  BY <1>1
<1>3. \A i \in 1..n : s[i] \in S
  BY <1>1
<1>4. \A i \in (n + 1)..Len(s) : s[i] \in S
  BY <1>1
<1>5. SubSeq(s, 1, n) \in Seq(S) /\ Len(SubSeq(s, 1, n)) = n
  BY <1>1, <1>2, <1>3, SubSeqProperties
<1>6. SubSeq(s, n + 1, Len(s)) \in Seq(S) /\ Len(SubSeq(s, n + 1, Len(s))) = Len(s) - n
  BY <1>1, <1>2, <1>4, SubSeqProperties
<1>7. SubSeq(s, 1, n) \o SubSeq(s, n + 1, Len(s)) = s
  <2>1. 1 \in 1..(Len(s) + 1) /\ n \in (1 - 1)..Len(s) /\ Len(s) \in n..Len(s)
    BY <1>1
  <2>2. SubSeq(s, 1, n) \o SubSeq(s, n + 1, Len(s)) = SubSeq(s, 1, Len(s))
    BY <2>1, ConcatAdjacentSubSeq
  <2> QED
    BY <2>2, SubSeqFull
<1> QED
  BY <1>5, <1>6, <1>7

(* Sequences of keys, put together. *)
LEMMA Concat ==
  \A s, t \in Seq(Keys) :
      /\ s \o t \in Seq(Keys) /\ Len(s \o t) = Len(s) + Len(t)
      /\ \A i \in 1..(Len(s) + Len(t)) : (s \o t)[i] = IF i <= Len(s) THEN s[i] ELSE t[i - Len(s)]
  BY ConcatProperties

LEMMA Empty ==
  \A s \in Seq(Keys) : Len(s) \in Nat /\ (s = <<>> <=> Len(s) = 0)
  BY EmptySeq, LenProperties

LEMMA Associative ==
  \A s, t, u \in Seq(Keys) : (s \o t) \o u = s \o (t \o u)
  BY ConcatAssociative

(* The slice of a record is a sequence as long as the record says. *)
LEMMA SliceType ==
  ASSUME NEW arrs \in Seq(Seq(Keys)), NEW r \in Record, Fits(arrs, r)
  PROVE  /\ BackIn(arrs, r) \in Seq(Keys) /\ Len(BackIn(arrs, r)) = r.len
         /\ r.array # 0 => /\ r.array \in 1..Len(arrs) /\ arrs[r.array] \in Seq(Keys)
                           /\ Len(arrs[r.array]) \in Nat /\ r.len \in 0..Len(arrs[r.array])
         /\ Content(arrs, r) \in Seq(Keys)
<1>1. r.array \in Nat /\ r.len \in Nat /\ r.cap \in Nat /\ r.front \in Seq(Keys)
  BY DEF Record
<1>2. BackIn(arrs, r) \in Seq(Keys) /\ Len(BackIn(arrs, r)) = r.len
  <2>1. CASE r.array = 0
    BY <1>1, <2>1 DEF BackIn, Fits
  <2>2. CASE r.array # 0
    <3>1. r.array \in 1..Len(arrs) /\ r.len <= Len(arrs[r.array])
      BY <1>1, <2>2 DEF Fits
    <3>2. arrs[r.array] \in Seq(Keys) /\ Len(arrs[r.array]) \in Nat
      BY <3>1
    <3> QED
      BY <1>1, <2>2, <3>1, <3>2, Halves DEF BackIn
  <2> QED
    BY <2>1, <2>2
<1>3. r.array # 0 => /\ r.array \in 1..Len(arrs) /\ arrs[r.array] \in Seq(Keys)
                     /\ Len(arrs[r.array]) \in Nat /\ r.len \in 0..Len(arrs[r.array])
  BY <1>1 DEF Fits
<1> QED
  BY <1>1, <1>2, <1>3, ConcatProperties DEF Content

(* Arrays that agree on the slice of a record agree on the record. *)
LEMMA SameSlice ==
  ASSUME NEW arrs \in Seq(Seq(Keys)), NEW brrs \in Seq(Seq(Keys)), NEW r \in Record, Fits(arrs, r),
         r.array # 0 => /\ Len(arrs) <= Len(brrs) /\ Len(brrs[r.array]) = Len(arrs[r.array])
                        /\ \A j \in 1..r.len : brrs[r.array][j] = arrs[r.array][j]
  PROVE  Fits(brrs, r) /\ Content(brrs, r) = Content(arrs, r)
<1>1. r.array \in Nat /\ r.len \in Nat /\ r.cap \in Nat /\ r.front \in Seq(Keys) /\ Len(arrs) \in Nat /\ Len(brrs) \in Nat
  BY DEF Record
<1>2. Fits(brrs, r)
  BY <1>1 DEF Fits
<1>3. BackIn(brrs, r) = BackIn(arrs, r)
  <2>1. CASE r.array = 0
    BY <2>1 DEF BackIn
  <2>2. CASE r.array # 0
    <3>1. \A j \in 1..r.len : SubSeq(brrs[r.array], 1, r.len)[j] = SubSeq(arrs[r.array], 1, r.len)[j]
      BY <1>1, <1>2, <2>2, SliceType
    <3> QED
      BY <1>1, <1>2, <2>2, <3>1, SliceType, SeqEqual DEF BackIn
  <2> QED
    BY <2>1, <2>2
<1> QED
  BY <1>2, <1>3 DEF Content

(* What AddAttrs does to the record it is given and to the others: it adds  *)
(* the attributes and nothing else, and leaves every record alone that does *)
(* not reach behind this one's slice, and all of them if that is clipped.   *)
Added(arrs, brrs, r, q, keys) ==
    /\ q \in Record /\ brrs \in Seq(Seq(Keys))
    /\ Fits(brrs, q) /\ Content(brrs, q) = Content(arrs, r) \o keys
    /\ \A x \in Record :
          Fits(arrs, x) /\ (r.cap = r.len \/ x.array # r.array \/ x.len <= r.len) =>
              Fits(brrs, x) /\ Content(brrs, x) = Content(arrs, x)

LEMMA RecordType ==
  ASSUME NEW r \in Record
  PROVE  r.array \in Nat /\ r.len \in Nat /\ r.cap \in Nat /\ r.front \in Seq(Keys) /\ Len(r.front) \in Nat
<1>1. r.array \in Nat /\ r.len \in Nat /\ r.cap \in Nat /\ r.front \in Seq(Keys)
  BY DEF Record
<1> QED
  BY <1>1, LenProperties

(* The parts of AddAttrs. *)
Taking(r, keys) == IF FrontSize - Len(r.front) < Len(keys) THEN FrontSize - Len(r.front) ELSE Len(keys)
Taken(r, keys) == SubSeq(keys, 1, Taking(r, keys))
FrontAfter(r, keys) == r.front \o Taken(r, keys)
Rest(r, keys) == SubSeq(keys, Taking(r, keys) + 1, Len(keys))
Conserves(arrs, r, keys, front, rest) == front \o (BackIn(arrs, r) \o rest) = Content(arrs, r) \o keys

(* The front takes its part first, or the slice is there and it takes none. *)
LEMMA FrontFirst ==
  ASSUME FrontSize \in Nat, NEW arrs \in Seq(Seq(Keys)), NEW r \in Record, NEW keys \in Seq(Keys), Fits(arrs, r)
  PROVE  /\ FrontAfter(r, keys) \in Seq(Keys) /\ Rest(r, keys) \in Seq(Keys) /\ Len(Rest(r, keys)) \in Nat
         /\ Len(FrontAfter(r, keys)) <= FrontSize
         /\ Rest(r, keys) # <<>> \/ r.array # 0 => Len(FrontAfter(r, keys)) = FrontSize
         /\ Conserves(arrs, r, keys, FrontAfter(r, keys), Rest(r, keys))
<1> DEFINE n == Taking(r, keys)  taken == Taken(r, keys)
           front == FrontAfter(r, keys)  rest == Rest(r, keys)  back == BackIn(arrs, r)
<1>1. r.array \in Nat /\ r.cap \in Nat /\ r.front \in Seq(Keys) /\ Len(r.front) \in Nat /\ Len(keys) \in Nat
  BY RecordType, LenProperties
<1>2. /\ n \in 0..Len(keys)
      /\ r.array # 0 => n = 0
      /\ Len(r.front) + n <= FrontSize
      /\ n # Len(keys) => Len(r.front) + n = FrontSize
      /\ r.array # 0 => Len(r.front) = FrontSize
  <2>1. Len(r.front) <= FrontSize /\ (r.array # 0 => Len(r.front) = FrontSize)
    BY DEF Fits
  <2>2. n = IF FrontSize - Len(r.front) < Len(keys) THEN FrontSize - Len(r.front) ELSE Len(keys)
    BY DEF Taking
  <2> DEFINE f == Len(r.front)  k == Len(keys)
  <2>3. f \in Nat /\ k \in Nat /\ f <= FrontSize /\ (r.array # 0 => f = FrontSize)
        /\ n = IF FrontSize - f < k THEN FrontSize - f ELSE k
    BY <1>1, <2>1, <2>2
  <2> HIDE DEF n, f, k
  <2>4. /\ n \in 0..k /\ f + n <= FrontSize
        /\ r.array # 0 => n = 0
        /\ n # k => f + n = FrontSize
    BY <2>3
  <2> QED
    BY <2>1, <2>4 DEF f, k
<1>3. /\ taken \in Seq(Keys) /\ Len(taken) = n
      /\ rest \in Seq(Keys) /\ Len(rest) = Len(keys) - n
      /\ taken \o rest = keys
  BY <1>2, Halves DEF Taken, Rest
<1>4. front \in Seq(Keys) /\ Len(front) = Len(r.front) + n
  <2>1. front = r.front \o taken
    BY DEF FrontAfter
  <2> HIDE DEF front, taken
  <2> QED
    BY <1>1, <1>3, <2>1, Concat
<1>5. back \in Seq(Keys)
  BY SliceType
<1>6. Len(rest) \in Nat /\ (rest # <<>> => n # Len(keys))
  BY <1>1, <1>2, <1>3, EmptySeq
<1>7. CASE r.array = 0
  <2>1. back = <<>>
    BY <1>7 DEF BackIn
  <2>2. back \o rest = rest
    BY <1>3, <2>1, ConcatEmptySeq
  <2>3. front \o rest = r.front \o keys
    <3>1. (r.front \o taken) \o rest = r.front \o (taken \o rest)
      <4> HIDE DEF taken, rest
      <4> QED
        BY <1>1, <1>3, Associative
    <3> QED
      BY <1>3, <3>1 DEF FrontAfter
  <2>4. Content(arrs, r) = r.front
    BY <1>1, <2>1, ConcatEmptySeq DEF Content
  <2>5. Conserves(arrs, r, keys, front, rest)
    BY <2>2, <2>3, <2>4 DEF Conserves
  <2> QED
    BY <1>1, <1>2, <1>3, <1>4, <1>6, <2>5
<1>8. CASE r.array # 0
  <2>1. taken = <<>>
    BY <1>2, <1>3, <1>8, EmptySeq
  <2>2. front = r.front
    BY <1>1, <2>1, ConcatEmptySeq DEF FrontAfter
  <2>3. rest = keys
    BY <1>3, <2>1, ConcatEmptySeq
  <2>4. r.front \o (back \o keys) = (r.front \o back) \o keys
    <3> HIDE DEF back
    <3> QED
      BY <1>1, <1>5, Associative
  <2>5. Conserves(arrs, r, keys, front, rest)
    BY <2>2, <2>3, <2>4 DEF Conserves, Content
  <2> QED
    BY <1>1, <1>2, <1>3, <1>4, <1>6, <2>5
<1> QED
  BY <1>1, <1>7, <1>8

(* All the attributes fit in the front. *)
LEMMA InFront ==
  ASSUME NEW arrs \in Seq(Seq(Keys)), NEW r \in Record, NEW keys, Fits(arrs, r),
         NEW front \in Seq(Keys), Len(front) <= FrontSize, r.array # 0 => Len(front) = FrontSize,
         Conserves(arrs, r, keys, front, <<>>)
  PROVE  Added(arrs, arrs, r, [r EXCEPT !.front = front], keys)
<1> DEFINE q == [r EXCEPT !.front = front]
<1>1. /\ q \in Record /\ q.front = front
      /\ q.array = r.array /\ q.len = r.len /\ q.cap = r.cap
  BY DEF Record
<1> HIDE DEF q
<1>2. Fits(arrs, q)
  BY <1>1 DEF Fits
<1>3. BackIn(arrs, q) = BackIn(arrs, r)
  BY <1>1 DEF BackIn
<1>4. BackIn(arrs, r) \o <<>> = BackIn(arrs, r)
  BY SliceType, ConcatEmptySeq
<1>5. Content(arrs, q) = Content(arrs, r) \o keys
  BY <1>1, <1>3, <1>4 DEF Content, Conserves
<1>6. Added(arrs, arrs, r, q, keys)
  BY <1>1, <1>2, <1>5 DEF Added
<1> QED
  BY <1>6 DEF q

(* The rest is written behind the slice. *)
LEMMA InPlace ==
  ASSUME NEW arrs \in Seq(Seq(Keys)), NEW r \in Record, NEW keys, Fits(arrs, r),
         NEW front \in Seq(Keys), NEW rest \in Seq(Keys), Len(front) = FrontSize,
         Len(rest) > 0, r.cap - r.len >= Len(rest),
         Conserves(arrs, r, keys, front, rest)
  PROVE  LET brrs == [arrs EXCEPT ![r.array] = [j \in DOMAIN @ |-> IF j \in (r.len + 1)..(r.len + Len(rest))
                                                                   THEN rest[j - r.len] ELSE @[j]]]
         IN  Added(arrs, brrs, r, [r EXCEPT !.front = front, !.len = r.len + Len(rest)], keys)
<1> DEFINE row == [j \in 1..Len(arrs[r.array]) |-> IF j \in (r.len + 1)..(r.len + Len(rest))
                                                   THEN rest[j - r.len] ELSE arrs[r.array][j]]
           brrs == [arrs EXCEPT ![r.array] = row]
           q == [r EXCEPT !.front = front, !.len = r.len + Len(rest)]
<1>1. /\ r.array \in Nat /\ r.len \in Nat /\ r.cap \in Nat /\ Len(rest) \in Nat /\ Len(arrs) \in Nat
  BY RecordType, LenProperties
<1>2. r.array # 0 /\ r.len + Len(rest) <= r.cap
  BY <1>1 DEF Fits
<1>3. /\ r.array \in 1..Len(arrs) /\ arrs[r.array] \in Seq(Keys) /\ Len(arrs[r.array]) \in Nat
      /\ r.cap <= Len(arrs[r.array])
  BY <1>2, SliceType DEF Fits
<1>4. DOMAIN arrs[r.array] = 1..Len(arrs[r.array]) /\ \A j \in 1..Len(arrs[r.array]) : arrs[r.array][j] \in Keys
  BY <1>3, LenProperties
<1>5. \A j \in 1..Len(rest) : rest[j] \in Keys
  BY <1>1, LenProperties
<1>6. /\ row \in Seq(Keys) /\ Len(row) = Len(arrs[r.array])
      /\ \A j \in 1..(r.len + Len(rest)) : row[j] = IF j <= r.len THEN arrs[r.array][j] ELSE rest[j - r.len]
  <2>1. ASSUME NEW j \in 1..Len(arrs[r.array])
        PROVE  (IF j \in (r.len + 1)..(r.len + Len(rest)) THEN rest[j - r.len] ELSE arrs[r.array][j]) \in Keys
    <3>1. CASE j \in (r.len + 1)..(r.len + Len(rest))
      <4>1. j - r.len \in 1..Len(rest)
        BY <1>1, <1>3, <3>1
      <4> QED
        BY <1>5, <3>1, <4>1
    <3>2. CASE j \notin (r.len + 1)..(r.len + Len(rest))
      BY <1>4, <3>2
    <3> QED
      BY <3>1, <3>2
  <2>2. row \in Seq(Keys) /\ Len(row) = Len(arrs[r.array])
    BY <1>3, <2>1
  <2>3. \A j \in 1..(r.len + Len(rest)) : row[j] = IF j <= r.len THEN arrs[r.array][j] ELSE rest[j - r.len]
    BY <1>1, <1>2, <1>3
  <2> QED
    BY <2>2, <2>3
<1>7. [arrs EXCEPT ![r.array] = [j \in DOMAIN @ |-> IF j \in (r.len + 1)..(r.len + Len(rest))
                                                    THEN rest[j - r.len] ELSE @[j]]] = brrs
  BY <1>4
<1> HIDE DEF row, brrs
<1>8. /\ q \in Record /\ q.front = front
      /\ q.array = r.array /\ q.len = r.len + Len(rest) /\ q.cap = r.cap
  <2>1. r.len + Len(rest) \in Nat
    BY <1>1
  <2> QED
    BY <2>1 DEF Record
<1> HIDE DEF q
<1>9. /\ brrs \in Seq(Seq(Keys)) /\ Len(brrs) = Len(arrs) /\ brrs[r.array] = row
      /\ \A a \in 1..Len(arrs) : a # r.array => brrs[a] = arrs[a]
  BY <1>3, <1>6, ExceptSeq DEF brrs
<1>10. Fits(brrs, q)
  BY <1>1, <1>2, <1>3, <1>6, <1>8, <1>9 DEF Fits
<1>11. BackIn(brrs, q) = BackIn(arrs, r) \o rest
  <2> DEFINE b == BackIn(brrs, q)  a == BackIn(arrs, r)
  <2>1. b \in Seq(Keys) /\ Len(b) = r.len + Len(rest)
    BY <1>8, <1>9, <1>10, SliceType
  <2>2. a \in Seq(Keys) /\ Len(a) = r.len
    BY SliceType
  <2>3. /\ a \o rest \in Seq(Keys) /\ Len(a \o rest) = r.len + Len(rest)
        /\ \A j \in 1..(r.len + Len(rest)) : (a \o rest)[j] = IF j <= r.len THEN a[j] ELSE rest[j - r.len]
    <3> HIDE DEF a
    <3>1. /\ a \o rest \in Seq(Keys) /\ Len(a \o rest) = Len(a) + Len(rest)
          /\ \A j \in 1..(Len(a) + Len(rest)) : (a \o rest)[j] = IF j <= Len(a) THEN a[j] ELSE rest[j - Len(a)]
      BY <2>2, Concat
    <3> QED
      BY <2>2, <3>1
  <2>4. b = SubSeq(row, 1, r.len + Len(rest)) /\ a = SubSeq(arrs[r.array], 1, r.len)
    BY <1>2, <1>8, <1>9 DEF BackIn
  <2>5. \A j \in 1..(r.len + Len(rest)) : b[j] = row[j]
    BY <1>1, <1>6, <2>4
  <2>6. \A j \in 1..r.len : a[j] = arrs[r.array][j]
    BY <1>1, <1>3, <2>4
  <2> HIDE DEF a, b
  <2>7. \A j \in 1..(r.len + Len(rest)) : b[j] = (a \o rest)[j]
    BY <1>1, <1>6, <2>3, <2>5, <2>6
  <2>8. b = a \o rest
    BY <2>1, <2>3, <2>7, SeqEqual
  <2> QED
    BY <2>8 DEF a, b
<1>12. Content(brrs, q) = Content(arrs, r) \o keys
  BY <1>8, <1>11 DEF Content, Conserves
<1>13. ASSUME NEW x \in Record, Fits(arrs, x), r.cap = r.len \/ x.array # r.array \/ x.len <= r.len
       PROVE  Fits(brrs, x) /\ Content(brrs, x) = Content(arrs, x)
  <2>1. x.array \in Nat /\ x.len \in Nat /\ r.cap # r.len
    BY <1>1, <1>2, RecordType
  <2>2. ASSUME x.array # 0
        PROVE  /\ Len(brrs[x.array]) = Len(arrs[x.array])
               /\ \A j \in 1..x.len : brrs[x.array][j] = arrs[x.array][j]
    <3>1. x.array \in 1..Len(arrs)
      BY <1>13, <2>2, SliceType
    <3>2. CASE x.array # r.array
      BY <1>9, <3>1, <3>2
    <3>3. CASE x.array = r.array
      <4>1. x.len <= r.len
        BY <1>13, <2>1, <3>3
      <4>2. \A j \in 1..x.len : row[j] = arrs[r.array][j]
        <5> TAKE j \in 1..x.len
        <5>1. j \in 1..(r.len + Len(rest)) /\ j <= r.len
          BY <1>1, <2>1, <4>1
        <5> QED
          BY <1>6, <5>1
      <4> QED
        BY <1>6, <1>9, <3>3, <4>2
    <3> QED
      BY <3>2, <3>3
  <2>3. x.array # 0 => /\ Len(arrs) <= Len(brrs) /\ Len(brrs[x.array]) = Len(arrs[x.array])
                       /\ \A j \in 1..x.len : brrs[x.array][j] = arrs[x.array][j]
    BY <1>1, <1>9, <2>2
  <2> QED
    BY <1>1, <1>9, <1>13, <2>3, SameSlice
<1>14. Added(arrs, brrs, r, q, keys)
  BY <1>8, <1>9, <1>10, <1>12, <1>13 DEF Added
<1> QED
  BY <1>7, <1>14 DEF q

(* The slice is copied, with the rest, to an array of the record's own. *)
LEMMA Copied ==
  ASSUME NEW arrs \in Seq(Seq(Keys)), NEW r \in Record, NEW keys, Fits(arrs, r),
         NEW front \in Seq(Keys), NEW copy \in Seq(Keys), Len(front) = FrontSize,
         front \o copy = Content(arrs, r) \o keys
  PROVE  Added(arrs, Append(arrs, copy), r,
               [front |-> front, array |-> Len(arrs) + 1, len |-> Len(copy), cap |-> Len(copy)], keys)
<1> DEFINE brrs == Append(arrs, copy)
           q == [front |-> front, array |-> Len(arrs) + 1, len |-> Len(copy), cap |-> Len(copy)]
<1>1. Len(arrs) \in Nat /\ Len(copy) \in Nat
  BY LenProperties
<1>2. /\ brrs \in Seq(Seq(Keys)) /\ Len(brrs) = Len(arrs) + 1 /\ brrs[Len(arrs) + 1] = copy
      /\ \A a \in 1..Len(arrs) : brrs[a] = arrs[a]
  BY <1>1, AppendProperties
<1>3. /\ q \in Record /\ q.front = front
      /\ q.array = Len(arrs) + 1 /\ q.len = Len(copy) /\ q.cap = Len(copy)
  BY <1>1 DEF Record
<1> HIDE DEF brrs, q
<1>4. Fits(brrs, q)
  BY <1>1, <1>2, <1>3 DEF Fits
<1>5. BackIn(brrs, q) = copy
  BY <1>1, <1>2, <1>3, SubSeqFull DEF BackIn
<1>6. Content(brrs, q) = Content(arrs, r) \o keys
  BY <1>3, <1>5 DEF Content
<1>7. ASSUME NEW x \in Record, Fits(arrs, x)
      PROVE  Fits(brrs, x) /\ Content(brrs, x) = Content(arrs, x)
  <2>1. x.array # 0 => x.array \in 1..Len(arrs)
    BY <1>7, SliceType
  <2>2. x.array # 0 => /\ Len(arrs) <= Len(brrs) /\ Len(brrs[x.array]) = Len(arrs[x.array])
                       /\ \A j \in 1..x.len : brrs[x.array][j] = arrs[x.array][j]
    BY <1>1, <1>2, <2>1
  <2> QED
    BY <1>2, <1>7, <2>2, SameSlice
<1>8. Added(arrs, brrs, r, q, keys)
  BY <1>2, <1>3, <1>4, <1>6, <1>7 DEF Added
<1> QED
  BY <1>8 DEF brrs, q

(* Record.AddAttrs, on a record behind whose slice nobody has written. *)
LEMMA Adds ==
  ASSUME FrontSize \in Nat, arrays \in Seq(Seq(Keys)), NEW r \in Record, NEW keys \in Seq(Keys),
         Fits(arrays, r), Untouched(r)
  PROVE  Added(arrays, AddAttrs(r, keys).arrays, r, AddAttrs(r, keys).record, keys)
<1> DEFINE front == FrontAfter(r, keys)
           rest == Rest(r, keys)
           copy == BackIn(arrays, r) \o rest
           taken == r.cap > r.len /\ arrays[r.array][r.len + 1] # None
           written == [arrays EXCEPT ![r.array] =
                              [j \in DOMAIN @ |-> IF j \in (r.len + 1)..(r.len + Len(rest))
                                                  THEN rest[j - r.len] ELSE @[j]]]
<1>1. r.array \in Nat /\ r.len \in Nat /\ r.cap \in Nat
  BY RecordType
<1>2. ~taken
  <2>1. r.cap > r.len => r.len + 1 \in (r.len + 1)..r.cap
    BY <1>1
  <2> QED
    BY <2>1 DEF Untouched
<1>3. /\ front \in Seq(Keys) /\ rest \in Seq(Keys) /\ Len(rest) \in Nat
      /\ Len(front) <= FrontSize
      /\ rest # <<>> \/ r.array # 0 => Len(front) = FrontSize
      /\ Conserves(arrays, r, keys, front, rest)
  BY FrontFirst
<1>4. BackIn(arrays, r) \in Seq(Keys)
  BY SliceType
<1>5. BackIn(arrays, r) \o <<>> \o rest = copy
  BY <1>4, ConcatEmptySeq
<1>6. AddAttrs(r, keys) =
        CASE rest = <<>> -> [record |-> [r EXCEPT !.front = front], arrays |-> arrays]
          [] rest # <<>> /\ ~taken /\ r.cap - r.len >= Len(rest) ->
               [record |-> [r EXCEPT !.front = front, !.len = r.len + Len(rest)], arrays |-> written]
          [] OTHER ->
               [record |-> [front |-> front, array |-> Len(arrays) + 1, len |-> Len(copy), cap |-> Len(copy)],
                arrays |-> Append(arrays, copy)]
  BY <1>2, <1>5 DEF AddAttrs, Back, FrontAfter, Rest, Taken, Taking
<1> HIDE DEF front, rest, taken, copy
<1>7. CASE rest = <<>>
  <2>1. Added(arrays, arrays, r, [r EXCEPT !.front = front], keys)
    BY <1>3, <1>7, InFront
  <2> HIDE DEF written
  <2>2. AddAttrs(r, keys) = [record |-> [r EXCEPT !.front = front], arrays |-> arrays]
    BY <1>6, <1>7
  <2> QED
    BY <2>1, <2>2
<1>8. CASE rest # <<>> /\ r.cap - r.len >= Len(rest)
  <2>1. Len(rest) > 0
    BY <1>3, <1>8, EmptySeq
  <2>2. Added(arrays, written, r, [r EXCEPT !.front = front, !.len = r.len + Len(rest)], keys)
    BY <1>3, <1>8, <2>1, InPlace
  <2> HIDE DEF written
  <2>3. AddAttrs(r, keys) = [record |-> [r EXCEPT !.front = front, !.len = r.len + Len(rest)], arrays |-> written]
    BY <1>2, <1>6, <1>8
  <2> QED
    BY <2>2, <2>3
<1>9. CASE rest # <<>> /\ ~(r.cap - r.len >= Len(rest))
  <2> HIDE DEF written
  <2>1. copy \in Seq(Keys)
    BY <1>3, <1>4, ConcatProperties DEF copy
  <2>2. front \o copy = Content(arrays, r) \o keys
    BY <1>3 DEF copy, Conserves
  <2> DEFINE q == [front |-> front, array |-> Len(arrays) + 1, len |-> Len(copy), cap |-> Len(copy)]
  <2>3. Added(arrays, Append(arrays, copy), r, q, keys)
    BY <1>3, <1>9, <2>1, <2>2, Copied
  <2> HIDE DEF q
  <2>4. AddAttrs(r, keys) = [record |-> q, arrays |-> Append(arrays, copy)]
    BY <1>2, <1>6, <1>9 DEF q
  <2> QED
    BY <2>3, <2>4
<1> QED
  BY <1>7, <1>8, <1>9

-----------------------------------------------------------------------------
(* The types of the parts, one at a time.                                  *)

LoggerRecord == [slice : 1..Len(slices), asked : Handler]
CallRecord == [pc : {"idle", "handle", "done"}, logger : Nat, level : Int, record : Record, attrs : Seq(Keys),
               span : BOOLEAN, next : 1..(Len(sinks) + 1), errs : SUBSET Indices]
KeptRecord == [sink : Indices, handler : Handler, record : Record]

LEMMA Types ==
  TypeOK <=> /\ options \in OptionLists /\ applied \in 0..(Len(options) + 1)
             /\ config \in ConfigRecord
             /\ sinks \in Seq(SinkRecord) /\ slices \in Seq(Seq(Handler))
             /\ \A s \in 1..Len(slices) : Len(slices[s]) = Len(sinks)
             /\ loggers \in Seq(LoggerRecord)
             /\ arrays \in Seq(Seq(Keys))
             /\ call \in CallRecord
             /\ kept \in Seq(KeptRecord)
  BY DEF TypeOK, LoggerRecord, CallRecord, KeptRecord

LEMMA KeyTypes ==
  /\ \A n \in Nat : Key("with", n) \in Keys /\ Key("group", n) \in Keys /\ Key("attr", n) \in Keys
  /\ None \in Keys /\ Own \in Keys /\ Trace \in Seq(Keys) /\ <<Own>> \in Seq(Keys)
  /\ Blank \in Handler
<1>1. \A n \in Nat : Key("with", n) \in Keys /\ Key("group", n) \in Keys /\ Key("attr", n) \in Keys
  BY DEF Key, Keys
<1>2. None \in Keys /\ Own \in Keys /\ Key("trace_id", 0) \in Keys /\ Key("span_id", 0) \in Keys
  BY DEF None, Own, Key, Keys
<1>3. Trace \in Seq(Keys) /\ <<Own>> \in Seq(Keys)
  BY <1>2 DEF Trace
<1>4. Blank \in Handler
  BY EmptySeq DEF Blank, Handler
<1> QED
  BY <1>1, <1>2, <1>3, <1>4

LEMMA InitIInv == Init => IInv
<1> SUFFICES ASSUME Init PROVE IInv
  OBVIOUS
<1>1. options \in OptionLists /\ Len(options) \in Nat
  BY OptionsAssumption DEF Init
<1>2. /\ applied = 0 /\ sinks = <<>> /\ slices = <<>> /\ loggers = <<>> /\ arrays = <<>> /\ kept = <<>>
      /\ call = Idle /\ config = Config
  BY DEF Init
<1>3. config \in ConfigRecord
  BY <1>2, EmptySeq DEF Config, ConfigRecord, Formats
<1>4. call \in CallRecord /\ call.pc = "idle"
  <2>1. Idle.record \in Record
    BY EmptySeq DEF Idle, Record
  <2>2. Len(sinks) = 0
    BY <1>2
  <2> QED
    BY <1>2, <2>1, <2>2, EmptySeq DEF Idle, CallRecord
<1>5. TypeOK
  BY <1>1, <1>2, <1>3, <1>4, Types
<1>6. DerivedInv
  BY <1>1, <1>2, <1>4 DEF DerivedInv
<1>7. RecordInv /\ KeptInv
  BY <1>2, <1>4 DEF RecordInv, KeptInv
<1> QED
  BY <1>5, <1>6, <1>7 DEF IInv

(* Steps that leave the call and the loggers alone. *)
LEMMA IdleStep ==
  ASSUME IInv, applied <= Len(options), UNCHANGED <<arrays, call, kept>>
  PROVE  RecordInv' /\ KeptInv' /\ call.pc = "idle" /\ kept = <<>>
<1>1. call.pc = "idle" /\ kept = <<>>
  BY DEF IInv, DerivedInv, RecordInv
<1> QED
  BY <1>1 DEF RecordInv, KeptInv

LEMMA ApplyOptionStep == IInv /\ ApplyOption => IInv'
<1> SUFFICES ASSUME IInv, ApplyOption PROVE IInv'
  OBVIOUS
<1>1. /\ applied < Len(options) /\ applied' = applied + 1 /\ config' = Apply(config, options[applied + 1])
      /\ UNCHANGED <<options, sinks, slices, loggers, arrays, call, kept>>
  BY DEF ApplyOption
<1>2. /\ options \in OptionLists /\ applied \in 0..(Len(options) + 1) /\ config \in ConfigRecord
      /\ Len(options) \in Nat
  BY Types, OptionsAssumption DEF IInv
<1>3. applied + 1 \in 1..Len(options) /\ Typed(options[applied + 1])
  <2>1. applied + 1 \in 1..Len(options)
    BY <1>1, <1>2
  <2> QED
    BY <1>2, <2>1, OptionsAssumption
<1>4. config' \in ConfigRecord
  <2> DEFINE o == options[applied + 1]
  <2>1. Typed(o) /\ config' = Apply(config, o)
    BY <1>1, <1>3
  <2> HIDE DEF o
  <2>2. CASE o.name = "format"
    BY <1>2, <2>1, <2>2 DEF Typed, Apply, WithFormat, ConfigRecord
  <2>3. CASE o.name = "output"
    BY <1>2, <2>1, <2>3 DEF Typed, Apply, WithOutput, ConfigRecord
  <2>4. CASE o.name = "level"
    BY <1>2, <2>1, <2>4 DEF Typed, Apply, WithLevel, ConfigRecord
  <2>5. CASE o.name = "extras"
    <3>1. o.value \in Seq(SinkRecord) /\ config' = [config EXCEPT !.extras = @ \o o.value]
      BY <2>1, <2>5 DEF Typed, Apply, WithExtraHandlers
    <3>2. config.extras \o o.value \in Seq(SinkRecord)
      BY <1>2, <3>1, ConcatProperties DEF ConfigRecord
    <3> QED
      BY <1>2, <3>1, <3>2 DEF ConfigRecord
  <2>6. CASE o.name = "mirror"
    BY <1>2, <2>1, <2>6 DEF Apply, WithStderrMirror, ConfigRecord
  <2>7. o.name \in {"format", "output", "level", "extras", "mirror"}
    BY <2>1 DEF Typed
  <2> QED
    BY <2>2, <2>3, <2>4, <2>5, <2>6, <2>7
<1>5. TypeOK'
  <2>1. applied' \in 0..(Len(options') + 1)
    BY <1>1, <1>2
  <2>2. /\ sinks \in Seq(SinkRecord) /\ slices \in Seq(Seq(Handler)) /\ loggers \in Seq(LoggerRecord)
        /\ \A s \in 1..Len(slices) : Len(slices[s]) = Len(sinks)
        /\ arrays \in Seq(Seq(Keys)) /\ call \in CallRecord /\ kept \in Seq(KeptRecord)
    BY Types DEF IInv
  <2> QED
    BY <1>1, <1>2, <1>4, <2>1, <2>2 DEF TypeOK, CallRecord, KeptRecord, LoggerRecord, Indices
<1>6. DerivedInv'
  BY <1>1, <1>2 DEF IInv, DerivedInv, Indices, Children
<1>7. RecordInv' /\ KeptInv'
  BY <1>1, <1>2, IdleStep
<1> QED
  BY <1>5, <1>6, <1>7 DEF IInv

(* Whatever the environment, the sinks are sinks. *)
LEMMA SinksType ==
  ASSUME NEW c \in ConfigRecord
  PROVE  LoggingInit(c) \in Seq(SinkRecord)
<1>1. baseHandler(c) \in SinkRecord /\ newStderrMirrorHandler(c) \in SinkRecord /\ otelHandler \in SinkRecord
  BY DEF baseHandler, newStderrMirrorHandler, otelHandler, Sink, SinkRecord, ConfigRecord, Formats, Always
<1>2. c.extras \in Seq(SinkRecord)
  BY DEF ConfigRecord
<1>3. c.extras \o <<newStderrMirrorHandler(c)>> \in Seq(SinkRecord) /\ c.extras \o <<>> \in Seq(SinkRecord)
  BY <1>1, <1>2, ConcatProperties
<1>4. \A primary \in SinkRecord, extras \in Seq(SinkRecord) : compose(primary, extras) \in Seq(SinkRecord)
  BY ConcatProperties DEF compose
<1>5. CASE env.otlp /\ c.mirror
  <2>1. LoggingInit(c) = compose(otelHandler, c.extras \o <<newStderrMirrorHandler(c)>>)
    BY <1>5 DEF LoggingInit
  <2> QED
    BY <1>1, <1>3, <1>4, <2>1
<1>6. CASE env.otlp /\ ~c.mirror
  <2>1. LoggingInit(c) = compose(otelHandler, c.extras \o <<>>)
    BY <1>6 DEF LoggingInit
  <2> QED
    BY <1>1, <1>3, <1>4, <2>1
<1>7. CASE ~env.otlp
  <2>1. LoggingInit(c) = IF c.mirror THEN <<>> ELSE compose(baseHandler(c), c.extras)
    BY <1>7 DEF LoggingInit
  <2> QED
    BY <1>1, <1>2, <1>4, <2>1, EmptySeq
<1> QED
  BY <1>5, <1>6, <1>7

LEMMA InitReturnsStep == IInv /\ InitReturns => IInv'
<1> SUFFICES ASSUME IInv, InitReturns PROVE IInv'
  OBVIOUS
<1>1. /\ applied = Len(options) /\ applied' = applied + 1 /\ sinks' = LoggingInit(config)
      /\ slices' = <<[i \in 1..Len(sinks') |-> Blank]>> /\ loggers' = <<[slice |-> 1, asked |-> Blank]>>
      /\ UNCHANGED <<options, config, arrays, call, kept>>
  BY DEF InitReturns
<1>2. /\ options \in OptionLists /\ config \in ConfigRecord /\ Len(options) \in Nat
      /\ call \in CallRecord /\ sinks = <<>>
  BY <1>1, Types, OptionsAssumption DEF IInv, DerivedInv
<1>3. sinks' \in Seq(SinkRecord) /\ Len(sinks') \in Nat
  BY <1>1, <1>2, SinksType
<1>4. /\ [i \in 1..Len(sinks') |-> Blank] \in Seq(Handler)
      /\ Len([i \in 1..Len(sinks') |-> Blank]) = Len(sinks')
  BY <1>3, KeyTypes
<1>5. /\ slices' \in Seq(Seq(Handler)) /\ Len(slices') = 1 /\ slices'[1] = [i \in 1..Len(sinks') |-> Blank]
      /\ Len(loggers') = 1 /\ loggers'[1] = [slice |-> 1, asked |-> Blank]
  BY <1>1, <1>4
<1>6. loggers' \in Seq(LoggerRecord')
  <2>1. [slice |-> 1, asked |-> Blank] \in LoggerRecord'
    BY <1>5, KeyTypes DEF LoggerRecord
  <2> QED
    BY <1>1, <2>1
<1>7. call.pc = "idle" /\ kept = <<>> /\ RecordInv' /\ KeptInv'
  BY <1>1, <1>2, IdleStep
<1>8. call' \in CallRecord'
  <2>1. call.next = 1 /\ call.errs = {}
    BY <1>2 DEF CallRecord, Indices
  <2> QED
    BY <1>1, <1>2, <1>3, <2>1 DEF CallRecord, Indices
<1>9. TypeOK'
  <2>1. applied' \in 0..(Len(options') + 1)
    BY <1>1, <1>2
  <2>2. \A s \in 1..Len(slices') : Len(slices'[s]) = Len(sinks')
    BY <1>4, <1>5
  <2>3. kept' \in Seq(KeptRecord')
    BY <1>1, <1>7
  <2>4. arrays' \in Seq(Seq(Keys))
    BY <1>1, Types DEF IInv
  <2> QED
    BY <1>1, <1>2, <1>3, <1>5, <1>6, <1>8, <2>1, <2>2, <2>3, <2>4
       DEF TypeOK, CallRecord, KeptRecord, LoggerRecord
<1>10. DerivedInv'
  <2>1. \A l \in 1..Len(loggers') : \A i \in Indices' : Children(l)'[i] = loggers'[l].asked
    BY <1>3, <1>5 DEF Indices, Children
  <2> QED
    BY <1>1, <1>2, <1>7, <2>1 DEF DerivedInv
<1> QED
  BY <1>7, <1>9, <1>10 DEF IInv

(* A derived handler is a handler. *)
LEMMA DerivedType ==
  ASSUME NEW h \in Handler, NEW l \in Nat
  PROVE  AttrOn(h, l) \in Handler /\ GroupOn(h, l) \in Handler
<1>1. h.groups \in Seq(Keys) /\ h.attrs \in Seq(Seq(Keys) \X Keys)
  BY DEF Handler
<1>2. Key("with", l) \in Keys /\ Key("group", l) \in Keys
  BY KeyTypes
<1>3. Append(h.groups, Key("group", l)) \in Seq(Keys)
  BY <1>1, <1>2, AppendProperties
<1>4. Append(h.attrs, <<h.groups, Key("with", l)>>) \in Seq(Seq(Keys) \X Keys)
  BY <1>1, <1>2, AppendProperties
<1> QED
  BY <1>3, <1>4 DEF AttrOn, GroupOn, Handler

(* Deriving a logger from any other. *)
LEMMA DeriveStep ==
  ASSUME IInv, NEW l, NEW derived \in Seq(Handler), NEW asked \in Handler, Derive(l, derived, asked),
         Len(derived) = Len(sinks), \A i \in Indices : derived[i] = asked
  PROVE  IInv'
<1>1. /\ slices' = Append(slices, derived)
      /\ loggers' = Append(loggers, [slice |-> Len(slices) + 1, asked |-> asked])
      /\ sinks # <<>>
      /\ UNCHANGED <<options, applied, config, sinks, arrays, call, kept>>
  BY DEF Derive, setup
<1>2. slices \in Seq(Seq(Handler)) /\ loggers \in Seq(LoggerRecord) /\ Len(slices) \in Nat /\ Len(loggers) \in Nat
  <2>1. slices \in Seq(Seq(Handler)) /\ loggers \in Seq(LoggerRecord)
    BY Types DEF IInv
  <2> QED
    BY <2>1, LenProperties
<1>3. /\ slices' \in Seq(Seq(Handler)) /\ Len(slices') = Len(slices) + 1 /\ slices'[Len(slices) + 1] = derived
      /\ \A s \in 1..Len(slices) : slices'[s] = slices[s]
  BY <1>1, <1>2, AppendProperties
<1>4. /\ loggers' \in Seq(LoggerRecord') /\ Len(loggers') = Len(loggers) + 1
      /\ loggers'[Len(loggers) + 1] = [slice |-> Len(slices) + 1, asked |-> asked]
      /\ \A k \in 1..Len(loggers) : loggers'[k] = loggers[k]
  <2>1. LoggerRecord \subseteq LoggerRecord'
    BY <1>2, <1>3 DEF LoggerRecord
  <2>2. loggers \in Seq(LoggerRecord')
    BY <1>2, <2>1, SeqMonotonic
  <2>3. [slice |-> Len(slices) + 1, asked |-> asked] \in LoggerRecord'
    BY <1>2, <1>3 DEF LoggerRecord
  <2> QED
    BY <1>1, <1>2, <2>2, <2>3, AppendProperties
<1>5. TypeOK'
  <2>1. \A s \in 1..Len(slices') : Len(slices'[s]) = Len(sinks')
    <3>1. \A s \in 1..Len(slices) : Len(slices[s]) = Len(sinks)
      BY DEF IInv, TypeOK
    <3>2. ASSUME NEW s \in 1..Len(slices') PROVE Len(slices'[s]) = Len(sinks)
      <4>1. s \in 1..Len(slices) \/ s = Len(slices) + 1
        BY <1>2, <1>3
      <4>2. CASE s \in 1..Len(slices)
        BY <1>3, <3>1, <4>2
      <4>3. CASE s = Len(slices) + 1
        BY <1>3, <4>3
      <4> QED
        BY <4>1, <4>2, <4>3
    <3> QED
      BY <1>1, <3>2
  <2>2. /\ options \in OptionLists /\ applied \in 0..(Len(options) + 1) /\ config \in ConfigRecord
        /\ sinks \in Seq(SinkRecord) /\ arrays \in Seq(Seq(Keys)) /\ call \in CallRecord /\ kept \in Seq(KeptRecord)
    BY Types DEF IInv
  <2> QED
    BY <1>1, <1>3, <1>4, <2>1, <2>2 DEF TypeOK, CallRecord, KeptRecord, LoggerRecord, Indices
<1>6. \A k \in 1..Len(loggers) : loggers'[k] = loggers[k] /\ loggers[k].slice \in 1..Len(slices)
  <2>1. \A k \in 1..Len(loggers) : loggers[k] \in LoggerRecord
    BY <1>2
  <2> QED
    BY <1>4, <2>1 DEF LoggerRecord
<1>7. DerivedInv'
  <2>1. ASSUME NEW k \in 1..Len(loggers'), NEW i \in Indices
        PROVE  slices'[loggers'[k].slice][i] = loggers'[k].asked
    <3>1. CASE k \in 1..Len(loggers)
      <4>1. slices[loggers[k].slice][i] = loggers[k].asked
        BY <3>1 DEF IInv, DerivedInv, Children
      <4> QED
        BY <1>3, <1>6, <3>1, <4>1
    <3>2. CASE k = Len(loggers) + 1
      BY <1>3, <1>4, <3>2
    <3> QED
      BY <1>2, <1>4, <3>1, <3>2
  <2>2. call.pc # "idle" => call.logger \in 1..Len(loggers')
    BY <1>2, <1>4 DEF IInv, DerivedInv
  <2>3. ~(applied <= Len(options))
    BY <1>1 DEF IInv, DerivedInv
  <2> QED
    BY <1>1, <2>1, <2>2, <2>3 DEF DerivedInv, Children, Indices
<1>8. RecordInv'
  BY <1>1 DEF IInv, RecordInv, Untouched
<1>9. KeptInv'
  <2>1. kept # <<>> => call.logger \in 1..Len(loggers)
    BY DEF IInv, DerivedInv, RecordInv
  <2>2. kept # <<>> => Asked' = Asked
    BY <1>1, <1>6, <2>1 DEF Asked
  <2>3. \A j : Extra(kept[j].sink)' = Extra(kept[j].sink)
    BY <1>1 DEF Extra
  <2>4. ASSUME NEW j \in 1..Len(kept)
        PROVE  /\ kept[j].handler = Asked' /\ Fits(arrays, kept[j].record)
               /\ Content(arrays, kept[j].record) = call.attrs \o Extra(kept[j].sink)'
    <3>1. kept # <<>>
      OBVIOUS
    <3>2. /\ kept[j].handler = Asked /\ Fits(arrays, kept[j].record)
          /\ Content(arrays, kept[j].record) = call.attrs \o Extra(kept[j].sink)
      BY DEF IInv, KeptInv
    <3> QED
      BY <2>2, <2>3, <3>1, <3>2
  <2> QED
    BY <1>1, <2>4 DEF KeptInv
<1> QED
  BY <1>5, <1>7, <1>8, <1>9 DEF IInv

(* With and WithGroup derive, from handlers that are as asked, such handlers. *)
LEMMA ChildrenAsked ==
  ASSUME IInv, NEW l \in 1..Len(loggers)
  PROVE  /\ loggers[l].asked \in Handler /\ l \in Nat /\ Len(sinks) \in Nat
         /\ \A i \in Indices : Children(l)[i] = loggers[l].asked
<1>1. loggers \in Seq(LoggerRecord) /\ sinks \in Seq(SinkRecord)
  BY Types DEF IInv
<1>2. loggers[l] \in LoggerRecord /\ Len(loggers) \in Nat /\ Len(sinks) \in Nat
  BY <1>1
<1>3. \A i \in Indices : Children(l)[i] = loggers[l].asked
  BY DEF IInv, DerivedInv
<1> QED
  BY <1>2, <1>3 DEF LoggerRecord

LEMMA WithAttrsStep ==
  ASSUME IInv, NEW l \in 1..Len(loggers), WithAttrs(l)
  PROVE  IInv'
<1> DEFINE asked == AttrOn(loggers[l].asked, l)
           derived == [i \in Indices |-> AttrOn(Children(l)[i], l)]
<1>1. asked \in Handler /\ Len(sinks) \in Nat
  BY ChildrenAsked, DerivedType
<1>2. \A i \in Indices : derived[i] = asked
  BY ChildrenAsked
<1>3. derived \in Seq(Handler) /\ Len(derived) = Len(sinks)
  BY <1>1, <1>2 DEF Indices
<1>4. Derive(l, derived, asked)
  BY DEF WithAttrs
<1> HIDE DEF asked, derived
<1> QED
  BY <1>1, <1>2, <1>3, <1>4, DeriveStep

LEMMA WithGroupStep ==
  ASSUME IInv, NEW l \in 1..Len(loggers), WithGroup(l)
  PROVE  IInv'
<1> DEFINE asked == GroupOn(loggers[l].asked, l)
           derived == [i \in Indices |-> GroupOn(Children(l)[i], l)]
<1>1. asked \in Handler /\ Len(sinks) \in Nat
  BY ChildrenAsked, DerivedType
<1>2. \A i \in Indices : derived[i] = asked
  BY ChildrenAsked
<1>3. derived \in Seq(Handler) /\ Len(derived) = Len(sinks)
  BY <1>1, <1>2 DEF Indices
<1>4. Derive(l, derived, asked)
  BY DEF WithGroup
<1> HIDE DEF asked, derived
<1> QED
  BY <1>1, <1>2, <1>3, <1>4, DeriveStep

-----------------------------------------------------------------------------
(* The call.                                                               *)

(* What slog puts in the record of a call. *)
LEMMA LogStep ==
  ASSUME IInv, NEW l \in 1..Len(loggers), NEW level \in Levels, NEW n \in 0..MaxAttrs, NEW spare \in {0, 2},
         NEW span \in BOOLEAN, Log(l, level, n, spare, span)
  PROVE  IInv'
<1> DEFINE keys == [j \in 1..n |-> Key("attr", j)]
           inFront == IF n < FrontSize THEN n ELSE FrontSize
           front == SubSeq(keys, 1, inFront)
           back == SubSeq(keys, inFront + 1, n)
           room == IF back = <<>> THEN 0 ELSE spare
           record == [front |-> front, array |-> IF back = <<>> THEN 0 ELSE 1,
                      len |-> Len(back), cap |-> Len(back) + room]
           spares == [j \in 1..room |-> None]
<1>1. /\ call.pc = "idle" /\ sinks # <<>>
      /\ call' = [Idle EXCEPT !.pc = IF Enabled(level) THEN "handle" ELSE "done", !.logger = l, !.level = level,
                              !.record = record, !.attrs = keys, !.span = span]
      /\ arrays' = IF back = <<>> THEN <<>> ELSE <<back \o spares>>
      /\ UNCHANGED <<options, applied, config, sinks, slices, loggers, kept>>
  BY DEF Log, setup
<1>2. /\ kept = <<>> /\ n \in Nat /\ FrontSize \in Nat /\ level \in Int /\ l \in Nat
      /\ ~(applied <= Len(options))
  <2>1. kept = <<>> /\ ~(applied <= Len(options))
    BY <1>1 DEF IInv, RecordInv, DerivedInv
  <2>2. l \in Nat
    BY ChildrenAsked
  <2> QED
    BY <2>1, <2>2, BoundsAssumption
<1>3. keys \in Seq(Keys) /\ Len(keys) = n
  BY <1>2, KeyTypes
<1>4. inFront \in 0..n /\ inFront <= FrontSize /\ (inFront # n => inFront = FrontSize)
  BY <1>2
<1> HIDE DEF keys, inFront
<1>5. /\ front \in Seq(Keys) /\ Len(front) = inFront
      /\ back \in Seq(Keys) /\ Len(back) = n - inFront
      /\ front \o back = keys
  BY <1>3, <1>4, Halves
<1>6. Len(back) \in Nat /\ (back = <<>> => Len(back) = 0) /\ (back # <<>> => inFront = FrontSize)
  <2>1. Len(back) \in Nat /\ (back # <<>> => Len(back) # 0) /\ (back = <<>> => Len(back) = 0)
    BY <1>5, Empty
  <2>2. inFront = n => Len(back) = 0
    BY <1>2, <1>5
  <2> QED
    BY <1>4, <2>1, <2>2
<1> HIDE DEF front, back
<1>7. room \in Nat
  OBVIOUS
<1> HIDE DEF room
<1>8. spares \in Seq(Keys) /\ Len(spares) = room /\ \A j \in 1..room : spares[j] = None
  BY <1>7, KeyTypes
<1> HIDE DEF spares
<1>9. /\ record \in Record /\ record.front = front /\ record.len = Len(back) /\ record.cap = Len(back) + room
      /\ record.array = IF back = <<>> THEN 0 ELSE 1
  BY <1>5, <1>6, <1>7 DEF Record
<1> HIDE DEF record
<1>10. /\ back \o spares \in Seq(Keys) /\ Len(back \o spares) = Len(back) + room
       /\ \A j \in 1..(Len(back) + room) : (back \o spares)[j] = IF j <= Len(back) THEN back[j] ELSE spares[j - Len(back)]
  BY <1>5, <1>8, Concat
<1>11. arrays' \in Seq(Seq(Keys)) /\ (back # <<>> => Len(arrays') = 1 /\ arrays'[1] = back \o spares)
  BY <1>1, <1>10, EmptySeq
<1>12. Fits(arrays', record)
  <2>1. back = <<>> => room = 0
    BY DEF room
  <2>2. Len(back) <= Len(back) + room /\ (Len(back) = 0 /\ room = 0 => Len(back) + room = 0)
    BY <1>6, <1>7
  <2>3. CASE back = <<>>
    BY <1>4, <1>5, <1>6, <1>9, <2>1, <2>2, <2>3 DEF Fits
  <2>4. CASE back # <<>>
    <3>1. record.array = 1 /\ Len(arrays') = 1 /\ Len(arrays'[1]) = Len(back) + room /\ Len(record.front) = FrontSize
      BY <1>5, <1>6, <1>9, <1>10, <1>11, <2>4
    <3> QED
      BY <1>2, <1>6, <1>7, <1>9, <2>2, <3>1 DEF Fits
  <2> QED
    BY <2>3, <2>4
<1>13. BackIn(arrays', record) = back
  <2>1. CASE back = <<>>
    BY <1>9, <2>1 DEF BackIn
  <2>2. CASE back # <<>>
    <3>1. BackIn(arrays', record) = SubSeq(back \o spares, 1, Len(back))
      BY <1>9, <1>11, <2>2 DEF BackIn
    <3>2. Len(back) \in 0..Len(back \o spares)
      BY <1>6, <1>7, <1>10
    <3>3. SubSeq(back \o spares, 1, Len(back)) \in Seq(Keys) /\ Len(SubSeq(back \o spares, 1, Len(back))) = Len(back)
      BY <1>10, <3>2, Halves
    <3>4. \A j \in 1..Len(back) : SubSeq(back \o spares, 1, Len(back))[j] = (back \o spares)[j]
      BY <1>6, <1>7, <1>10
    <3>5. \A j \in 1..Len(back) : (back \o spares)[j] = back[j]
      BY <1>6, <1>7, <1>10
    <3> QED
      BY <1>5, <3>1, <3>3, <3>4, <3>5, SeqEqual
  <2> QED
    BY <2>1, <2>2
<1>14. Content(arrays', record) = keys
  BY <1>5, <1>9, <1>13 DEF Content
<1>15. \A j \in (record.len + 1)..record.cap : arrays'[record.array][j] = None
  <2> SUFFICES ASSUME NEW j \in (record.len + 1)..record.cap PROVE arrays'[record.array][j] = None
    OBVIOUS
  <2>1. j \in (Len(back) + 1)..(Len(back) + room)
    BY <1>9
  <2>2. back # <<>>
    BY <1>6, <1>7, <2>1 DEF room
  <2>3. j - Len(back) \in 1..room /\ j \in 1..(Len(back) + room) /\ ~(j <= Len(back))
    BY <1>6, <1>7, <2>1
  <2> QED
    BY <1>8, <1>9, <1>10, <1>11, <2>2, <2>3
<1>16. /\ call'.pc \in {"handle", "done"} /\ call'.logger = l /\ call'.level = level /\ call'.record = record
       /\ call'.attrs = keys /\ call'.span = span /\ call'.next = 1 /\ call'.errs = {}
       /\ call' \in CallRecord
  <2>1. Len(sinks) \in Nat
    BY ChildrenAsked
  <2>2. 1 \in 1..(Len(sinks) + 1)
    BY <2>1
  <2> QED
    BY <1>1, <1>2, <1>3, <1>9, <2>2 DEF Idle, CallRecord
<1>17. TypeOK'
  <2>1. /\ options \in OptionLists /\ applied \in 0..(Len(options) + 1) /\ config \in ConfigRecord
        /\ sinks \in Seq(SinkRecord) /\ slices \in Seq(Seq(Handler)) /\ loggers \in Seq(LoggerRecord)
        /\ \A s \in 1..Len(slices) : Len(slices[s]) = Len(sinks)
        /\ kept \in Seq(KeptRecord)
    BY Types DEF IInv
  <2> QED
    BY <1>1, <1>11, <1>16, <2>1 DEF TypeOK, CallRecord, KeptRecord, LoggerRecord, Indices
<1>18. DerivedInv'
  BY <1>1, <1>2, <1>16 DEF IInv, DerivedInv, Children, Indices
<1>19. RecordInv'
  BY <1>1, <1>2, <1>12, <1>14, <1>15, <1>16 DEF RecordInv, Untouched
<1>20. KeptInv'
  BY <1>1, <1>2 DEF KeptInv
<1> QED
  BY <1>17, <1>18, <1>19, <1>20 DEF IInv

(* A child is given the record with what its wrapper adds, and what others   *)
(* were given stays as it was.                                               *)
LEMMA Given ==
  ASSUME IInv, call.pc = "handle", call.next \in Indices, kept # <<>> => Len(sinks) # 1
  PROVE  LET i == call.next
             given == TraceAttrs(i, Clone(call.record))
         IN  /\ given.record \in Record /\ given.arrays \in Seq(Seq(Keys))
             /\ Fits(given.arrays, given.record)
             /\ Content(given.arrays, given.record) = call.attrs \o Extra(i)
             /\ Fits(given.arrays, call.record) /\ Content(given.arrays, call.record) = call.attrs
             /\ \A x \in Record : Fits(arrays, x) /\ kept # <<>> =>
                  Fits(given.arrays, x) /\ Content(given.arrays, x) = Content(arrays, x)
<1> DEFINE i == call.next
           r == call.record
           c == Clone(r)
           given == TraceAttrs(i, c)
           Conclusion ==
             /\ given.record \in Record /\ given.arrays \in Seq(Seq(Keys))
             /\ Fits(given.arrays, given.record)
             /\ Content(given.arrays, given.record) = call.attrs \o Extra(i)
             /\ Fits(given.arrays, r) /\ Content(given.arrays, r) = call.attrs
             /\ \A x \in Record : Fits(arrays, x) /\ kept # <<>> =>
                  Fits(given.arrays, x) /\ Content(given.arrays, x) = Content(arrays, x)
<1>1. /\ arrays \in Seq(Seq(Keys)) /\ r \in Record /\ call.attrs \in Seq(Keys) /\ FrontSize \in Nat
      /\ sinks \in Seq(SinkRecord)
  <2>1. arrays \in Seq(Seq(Keys)) /\ call \in CallRecord /\ sinks \in Seq(SinkRecord)
    BY Types DEF IInv
  <2> QED
    BY <2>1, BoundsAssumption DEF CallRecord
<1>2. Fits(arrays, r) /\ Content(arrays, r) = call.attrs /\ (kept = <<>> => Untouched(r))
  BY DEF IInv, RecordInv
<1>3. r.array \in Nat /\ r.len \in Nat /\ r.cap \in Nat
  BY <1>1, RecordType
<1> HIDE DEF r
(* Clipping a record changes nothing in it. *)
<1>4. ASSUME NEW q \in Record, Fits(arrays, q)
      PROVE  /\ SlogClone(q) \in Record /\ Fits(arrays, SlogClone(q)) /\ Untouched(SlogClone(q))
             /\ Content(arrays, SlogClone(q)) = Content(arrays, q)
             /\ SlogClone(q).array = q.array /\ SlogClone(q).len = q.len /\ SlogClone(q).cap = q.len
  <2> DEFINE d == SlogClone(q)
  <2>1. q.array \in Nat /\ q.len \in Nat /\ q.cap \in Nat
    BY RecordType
  <2>2. d \in Record /\ d.array = q.array /\ d.len = q.len /\ d.cap = q.len /\ d.front = q.front
    BY <2>1 DEF SlogClone, Record
  <2> HIDE DEF d
  <2>3. BackIn(arrays, d) = BackIn(arrays, q)
    BY <2>2 DEF BackIn
  <2>4. Fits(arrays, d)
    <3>1. q.array # 0 => q.array \in 1..Len(arrays) /\ Len(arrays[q.array]) \in Nat
      BY <1>1, <1>4, SliceType
    <3> QED
      BY <1>4, <2>1, <2>2, <3>1 DEF Fits
  <2>5. Untouched(d)
    BY <2>1, <2>2 DEF Untouched
  <2>6. Content(arrays, d) = Content(arrays, q)
    BY <2>2, <2>3 DEF Content
  <2> QED
    BY <2>2, <2>4, <2>5, <2>6 DEF d
<1>5. /\ c \in Record /\ Fits(arrays, c) /\ Untouched(c) /\ Content(arrays, c) = call.attrs
      /\ c.array = r.array /\ c.len = r.len
      /\ kept # <<>> => c.cap = c.len
  <2>1. CASE Len(sinks) = 1
    BY <1>1, <1>2, <2>1 DEF Clone
  <2>2. CASE Len(sinks) # 1
    <3>1. c = SlogClone(r)
      BY <2>2 DEF Clone
    <3> QED
      BY <1>1, <1>2, <1>4, <3>1
  <2> QED
    BY <2>1, <2>2
<1> HIDE DEF c
<1>6. SlogClone(c) \in Record /\ Fits(arrays, SlogClone(c)) /\ Untouched(SlogClone(c))
      /\ Content(arrays, SlogClone(c)) = call.attrs
      /\ SlogClone(c).array = r.array /\ SlogClone(c).len = r.len /\ SlogClone(c).cap = r.len
  BY <1>4, <1>5
(* What follows when attributes are added to the clone or to a clone of it. *)
<1>7. ASSUME NEW q \in Record, NEW keys \in Seq(Keys), Fits(arrays, q), Untouched(q),
             Content(arrays, q) = call.attrs, q.array = r.array, q.len = r.len, kept # <<>> => q.cap = q.len,
             given = AddAttrs(q, keys), keys = Extra(i)
      PROVE  Conclusion
  <2>1. Added(arrays, AddAttrs(q, keys).arrays, q, AddAttrs(q, keys).record, keys)
    BY <1>1, <1>7, Adds
  <2>2. Added(arrays, given.arrays, q, given.record, keys)
    BY <1>7, <2>1
  <2> HIDE DEF given
  <2>3. /\ given.record \in Record /\ given.arrays \in Seq(Seq(Keys)) /\ Fits(given.arrays, given.record)
        /\ Content(given.arrays, given.record) = Content(arrays, q) \o keys
        /\ \A x \in Record :
              Fits(arrays, x) /\ (q.cap = q.len \/ x.array # q.array \/ x.len <= q.len) =>
                  Fits(given.arrays, x) /\ Content(given.arrays, x) = Content(arrays, x)
    BY <2>2 DEF Added
  <2>4. Fits(given.arrays, r) /\ Content(given.arrays, r) = Content(arrays, r)
    BY <1>1, <1>2, <1>3, <1>7, <2>3
  <2> QED
    BY <1>2, <1>7, <2>3, <2>4
<1>8. ASSUME sinks[i].adds = "span", call.span PROVE Conclusion
  <2>1. given = AddAttrs(SlogClone(c), Trace) /\ Extra(i) = Trace
    BY <1>8 DEF TraceAttrs, Extra
  <2>2. Trace \in Seq(Keys)
    BY KeyTypes
  <2> HIDE DEF Conclusion, given
  <2> QED
    BY <1>6, <1>7, <2>1, <2>2
<1>9. ASSUME sinks[i].adds = "own" PROVE Conclusion
  <2>1. given = AddAttrs(c, <<Own>>) /\ Extra(i) = <<Own>>
    BY <1>9 DEF TraceAttrs, Extra
  <2>2. <<Own>> \in Seq(Keys)
    BY KeyTypes
  <2> HIDE DEF Conclusion, given
  <2> QED
    BY <1>5, <1>7, <2>1, <2>2
<1>10. ASSUME ~(sinks[i].adds = "span" /\ call.span), sinks[i].adds # "own" PROVE Conclusion
  <2>1. given = [record |-> c, arrays |-> arrays] /\ Extra(i) = <<>>
    BY <1>10 DEF TraceAttrs, Extra
  <2>2. call.attrs \o <<>> = call.attrs
    BY <1>1, ConcatEmptySeq
  <2> HIDE DEF given
  <2> QED
    BY <1>1, <1>2, <1>5, <2>1, <2>2
<1>11. Conclusion
  <2> HIDE DEF Conclusion
  <2> QED
    BY <1>8, <1>9, <1>10
<1> QED
  BY <1>11 DEF r, c

LEMMA HandleChildStep ==
  ASSUME IInv, NEW failed \in BOOLEAN, HandleChild(failed)
  PROVE  /\ IInv'
         /\ call.next \in {k.sink : k \in Kept'}
<1> DEFINE i == call.next
           given == TraceAttrs(i, Clone(call.record))
           one == [sink |-> i, handler |-> Children(call.logger)[i], record |-> given.record]
<1>1. /\ call.pc = "handle" /\ i \in Indices
      /\ arrays' = given.arrays /\ kept' = Append(kept, one)
      /\ call' = [call EXCEPT !.next = i + 1, !.errs = Joined(failed)]
      /\ UNCHANGED <<options, applied, config, sinks, slices, loggers>>
  BY DEF HandleChild, Following, setup
<1>2. /\ call \in CallRecord /\ kept \in Seq(KeptRecord) /\ Len(kept) \in Nat
      /\ sinks \in Seq(SinkRecord) /\ Len(sinks) \in Nat
  BY Types, LenProperties DEF IInv
<1>3. i \in 1..Len(sinks) /\ i \in Nat
  BY <1>1, <1>2 DEF Indices
<1>4. kept # <<>> => Len(sinks) # 1
  <2>1. call.next = 1 => kept = <<>>
    BY DEF IInv, RecordInv
  <2>2. Len(sinks) = 1 => i = 1
    BY <1>3
  <2> QED
    BY <2>1, <2>2
<1>5. /\ given.record \in Record /\ given.arrays \in Seq(Seq(Keys))
      /\ Fits(given.arrays, given.record)
      /\ Content(given.arrays, given.record) = call.attrs \o Extra(i)
      /\ Fits(given.arrays, call.record) /\ Content(given.arrays, call.record) = call.attrs
      /\ \A x \in Record : Fits(arrays, x) /\ kept # <<>> =>
           Fits(given.arrays, x) /\ Content(given.arrays, x) = Content(arrays, x)
  BY <1>1, <1>4, Given
<1> HIDE DEF given
<1>6. /\ call.logger \in 1..Len(loggers) /\ ~(applied <= Len(options))
      /\ Children(call.logger)[i] = Asked /\ Asked \in Handler
  <2>1. call.logger \in 1..Len(loggers) /\ ~(applied <= Len(options))
    BY <1>1 DEF IInv, DerivedInv
  <2> QED
    BY <1>1, <2>1, ChildrenAsked DEF Asked
<1>7. one \in KeptRecord /\ one.sink = i /\ one.handler = Asked /\ one.record = given.record
  BY <1>1, <1>5, <1>6 DEF KeptRecord
<1> HIDE DEF one
<1>8. /\ kept' \in Seq(KeptRecord) /\ Len(kept') = Len(kept) + 1 /\ kept'[Len(kept) + 1] = one /\ kept' # <<>>
      /\ \A j \in 1..Len(kept) : kept'[j] = kept[j]
  BY <1>1, <1>2, <1>7, AppendProperties
<1>9. /\ call'.pc = "handle" /\ call'.logger = call.logger /\ call'.record = call.record /\ call'.attrs = call.attrs
      /\ call'.span = call.span /\ call'.next = i + 1 /\ call' \in CallRecord
  <2>1. i + 1 \in 1..(Len(sinks) + 1)
    BY <1>2, <1>3
  <2>2. Joined(failed) \subseteq Indices
    BY <1>1, <1>2 DEF Joined, CallRecord
  <2> QED
    BY <1>1, <1>2, <2>1, <2>2 DEF CallRecord
<1>10. TypeOK'
  <2>1. /\ options \in OptionLists /\ applied \in 0..(Len(options) + 1) /\ config \in ConfigRecord
        /\ slices \in Seq(Seq(Handler)) /\ loggers \in Seq(LoggerRecord)
        /\ \A s \in 1..Len(slices) : Len(slices[s]) = Len(sinks)
    BY Types DEF IInv
  <2> QED
    BY <1>1, <1>2, <1>5, <1>8, <1>9, <2>1 DEF TypeOK, CallRecord, KeptRecord, LoggerRecord, Indices
<1>11. DerivedInv'
  BY <1>1, <1>6, <1>9 DEF IInv, DerivedInv, Children, Indices
<1>12. RecordInv'
  <2>1. i + 1 # 1
    BY <1>3
  <2> QED
    BY <1>1, <1>5, <1>8, <1>9, <2>1 DEF RecordInv
<1>13. KeptInv'
  <2>1. Asked' = Asked
    BY <1>1, <1>9 DEF Asked
  <2>3. ASSUME NEW j \in 1..Len(kept')
        PROVE  /\ kept'[j].handler = Asked /\ Fits(arrays', kept'[j].record)
               /\ Content(arrays', kept'[j].record) = call.attrs \o Extra(kept[j].sink)'
    <3>1. CASE j = Len(kept) + 1
      <4>1. kept'[j] = one /\ kept'[j].sink = i
        BY <1>7, <1>8, <3>1
      <4>2. Extra(kept[j].sink)' = Extra(i)
        BY <1>1, <1>9, <4>1 DEF Extra
      <4> QED
        BY <1>1, <1>5, <1>7, <4>1, <4>2
    <3>2. CASE j \in 1..Len(kept)
      <4>1. kept # <<>> /\ kept'[j] = kept[j] /\ kept[j] \in KeptRecord
        BY <1>2, <1>8, <3>2
      <4>2. kept[j].record \in Record
        BY <4>1 DEF KeptRecord
      <4>3. /\ kept[j].handler = Asked /\ Fits(arrays, kept[j].record)
            /\ Content(arrays, kept[j].record) = call.attrs \o Extra(kept[j].sink)
        BY <3>2 DEF IInv, KeptInv
      <4>4. Extra(kept[j].sink)' = Extra(kept[j].sink)
        BY <1>1, <1>9, <4>1 DEF Extra
      <4> QED
        BY <1>1, <1>5, <4>1, <4>2, <4>3, <4>4
    <3>3. j \in 1..(Len(kept) + 1)
      BY <1>8
    <3>4. j = Len(kept) + 1 \/ j \in 1..Len(kept)
      BY <1>2, <3>3
    <3> QED
      BY <3>1, <3>2, <3>4
  <2> QED
    BY <1>9, <2>1, <2>3 DEF KeptInv
<1>14. call.next \in {k.sink : k \in Kept'}
  <2>1. one \in Kept'
    BY <1>2, <1>8 DEF Kept
  <2> QED
    BY <1>7, <2>1
<1> QED
  BY <1>10, <1>11, <1>12, <1>13, <1>14 DEF IInv

(* Steps of the loop that hand nothing to a child. *)
LEMMA LoopStep ==
  ASSUME IInv, UNCHANGED <<options, applied, config, sinks, slices, loggers, arrays, kept>>,
         call.pc = "handle", call' \in CallRecord, call'.pc \in {"handle", "done"},
         call'.next = 1 => call.next = 1,
         call'.logger = call.logger, call'.record = call.record, call'.attrs = call.attrs, call'.span = call.span
  PROVE  IInv'
<1>1. TypeOK'
  <2>1. /\ options \in OptionLists /\ applied \in 0..(Len(options) + 1) /\ config \in ConfigRecord
        /\ sinks \in Seq(SinkRecord) /\ slices \in Seq(Seq(Handler)) /\ loggers \in Seq(LoggerRecord)
        /\ \A s \in 1..Len(slices) : Len(slices[s]) = Len(sinks)
        /\ arrays \in Seq(Seq(Keys)) /\ kept \in Seq(KeptRecord)
    BY Types DEF IInv
  <2> QED
    BY <2>1 DEF TypeOK, CallRecord, KeptRecord, LoggerRecord, Indices
<1>2. DerivedInv'
  BY DEF IInv, DerivedInv, Children, Indices
<1>3. RecordInv'
  BY DEF IInv, RecordInv, Untouched
<1>4. KeptInv'
  <2>1. Asked' = Asked
    BY DEF Asked
  <2>2. \A j : Extra(kept[j].sink)' = Extra(kept[j].sink)
    BY DEF Extra
  <2> QED
    BY <2>1, <2>2 DEF IInv, KeptInv
<1> QED
  BY <1>1, <1>2, <1>3, <1>4 DEF IInv

LEMMA SkipChildStep == IInv /\ SkipChild => IInv'
<1> SUFFICES ASSUME IInv, SkipChild PROVE IInv'
  OBVIOUS
<1>1. /\ call.pc = "handle" /\ call.next \in Indices /\ call' = [call EXCEPT !.next = @ + 1]
      /\ UNCHANGED <<options, applied, config, sinks, slices, loggers, arrays, kept>>
  BY DEF SkipChild, setup
<1>2. call \in CallRecord /\ Len(sinks) \in Nat
  BY Types, LenProperties DEF IInv
<1>3. call.next + 1 \in 1..(Len(sinks) + 1) /\ call.next + 1 # 1
  BY <1>1, <1>2 DEF Indices
<1>4. /\ call' \in CallRecord /\ call'.pc = "handle" /\ call'.next # 1 /\ call'.logger = call.logger
      /\ call'.record = call.record /\ call'.attrs = call.attrs /\ call'.span = call.span
  BY <1>1, <1>2, <1>3 DEF CallRecord
<1> QED
  BY <1>1, <1>4, LoopStep

LEMMA HandleReturnsStep == IInv /\ HandleReturns => IInv'
<1> SUFFICES ASSUME IInv, HandleReturns PROVE IInv'
  OBVIOUS
<1>1. /\ call.pc = "handle" /\ call.next > Len(sinks) /\ call' = [call EXCEPT !.pc = "done"]
      /\ UNCHANGED <<options, applied, config, sinks, slices, loggers, arrays, kept>>
  BY DEF HandleReturns, setup
<1>2. call \in CallRecord /\ Len(sinks) \in Nat /\ sinks \in Seq(SinkRecord)
  BY Types, LenProperties DEF IInv
<1>3. /\ call' \in CallRecord /\ call'.pc = "done" /\ call'.next = call.next /\ call'.logger = call.logger
      /\ call'.record = call.record /\ call'.attrs = call.attrs /\ call'.span = call.span
  BY <1>1, <1>2 DEF CallRecord
<1> QED
  BY <1>1, <1>3, LoopStep

-----------------------------------------------------------------------------
(* The invariant, and the properties.                                      *)

LEMMA StepIInv == IInv /\ [Next]_vars => IInv'
<1> SUFFICES ASSUME IInv, [Next]_vars PROVE IInv'
  OBVIOUS
<1>1. CASE ApplyOption
  BY <1>1, ApplyOptionStep
<1>2. CASE InitReturns
  BY <1>2, InitReturnsStep
<1>3. ASSUME NEW l \in 1..Len(loggers), WithAttrs(l) PROVE IInv'
  BY <1>3, WithAttrsStep
<1>4. ASSUME NEW l \in 1..Len(loggers), WithGroup(l) PROVE IInv'
  BY <1>4, WithGroupStep
<1>5. ASSUME NEW l \in 1..Len(loggers), NEW level \in Levels, NEW n \in 0..MaxAttrs, NEW spare \in {0, 2},
             NEW span \in BOOLEAN, Log(l, level, n, spare, span)
      PROVE  IInv'
  BY <1>5, LogStep
<1>6. ASSUME NEW failed \in BOOLEAN, HandleChild(failed) PROVE IInv'
  BY <1>6, HandleChildStep
<1>7. CASE SkipChild
  BY <1>7, SkipChildStep
<1>8. CASE HandleReturns
  BY <1>8, HandleReturnsStep
<1>9. CASE UNCHANGED vars
  BY <1>9 DEF vars, setup, IInv, TypeOK, DerivedInv, RecordInv, KeptInv, Indices, Children, Untouched, Asked, Extra
<1> QED
  BY <1>1, <1>2, <1>3, <1>4, <1>5, <1>6, <1>7, <1>8, <1>9 DEF Next

(* IInv holds in every state of the system. *)
THEOREM Invariance == Spec => []IInv
<1>1. Init => IInv
  BY InitIInv
<1>2. IInv /\ [Next]_vars => IInv'
  BY StepIInv
<1> QED
  BY <1>1, <1>2, PTL DEF Spec

(* Every variable keeps its type (see TypeOK). *)
THEOREM TypeCorrect == Spec => []TypeOK
<1>1. IInv => TypeOK
  BY DEF IInv
<1> QED
  BY <1>1, Invariance, PTL

(* What a sink was given reads as what its logger was asked for, the call's *)
(* attributes and the sink's own additions, then and ever after, however    *)
(* many sinks there are and whatever they add (fanout.go:42-45,             *)
(* traceattrs.go:40, fanout.go:52-66).                                      *)
THEOREM RecordsAreTheirOwn == Spec => []NoCrosstalk
<1>1. IInv => NoCrosstalk
  <2> SUFFICES ASSUME IInv, NEW k \in Kept
               PROVE  Reads(k) = Asked.attrs \o Qualified(Asked, call.attrs \o Extra(k.sink))
    BY DEF NoCrosstalk
  <2>1. PICK j \in 1..Len(kept) : k = kept[j]
    BY DEF Kept
  <2>2. k.handler = Asked /\ Content(arrays, k.record) = call.attrs \o Extra(k.sink)
    BY <2>1 DEF IInv, KeptInv
  <2>3. k.record.front \o Back(k.record) = call.attrs \o Extra(k.sink)
    BY <2>2 DEF Content, Back
  <2> QED
    BY <2>2, <2>3 DEF Reads
<1> QED
  BY <1>1, Invariance, PTL

(* A sink's error stays among those Handle joins until it returns, and none *)
(* is invented (fanout.go:45-49).                                           *)
THEOREM NoErrorIsLost == Spec => ErrorsAreJoined
<1> DEFINE Continues == call'.pc # "idle" /\ call.pc # "idle" =>
                      /\ call.errs \subseteq call'.errs
                      /\ call'.errs \ call.errs \subseteq {call.next} \cap {k.sink : k \in Kept'}
<1>1. IInv /\ [Next]_vars => [Continues]_vars
  <2> SUFFICES ASSUME IInv, Next PROVE Continues
    OBVIOUS
  <2>1. CASE ApplyOption
    BY <2>1 DEF ApplyOption
  <2>2. CASE InitReturns
    BY <2>2 DEF InitReturns
  <2>3. ASSUME NEW l \in 1..Len(loggers), WithAttrs(l) \/ WithGroup(l) PROVE Continues
    BY <2>3 DEF WithAttrs, WithGroup, Derive
  <2>4. ASSUME NEW l, NEW level, NEW n, NEW spare, NEW span, Log(l, level, n, spare, span) PROVE Continues
    BY <2>4 DEF Log
  <2>5. ASSUME NEW failed \in BOOLEAN, HandleChild(failed) PROVE Continues
    <3>1. call.next \in {k.sink : k \in Kept'}
      BY <2>5, HandleChildStep
    <3>2. call' = [call EXCEPT !.next = call.next + 1, !.errs = Joined(failed)]
      BY <2>5 DEF HandleChild, Following
    <3>3. call \in CallRecord
      BY Types DEF IInv
    <3>4. call'.errs = Joined(failed)
      BY <3>2, <3>3 DEF CallRecord
    <3> QED
      BY <3>1, <3>4 DEF Joined
  <2>6. CASE SkipChild
    <3>1. call \in CallRecord /\ call' = [call EXCEPT !.next = @ + 1]
      BY <2>6, Types DEF IInv, SkipChild
    <3>2. call'.errs = call.errs
      BY <3>1 DEF CallRecord
    <3> QED
      BY <3>2
  <2>7. CASE HandleReturns
    <3>1. call \in CallRecord /\ call' = [call EXCEPT !.pc = "done"]
      BY <2>7, Types DEF IInv, HandleReturns
    <3>2. call'.errs = call.errs
      BY <3>1 DEF CallRecord
    <3> QED
      BY <3>2
  <2> QED
    BY <2>1, <2>2, <2>3, <2>4, <2>5, <2>6, <2>7 DEF Next
<1> QED
  BY <1>1, Invariance, PTL DEF Spec, ErrorsAreJoined

-----------------------------------------------------------------------------
(* What the options make of the config.                                    *)

(* One more option decides what it names, and nothing else. *)
LEMMA ChosenStep ==
  ASSUME NEW n \in Nat, NEW name, NEW default
  PROVE  ChosenBy(n + 1, name, default) = IF options[n + 1].name = name THEN options[n + 1].value
                                          ELSE ChosenBy(n, name, default)
<1> DEFINE G == {i \in 1..n : options[i].name = name}
           H == {i \in 1..(n + 1) : options[i].name = name}
<1>1. CASE options[n + 1].name = name
  <2>1. n + 1 \in H /\ \A j \in H : j <= n + 1
    BY <1>1
  <2>2. (CHOOSE i \in H : \A j \in H : j <= i) = n + 1
    <3>1. \A i \in H : (\A j \in H : j <= i) => i = n + 1
      BY <2>1
    <3> QED
      BY <2>1, <3>1
  <2> QED
    BY <1>1, <2>1, <2>2 DEF ChosenBy
<1>2. CASE options[n + 1].name # name
  <2>1. G = H
    BY <1>2
  <2>2. ChosenBy(n, name, default)
        = IF G = {} THEN default ELSE options[CHOOSE i \in G : \A j \in G : j <= i].value
    BY DEF ChosenBy
  <2>3. ChosenBy(n + 1, name, default)
        = IF H = {} THEN default ELSE options[CHOOSE i \in H : \A j \in H : j <= i].value
    BY DEF ChosenBy
  <2> HIDE DEF G, H
  <2>4. ChosenBy(n + 1, name, default) = ChosenBy(n, name, default)
    BY <2>1, <2>2, <2>3
  <2> QED
    BY <1>2, <2>4
<1> QED
  BY <1>1, <1>2

LEMMA ChosenNone ==
  ASSUME NEW name, NEW default
  PROVE  ChosenBy(0, name, default) = default
BY DEF ChosenBy

ExtrasOf(option) == IF option.name = "extras" THEN option.value ELSE <<>>

LEMMA ExtrasStep ==
  ASSUME IInv, NEW n \in Nat, n < Len(options)
  PROVE  ExtrasBy(n + 1) = ExtrasBy(n) \o ExtrasOf(options[n + 1])
<1> DEFINE s == [i \in 1..n |-> ExtrasOf(options[i])]
           t == [i \in 1..(n + 1) |-> ExtrasOf(options[i])]
           x == ExtrasOf(options[n + 1])
<1>1. \A i \in 1..(n + 1) : ExtrasOf(options[i]) \in Seq(SinkRecord)
  <2>1. \A i \in 1..(n + 1) : Typed(options[i])
    <3>1. options \in OptionLists /\ Len(options) \in Nat
      BY Types, OptionsAssumption DEF IInv
    <3> QED
      BY <3>1, OptionsAssumption
  <2>2. \A o : Typed(o) => ExtrasOf(o) \in Seq(SinkRecord)
    BY EmptySeq DEF Typed, ExtrasOf
  <2> QED
    BY <2>1, <2>2
<1>2. s \in Seq(Seq(SinkRecord)) /\ Len(s) = n
  BY <1>1
<1>3. x \in Seq(SinkRecord)
  BY <1>1
<1>4. t = Append(s, x)
  <2>1. Append(s, x) \in Seq(Seq(SinkRecord)) /\ Len(Append(s, x)) = n + 1
        /\ (\A i \in 1..n : Append(s, x)[i] = s[i]) /\ Append(s, x)[n + 1] = x
    BY <1>2, <1>3, AppendProperties
  <2>2. t \in Seq(Seq(SinkRecord)) /\ Len(t) = n + 1
    BY <1>1
  <2>3. \A i \in 1..(n + 1) : t[i] = Append(s, x)[i]
    <3> SUFFICES ASSUME NEW i \in 1..(n + 1) PROVE t[i] = Append(s, x)[i]
      OBVIOUS
    <3>1. CASE i = n + 1
      BY <2>1, <3>1
    <3>2. CASE i # n + 1
      <4>1. i \in 1..n
        BY <3>2
      <4> QED
        BY <2>1, <4>1
    <3> QED
      BY <3>1, <3>2
  <2> QED
    BY <2>1, <2>2, <2>3, SeqEqual
<1>5. FlattenSeq(t) = FlattenSeq(s) \o x
  BY <1>2, <1>3, <1>4, FlattenStep
<1> QED
  BY <1>5 DEF ExtrasBy, ExtrasOf

LEMMA ExtrasNone == ExtrasBy(0) = <<>>
  BY FlattenEmpty DEF ExtrasBy

ConfigOf(f, l, p, x, m) == [format |-> f, level |-> l, output |-> p, extras |-> x, mirror |-> m]

LEMMA FormatSet ==
  \A f, l, p, x, m, v : WithFormat(ConfigOf(f, l, p, x, m), v) = ConfigOf(v, l, p, x, m)
BY DEF ConfigOf, WithFormat

LEMMA LevelSet ==
  \A f, l, p, x, m, v : WithLevel(ConfigOf(f, l, p, x, m), v) = ConfigOf(f, v, p, x, m)
BY DEF ConfigOf, WithLevel

LEMMA OutputSet ==
  \A f, l, p, x, m, v : WithOutput(ConfigOf(f, l, p, x, m), v) = ConfigOf(f, l, v, x, m)
BY DEF ConfigOf, WithOutput

LEMMA ExtrasAdded ==
  \A f, l, p, x, m, v : WithExtraHandlers(ConfigOf(f, l, p, x, m), v) = ConfigOf(f, l, p, x \o v, m)
<1> SUFFICES ASSUME NEW f, NEW l, NEW p, NEW x, NEW m, NEW v
             PROVE  WithExtraHandlers(ConfigOf(f, l, p, x, m), v) = ConfigOf(f, l, p, x \o v, m)
  OBVIOUS
<1>1. \A w : [ConfigOf(f, l, p, x, m) EXCEPT !.extras = w] = ConfigOf(f, l, p, w, m)
  BY DEF ConfigOf
<1>2. ConfigOf(f, l, p, x, m).extras = x
  BY DEF ConfigOf
<1>3. WithExtraHandlers(ConfigOf(f, l, p, x, m), v) = [ConfigOf(f, l, p, x, m) EXCEPT !.extras = x \o v]
  BY <1>2 DEF WithExtraHandlers
<1> QED
  BY <1>1, <1>3

LEMMA MirrorSet ==
  \A f, l, p, x, m : WithStderrMirror(ConfigOf(f, l, p, x, m)) = ConfigOf(f, l, p, x, TRUE)
<1> SUFFICES ASSUME NEW f, NEW l, NEW p, NEW x, NEW m
             PROVE  WithStderrMirror(ConfigOf(f, l, p, x, m)) = ConfigOf(f, l, p, x, TRUE)
  OBVIOUS
<1>1. \A w : [ConfigOf(f, l, p, x, m) EXCEPT !.mirror = w] = ConfigOf(f, l, p, x, w)
  BY DEF ConfigOf
<1> QED
  BY <1>1 DEF WithStderrMirror

(* The config that the first n options ask for. *)
ConfigBy(n) ==
    ConfigOf(ChosenBy(n, "format", "auto"), ChosenBy(n, "level", 0), ChosenBy(n, "output", "nil"),
             ExtrasBy(n), ChosenBy(n, "mirror", FALSE))

LEMMA ConfigStep ==
  ASSUME IInv, NEW n \in Nat, n < Len(options)
  PROVE  ConfigBy(n + 1) = Apply(ConfigBy(n), options[n + 1])
<1> DEFINE o == options[n + 1]
<1>1. Typed(o)
  <2>1. options \in OptionLists /\ Len(options) \in Nat
    BY Types, OptionsAssumption DEF IInv
  <2> QED
    BY <2>1, OptionsAssumption
<1>2. ExtrasBy(n + 1) = ExtrasBy(n) \o ExtrasOf(o)
  BY ExtrasStep
<1>3. o.name # "extras" => ExtrasBy(n + 1) = ExtrasBy(n)
  <2> SUFFICES ASSUME o.name # "extras" PROVE ExtrasBy(n) \o <<>> = ExtrasBy(n)
    BY <1>2 DEF ExtrasOf
  <2>1. ExtrasBy(n) \in Seq(SinkRecord)
    <3>1. [i \in 1..n |-> ExtrasOf(options[i])] \in Seq(Seq(SinkRecord))
      <4>1. options \in OptionLists /\ Len(options) \in Nat
        BY Types, OptionsAssumption DEF IInv
      <4>2. \A i \in 1..n : Typed(options[i])
        BY <4>1, OptionsAssumption
      <4>3. \A p : Typed(p) => ExtrasOf(p) \in Seq(SinkRecord)
        BY EmptySeq DEF Typed, ExtrasOf
      <4> QED
        BY <4>2, <4>3
    <3> QED
      BY <3>1, FlattenType DEF ExtrasBy, ExtrasOf
  <2> QED
    BY <2>1, ConcatEmptySeq
<1>4. \A name, default : ChosenBy(n + 1, name, default)
                         = IF o.name = name THEN o.value ELSE ChosenBy(n, name, default)
  BY ChosenStep
<1> HIDE DEF o
<1> DEFINE shape == ChosenBy(n, "format", "auto")
           least == ChosenBy(n, "level", 0)
           place == ChosenBy(n, "output", "nil")
           more == ExtrasBy(n)
           mirrored == ChosenBy(n, "mirror", FALSE)
           value == o.value
           before == ConfigBy(n)
<1>11. before = ConfigOf(shape, least, place, more, mirrored)
  BY DEF ConfigBy
<1>12. (o.name = "mirror" => value = TRUE)
  BY <1>1 DEF Typed
<1> SUFFICES ConfigBy(n + 1) = Apply(before, o)
  BY DEF before, o
<1> HIDE DEF shape, least, place, more, mirrored, value, before
<1>5. CASE o.name = "format"
  <2>1. Apply(before, o) = WithFormat(before, value)
    BY <1>5 DEF Apply, value
  <2>2. /\ ChosenBy(n + 1, "format", "auto") = value
        /\ ChosenBy(n + 1, "level", 0) = least
        /\ ChosenBy(n + 1, "output", "nil") = place
        /\ ChosenBy(n + 1, "mirror", FALSE) = mirrored
        /\ ExtrasBy(n + 1) = more
    BY <1>3, <1>4, <1>5 DEF shape, least, place, more, mirrored, value
  <2>3. WithFormat(before, value) = ConfigOf(value, least, place, more, mirrored)
    BY <1>11, FormatSet
  <2>4. ConfigBy(n + 1) = ConfigOf(value, least, place, more, mirrored)
    BY <2>1, <2>2, Zenon DEF ConfigBy
  <2> QED
    BY <2>1, <2>3, <2>4, Zenon
<1>6. CASE o.name = "level"
  <2>1. Apply(before, o) = WithLevel(before, value)
    BY <1>6 DEF Apply, value
  <2>2. /\ ChosenBy(n + 1, "format", "auto") = shape
        /\ ChosenBy(n + 1, "level", 0) = value
        /\ ChosenBy(n + 1, "output", "nil") = place
        /\ ChosenBy(n + 1, "mirror", FALSE) = mirrored
        /\ ExtrasBy(n + 1) = more
    BY <1>3, <1>4, <1>6 DEF shape, least, place, more, mirrored, value
  <2>3. WithLevel(before, value) = ConfigOf(shape, value, place, more, mirrored)
    BY <1>11, LevelSet
  <2>4. ConfigBy(n + 1) = ConfigOf(shape, value, place, more, mirrored)
    BY <2>1, <2>2, Zenon DEF ConfigBy
  <2> QED
    BY <2>1, <2>3, <2>4, Zenon
<1>7. CASE o.name = "output"
  <2>1. Apply(before, o) = WithOutput(before, value)
    BY <1>7 DEF Apply, value
  <2>2. /\ ChosenBy(n + 1, "format", "auto") = shape
        /\ ChosenBy(n + 1, "level", 0) = least
        /\ ChosenBy(n + 1, "output", "nil") = value
        /\ ChosenBy(n + 1, "mirror", FALSE) = mirrored
        /\ ExtrasBy(n + 1) = more
    BY <1>3, <1>4, <1>7 DEF shape, least, place, more, mirrored, value
  <2>3. WithOutput(before, value) = ConfigOf(shape, least, value, more, mirrored)
    BY <1>11, OutputSet
  <2>4. ConfigBy(n + 1) = ConfigOf(shape, least, value, more, mirrored)
    BY <2>1, <2>2, Zenon DEF ConfigBy
  <2> QED
    BY <2>1, <2>3, <2>4, Zenon
<1>8. CASE o.name = "extras"
  <2>1. Apply(before, o) = WithExtraHandlers(before, value)
    BY <1>8 DEF Apply, value
  <2>5. ExtrasBy(n + 1) = more \o value
    <3>1. ExtrasOf(o) = value
      BY <1>8 DEF ExtrasOf, value
    <3> QED
      BY <1>2, <3>1 DEF more, o
  <2>6. /\ ChosenBy(n + 1, "format", "auto") = shape /\ ChosenBy(n + 1, "level", 0) = least
        /\ ChosenBy(n + 1, "output", "nil") = place /\ ChosenBy(n + 1, "mirror", FALSE) = mirrored
    BY <1>4, <1>8 DEF shape, least, place, mirrored
  <2>3. WithExtraHandlers(before, value) = ConfigOf(shape, least, place, more \o value, mirrored)
    BY <1>11, ExtrasAdded
  <2>4. ConfigBy(n + 1) = ConfigOf(shape, least, place, more \o value, mirrored)
    BY <2>1, <2>5, <2>6, Zenon DEF ConfigBy
  <2> QED
    BY <2>1, <2>3, <2>4, Zenon
<1>9. CASE o.name = "mirror"
  <2>1. Apply(before, o) = WithStderrMirror(before) /\ value = TRUE
    BY <1>9, <1>12 DEF Apply
  <2>2. /\ ChosenBy(n + 1, "format", "auto") = shape
        /\ ChosenBy(n + 1, "level", 0) = least
        /\ ChosenBy(n + 1, "output", "nil") = place
        /\ ChosenBy(n + 1, "mirror", FALSE) = value
        /\ ExtrasBy(n + 1) = more
    BY <1>3, <1>4, <1>9 DEF shape, least, place, more, mirrored, value
  <2>3. WithStderrMirror(before) = ConfigOf(shape, least, place, more, TRUE)
    BY <1>11, MirrorSet
  <2>4. ConfigBy(n + 1) = ConfigOf(shape, least, place, more, TRUE)
    BY <2>1, <2>2, Zenon DEF ConfigBy
  <2> QED
    BY <2>1, <2>3, <2>4, Zenon
<1>10. o.name \in {"format", "output", "level", "extras", "mirror"}
  BY <1>1 DEF Typed
<1> QED
  BY <1>5, <1>6, <1>7, <1>8, <1>9, <1>10

AppliedBy == IF applied <= Len(options) THEN applied ELSE Len(options)

LEMMA OptionsIs == OptionsInv <=> config = ConfigBy(AppliedBy)
  BY DEF OptionsInv, ConfigBy, ConfigOf, AppliedBy

LEMMA ConfigStays ==
  ASSUME UNCHANGED options, NEW n
  PROVE  ConfigBy(n)' = ConfigBy(n)
BY DEF ConfigBy, ChosenBy, ExtrasBy

-----------------------------------------------------------------------------
(* What Handle has given to the sinks.                                     *)

Places == {To(sink) : sink \in SinkRecord}

LEMMA AtType ==
  ASSUME NEW sink \in SinkRecord
  PROVE  At(To(sink), sink.level) \in Seq(Places)
<1>1. To(sink) \in Places
  BY DEF Places
<1> HIDE DEF Places
<1> QED
  BY <1>1, EmptySeq DEF At

(* The parts of Accepting: none, one more sink, some sinks after others. *)
Parts(some, n) == [i \in 1..n |-> At(To(some[i]), some[i].level)]

LEMMA PartsType ==
  ASSUME NEW some \in Seq(SinkRecord), NEW n \in 0..Len(some)
  PROVE  /\ Parts(some, n) \in Seq(Seq(Places)) /\ Len(Parts(some, n)) = n
         /\ Accepting(some, n) = FlattenSeq(Parts(some, n))
         /\ Accepting(some, n) \in Seq(Places)
<1>1. \A i \in 1..n : some[i] \in SinkRecord
  OBVIOUS
<1>2. \A i \in 1..n : At(To(some[i]), some[i].level) \in Seq(Places)
  BY <1>1, AtType
<1>3. Parts(some, n) \in Seq(Seq(Places)) /\ Len(Parts(some, n)) = n
  BY <1>2 DEF Parts
<1>4. Accepting(some, n) = FlattenSeq(Parts(some, n))
  BY DEF Accepting, Parts
<1> QED
  BY <1>3, <1>4, FlattenType

LEMMA AcceptingNone ==
  ASSUME NEW some
  PROVE  Accepting(some, 0) = <<>>
BY FlattenEmpty DEF Accepting

LEMMA AcceptingStep ==
  ASSUME NEW some \in Seq(SinkRecord), NEW n \in 1..Len(some)
  PROVE  Accepting(some, n) = Accepting(some, n - 1) \o At(To(some[n]), some[n].level)
<1> DEFINE s == Parts(some, n - 1)  t == Parts(some, n)  x == At(To(some[n]), some[n].level)
<1>1. n \in 0..Len(some) /\ n - 1 \in 0..Len(some) /\ some[n] \in SinkRecord
  OBVIOUS
<1>2. /\ s \in Seq(Seq(Places)) /\ Len(s) = n - 1 /\ Accepting(some, n - 1) = FlattenSeq(s)
      /\ t \in Seq(Seq(Places)) /\ Len(t) = n /\ Accepting(some, n) = FlattenSeq(t)
  BY <1>1, PartsType
<1>3. x \in Seq(Places)
  BY <1>1, AtType
<1>4. \A i \in 1..n : t[i] = IF i = n THEN x ELSE s[i]
  BY DEF Parts
<1> HIDE DEF s, t, x
<1>5. t = Append(s, x)
  <2>1. /\ Append(s, x) \in Seq(Seq(Places)) /\ Len(Append(s, x)) = n
        /\ \A i \in 1..Len(s) : Append(s, x)[i] = s[i]
        /\ Append(s, x)[n] = x
    BY <1>2, <1>3, AppendProperties
  <2>2. \A i \in 1..n : t[i] = Append(s, x)[i]
    BY <1>2, <1>4, <2>1
  <2> QED
    BY <1>2, <2>1, <2>2, SeqEqual
<1> QED
  BY <1>2, <1>3, <1>5, FlattenStep DEF x

LEMMA AcceptingOne ==
  ASSUME NEW sink \in SinkRecord
  PROVE  Accepting(<<sink>>, 1) = At(To(sink), sink.level)
<1>1. Accepting(<<sink>>, 1) = FlattenSeq(<<At(To(sink), sink.level)>>)
  <2>1. [i \in 1..1 |-> At(To(<<sink>>[i]), <<sink>>[i].level)] = <<At(To(sink), sink.level)>>
    OBVIOUS
  <2> QED
    BY <2>1 DEF Accepting
<1> QED
  BY <1>1, AtType, FlattenOne

LEMMA AcceptingConcat ==
  ASSUME NEW s \in Seq(SinkRecord), NEW t \in Seq(SinkRecord)
  PROVE  Accepting(s \o t, Len(s \o t)) = Accepting(s, Len(s)) \o Accepting(t, Len(t))
<1> DEFINE u == s \o t  p == Parts(s, Len(s))  q == Parts(t, Len(t))  r == Parts(u, Len(u))
<1>1. /\ u \in Seq(SinkRecord) /\ Len(u) = Len(s) + Len(t)
      /\ \A i \in 1..(Len(s) + Len(t)) : u[i] = IF i <= Len(s) THEN s[i] ELSE t[i - Len(s)]
  BY ConcatProperties
<1>2. /\ p \in Seq(Seq(Places)) /\ Len(p) = Len(s) /\ Accepting(s, Len(s)) = FlattenSeq(p)
      /\ q \in Seq(Seq(Places)) /\ Len(q) = Len(t) /\ Accepting(t, Len(t)) = FlattenSeq(q)
  BY PartsType
<1> HIDE DEF u
<1>3. r \in Seq(Seq(Places)) /\ Len(r) = Len(u) /\ Accepting(u, Len(u)) = FlattenSeq(r)
  BY <1>1, PartsType
<1>4. \A i \in 1..Len(u) : r[i] = IF i <= Len(s) THEN p[i] ELSE q[i - Len(s)]
  <2> SUFFICES ASSUME NEW i \in 1..Len(u) PROVE r[i] = IF i <= Len(s) THEN p[i] ELSE q[i - Len(s)]
    OBVIOUS
  <2>1. CASE i <= Len(s)
    <3>1. i \in 1..Len(s) /\ u[i] = s[i]
      BY <1>1, <2>1
    <3> QED
      BY <2>1, <3>1 DEF Parts
  <2>2. CASE ~ (i <= Len(s))
    <3>1. i - Len(s) \in 1..Len(t) /\ u[i] = t[i - Len(s)]
      BY <1>1, <2>2
    <3> QED
      BY <2>2, <3>1 DEF Parts
  <2> QED
    BY <2>1, <2>2
<1> HIDE DEF p, q, r
<1>5. r = p \o q
  <2>1. /\ p \o q \in Seq(Seq(Places)) /\ Len(p \o q) = Len(u)
        /\ \A i \in 1..Len(u) : (p \o q)[i] = IF i <= Len(s) THEN p[i] ELSE q[i - Len(s)]
    <3>1. /\ p \o q \in Seq(Seq(Places)) /\ Len(p \o q) = Len(p) + Len(q)
          /\ \A i \in 1..(Len(p) + Len(q)) : (p \o q)[i] = IF i <= Len(p) THEN p[i] ELSE q[i - Len(p)]
      BY <1>2, ConcatProperties
    <3> QED
      BY <1>1, <1>2, <3>1
  <2> QED
    BY <1>3, <1>4, <2>1, SeqEqual
<1>6. FlattenSeq(r) = FlattenSeq(p) \o FlattenSeq(q)
  BY <1>2, <1>5, FlattenConcat
<1> QED
  BY <1>2, <1>3, <1>6 DEF u

LEMMA InitDInv == Init => DInv
<1> SUFFICES ASSUME Init PROVE DInv
  OBVIOUS
<1>1. IInv
  BY InitIInv
<1>2. applied = 0 /\ config = Config /\ sinks = <<>> /\ call.pc = "idle" /\ Len(options) \in Nat
  BY OptionsAssumption DEF Init, Idle
<1>3. AppliedBy = 0
  BY <1>2 DEF AppliedBy
<1>4. ConfigBy(0) = Config
  BY ChosenNone, ExtrasNone DEF ConfigBy, ConfigOf, Config
<1>5. OptionsInv
  BY <1>2, <1>3, <1>4, OptionsIs
<1>6. ReachedInv
  BY <1>2 DEF ReachedInv
<1> QED
  BY <1>1, <1>5, <1>6 DEF DInv

LEMMA ApplyOptionReaches ==
  ASSUME DInv, ApplyOption
  PROVE  OptionsInv' /\ ReachedInv'
<1>1. /\ applied < Len(options) /\ applied' = applied + 1 /\ config' = Apply(config, options[applied + 1])
      /\ UNCHANGED <<options, sinks, call, kept>>
  BY DEF ApplyOption
<1>2. IInv /\ applied \in Nat /\ Len(options) \in Nat
  <2>1. options \in OptionLists /\ applied \in 0..(Len(options) + 1)
    BY Types DEF DInv, IInv
  <2> QED
    BY <2>1, OptionsAssumption DEF DInv
<1>3. AppliedBy = applied /\ AppliedBy' = applied + 1
  BY <1>1, <1>2 DEF AppliedBy
<1>4. config = ConfigBy(applied)
  BY <1>3, OptionsIs DEF DInv
<1>5. config' = ConfigBy(applied + 1)
  BY <1>1, <1>2, <1>4, ConfigStep
<1>6. config' = ConfigBy(AppliedBy)'
  BY <1>1, <1>3, <1>5 DEF ConfigBy, ConfigOf, ChosenBy, ExtrasBy
<1>7. OptionsInv'
  BY <1>6 DEF OptionsInv, ConfigBy, ConfigOf, AppliedBy
<1>8. ReachedInv'
  <2>1. applied <= Len(options) /\ applied' <= Len(options')
    BY <1>1, <1>2
  <2>2. sinks = <<>> /\ call.pc = "idle"
    BY <1>2, <2>1 DEF IInv, DerivedInv
  <2> QED
    BY <1>1, <2>1, <2>2 DEF ReachedInv
<1> QED
  BY <1>7, <1>8

LEMMA InitReturnsReaches ==
  ASSUME DInv, InitReturns
  PROVE  OptionsInv' /\ ReachedInv'
<1>1. /\ applied = Len(options) /\ applied' = applied + 1 /\ sinks' = LoggingInit(config)
      /\ UNCHANGED <<env, options, config, call, kept>>
  BY DEF InitReturns
<1>2. IInv /\ Len(options) \in Nat
  <2>1. options \in OptionLists
    BY Types DEF DInv, IInv
  <2> QED
    BY <2>1, OptionsAssumption DEF DInv
<1>3. AppliedBy = Len(options) /\ AppliedBy' = Len(options)
  BY <1>1, <1>2 DEF AppliedBy
<1>4. config = ConfigBy(Len(options))
  BY <1>3, OptionsIs DEF DInv
<1>5. config' = ConfigBy(AppliedBy)'
  <2>1. ConfigBy(Len(options)) = ConfigBy(AppliedBy)
    BY <1>3
  <2>2. UNCHANGED AppliedBy
    BY <1>3
  <2>3. ConfigBy(AppliedBy)' = ConfigBy(AppliedBy)
    BY <1>1, <2>2 DEF ConfigBy, ConfigOf, ChosenBy, ExtrasBy
  <2> QED
    BY <1>1, <1>4, <2>1, <2>3
<1>6. OptionsInv'
  BY <1>5 DEF OptionsInv, ConfigBy, ConfigOf, AppliedBy
<1>7. ReachedInv'
  <2>1. call.pc = "idle"
    BY <1>1, <1>2 DEF IInv, DerivedInv
  <2>2. ~ (applied' <= Len(options'))
    BY <1>1, <1>2
  <2>3. LoggingInit(config)' = LoggingInit(config)
    BY <1>1 DEF LoggingInit, compose, otelHandler, newStderrMirrorHandler, baseHandler
  <2> QED
    BY <1>1, <2>1, <2>2, <2>3 DEF ReachedInv
<1> QED
  BY <1>6, <1>7

(* After Init, the options and the sinks stay as they are. *)
LEMMA SetupStays ==
  ASSUME DInv, UNCHANGED setup
  PROVE  /\ OptionsInv'
         /\ sinks' = IF applied' <= Len(options') THEN <<>> ELSE LoggingInit(config)'
<1>1. UNCHANGED <<env, options, applied, config, sinks>>
  BY DEF setup
<1>2. OptionsInv'
  BY <1>1 DEF DInv, OptionsInv, ChosenBy, ExtrasBy
<1>3. LoggingInit(config)' = LoggingInit(config)
  BY <1>1 DEF LoggingInit, compose, otelHandler, newStderrMirrorHandler, baseHandler
<1> QED
  BY <1>1, <1>2, <1>3 DEF DInv, ReachedInv

(* What counts for the record's way stays as it is. *)
LEMMA AcceptingStays ==
  ASSUME UNCHANGED sinks, call'.level = call.level, NEW n
  PROVE  Accepting(sinks, n)' = Accepting(sinks, n)
BY DEF Accepting, At

LEMMA DerivingReaches ==
  ASSUME DInv, UNCHANGED <<setup, call, kept>>
  PROVE  OptionsInv' /\ ReachedInv'
<1>1. OptionsInv' /\ sinks' = IF applied' <= Len(options') THEN <<>> ELSE LoggingInit(config)'
  BY SetupStays
<1>2. UNCHANGED <<sinks, call, kept>>
  BY DEF setup
<1>3. Reached' = Reached
  BY <1>2 DEF Reached
<1>4. \A n : Accepting(sinks, n)' = Accepting(sinks, n)
  BY <1>2, AcceptingStays
<1>5. Accepting(sinks, call.next - 1)' = Accepting(sinks, call.next - 1)
      /\ Accepting(sinks, Len(sinks))' = Accepting(sinks, Len(sinks))
  BY <1>2, <1>4 DEF Accepting, At
<1>6. ReachedInv'
  BY <1>1, <1>2, <1>3, <1>5 DEF DInv, ReachedInv
<1> QED
  BY <1>1, <1>6

(* A record that no sink accepts is not handed on. *)
LEMMA AcceptingNobody ==
  ASSUME NEW some \in Seq(SinkRecord), \A i \in 1..Len(some) : ~ (some[i].level <= call.level)
  PROVE  Accepting(some, Len(some)) = <<>>
<1>1. /\ Parts(some, Len(some)) \in Seq(Seq(Places)) /\ Len(Parts(some, Len(some))) = Len(some)
      /\ Accepting(some, Len(some)) = FlattenSeq(Parts(some, Len(some)))
  BY PartsType
<1>2. \A i \in 1..Len(some) : Parts(some, Len(some))[i] = <<>>
  BY DEF Parts, At
<1> QED
  BY <1>1, <1>2, FlattenNothing

LEMMA LogReaches ==
  ASSUME DInv, NEW l \in 1..Len(loggers), NEW level \in Levels, NEW n \in 0..MaxAttrs, NEW spare \in {0, 2},
         NEW span \in BOOLEAN, Log(l, level, n, spare, span)
  PROVE  OptionsInv' /\ ReachedInv'
<1>1. /\ call.pc = "idle" /\ sinks # <<>> /\ UNCHANGED <<setup, kept>>
      /\ call'.pc = (IF Enabled(level) THEN "handle" ELSE "done") /\ call'.next = 1 /\ call'.level = level
  BY DEF Log, Idle
<1>2. OptionsInv' /\ sinks' = IF applied' <= Len(options') THEN <<>> ELSE LoggingInit(config)'
  BY <1>1, SetupStays
<1>3. sinks' = sinks /\ sinks \in Seq(SinkRecord) /\ kept = <<>> /\ kept' = <<>>
  BY <1>1, Types DEF DInv, IInv, RecordInv, setup
<1>4. Reached' = <<>>
  BY <1>3 DEF Reached
<1>5. CASE Enabled(level)
  <2>1. Accepting(sinks, call.next - 1)' = <<>>
    <3>1. Accepting(sinks, 0)' = <<>>
      BY FlattenEmpty DEF Accepting
    <3> QED
      BY <1>1, <3>1 DEF Accepting
  <2> QED
    BY <1>1, <1>2, <1>3, <1>4, <1>5, <2>1 DEF ReachedInv
<1>6. CASE ~Enabled(level)
  <2>1. \A i \in 1..Len(sinks) : ~ (sinks[i].level <= level)
    BY <1>6 DEF Enabled, Indices
  <2>2. \A i \in 1..Len(sinks) : At(To(sinks[i]), sinks[i].level)' = <<>>
    BY <1>1, <1>3, <2>1 DEF At
  <2>3. Accepting(sinks, Len(sinks))' = FlattenSeq([i \in 1..Len(sinks) |-> <<>>])
    BY <1>3, <2>2 DEF Accepting
  <2>4. FlattenSeq([i \in 1..Len(sinks) |-> <<>>]) = <<>>
    <3>1. Len(sinks) \in Nat /\ <<>> \in Seq(Places)
      BY <1>3, LenProperties, EmptySeq
    <3>2. [i \in 1..Len(sinks) |-> <<>>] \in Seq(Seq(Places)) /\ Len([i \in 1..Len(sinks) |-> <<>>]) = Len(sinks)
      BY <3>1
    <3> QED
      BY <3>2, FlattenNothing
  <2> QED
    BY <1>1, <1>2, <1>3, <1>4, <1>6, <2>3, <2>4 DEF ReachedInv
<1> QED
  BY <1>5, <1>6

LEMMA HandleChildReaches ==
  ASSUME DInv, NEW failed \in BOOLEAN, HandleChild(failed)
  PROVE  OptionsInv' /\ ReachedInv'
<1> DEFINE next == call.next
<1>1. /\ call.pc = "handle" /\ next \in Indices /\ sinks[next].level <= call.level
      /\ UNCHANGED setup /\ \E k : k.sink = next /\ kept' = Append(kept, k)
      /\ call' = [call EXCEPT !.next = next + 1, !.errs = Joined(failed)]
  BY DEF HandleChild, Accepts, Following
<1>2. OptionsInv' /\ sinks' = IF applied' <= Len(options') THEN <<>> ELSE LoggingInit(config)'
  BY <1>1, SetupStays
<1>3. /\ sinks' = sinks /\ sinks \in Seq(SinkRecord) /\ Len(sinks) \in Nat /\ next \in 1..Len(sinks)
      /\ kept \in Seq(KeptRecord) /\ call \in CallRecord
  BY <1>1, Types, LenProperties DEF DInv, IInv, setup, Indices
<1>4. call'.pc = "handle" /\ call'.next = next + 1 /\ call'.level = call.level
  BY <1>1, <1>3 DEF CallRecord
<1>5. Reached' = Append(Reached, To(sinks[next]))
  <2>1. PICK k : k.sink = next /\ kept' = Append(kept, k)
    BY <1>1
  <2>2. /\ Len(kept) \in Nat /\ Len(kept') = Len(kept) + 1 /\ kept'[Len(kept) + 1] = k
        /\ \A j \in 1..Len(kept) : kept'[j] = kept[j]
    BY <1>3, <2>1
  <2> DEFINE R == [j \in 1..Len(kept) |-> To(sinks[kept[j].sink])]
             Q == [j \in 1..(Len(kept) + 1) |-> IF j <= Len(kept) THEN R[j] ELSE To(sinks[next])]
  <2>3. Reached' = Q
    <3>1. Reached' = [j \in 1..(Len(kept) + 1) |-> To(sinks[kept'[j].sink])]
      BY <1>3, <2>2 DEF Reached, To
    <3>2. \A j \in 1..(Len(kept) + 1) : To(sinks[kept'[j].sink]) = Q[j]
      BY <2>1, <2>2
    <3> QED
      BY <3>1, <3>2
  <2>4. Append(R, To(sinks[next])) = Q
    BY <2>2
  <2> QED
    BY <2>3, <2>4 DEF Reached
<1>6. Accepting(sinks, next) = Append(Accepting(sinks, next - 1), To(sinks[next]))
  <2>1. Accepting(sinks, next) = Accepting(sinks, next - 1) \o <<To(sinks[next])>>
    BY <1>1, <1>3, AcceptingStep DEF At
  <2>2. Accepting(sinks, next - 1) \in Seq(Places) /\ To(sinks[next]) \in Places
    <3>1. next - 1 \in 0..Len(sinks) /\ sinks[next] \in SinkRecord
      BY <1>3
    <3> QED
      BY <1>3, <3>1, PartsType DEF Places
  <2> QED
    BY <2>1, <2>2, AppendIsConcat
<1>7. Reached' = Accepting(sinks, next)
  BY <1>1, <1>5, <1>6 DEF DInv, ReachedInv
<1>8. Accepting(sinks, call.next - 1)' = Accepting(sinks, next)
  <2>1. call'.next - 1 = next
    BY <1>3, <1>4
  <2> QED
    BY <1>3, <1>4, <2>1 DEF Accepting, At
<1>9. ReachedInv'
  BY <1>1, <1>2, <1>3, <1>4, <1>7, <1>8 DEF DInv, ReachedInv
<1> QED
  BY <1>2, <1>9

LEMMA SkipChildReaches ==
  ASSUME DInv, SkipChild
  PROVE  OptionsInv' /\ ReachedInv'
<1> DEFINE next == call.next
<1>1. /\ call.pc = "handle" /\ next \in Indices /\ ~ (sinks[next].level <= call.level)
      /\ UNCHANGED <<setup, kept>> /\ call' = [call EXCEPT !.next = @ + 1]
  BY DEF SkipChild, Accepts
<1>2. OptionsInv' /\ sinks' = IF applied' <= Len(options') THEN <<>> ELSE LoggingInit(config)'
  BY <1>1, SetupStays
<1>3. /\ sinks' = sinks /\ sinks \in Seq(SinkRecord) /\ Len(sinks) \in Nat /\ next \in 1..Len(sinks)
      /\ call \in CallRecord
  BY <1>1, Types, LenProperties DEF DInv, IInv, setup, Indices
<1>4. call'.pc = "handle" /\ call'.next = next + 1 /\ call'.level = call.level
  BY <1>1, <1>3 DEF CallRecord
<1>5. Reached' = Reached
  BY <1>1, <1>3 DEF Reached
<1>6. Accepting(sinks, next) = Accepting(sinks, next - 1)
  <2>1. Accepting(sinks, next) = Accepting(sinks, next - 1) \o <<>>
    BY <1>1, <1>3, AcceptingStep DEF At
  <2>2. Accepting(sinks, next - 1) \in Seq(Places)
    <3>1. next - 1 \in 0..Len(sinks)
      BY <1>3
    <3> QED
      BY <1>3, <3>1, PartsType
  <2> QED
    BY <2>1, <2>2, ConcatEmptySeq
<1>7. Reached' = Accepting(sinks, next)
  BY <1>1, <1>5, <1>6 DEF DInv, ReachedInv
<1>8. Accepting(sinks, call.next - 1)' = Accepting(sinks, next)
  <2>1. call'.next - 1 = next
    BY <1>3, <1>4
  <2> QED
    BY <1>3, <1>4, <2>1 DEF Accepting, At
<1>9. ReachedInv'
  BY <1>1, <1>2, <1>3, <1>4, <1>7, <1>8 DEF DInv, ReachedInv
<1> QED
  BY <1>2, <1>9

LEMMA HandleReturnsReaches ==
  ASSUME DInv, HandleReturns
  PROVE  OptionsInv' /\ ReachedInv'
<1>1. /\ call.pc = "handle" /\ call.next > Len(sinks) /\ UNCHANGED <<setup, kept>>
      /\ call' = [call EXCEPT !.pc = "done"]
  BY DEF HandleReturns
<1>2. OptionsInv' /\ sinks' = IF applied' <= Len(options') THEN <<>> ELSE LoggingInit(config)'
  BY <1>1, SetupStays
<1>3. /\ sinks' = sinks /\ sinks \in Seq(SinkRecord) /\ Len(sinks) \in Nat /\ call \in CallRecord
  BY <1>1, Types, LenProperties DEF DInv, IInv, setup
<1>4. call'.pc = "done" /\ call'.level = call.level /\ call.next - 1 = Len(sinks)
  BY <1>1, <1>3 DEF CallRecord
<1>5. Reached' = Accepting(sinks, Len(sinks))
  BY <1>1, <1>3, <1>4 DEF DInv, ReachedInv, Reached
<1>6. Accepting(sinks, Len(sinks))' = Accepting(sinks, Len(sinks))
  BY <1>3, <1>4 DEF Accepting, At
<1>7. ReachedInv'
  BY <1>1, <1>2, <1>3, <1>4, <1>5, <1>6 DEF DInv, ReachedInv
<1> QED
  BY <1>2, <1>7

LEMMA StepDInv == DInv /\ [Next]_vars => DInv'
<1> SUFFICES ASSUME DInv, [Next]_vars PROVE OptionsInv' /\ ReachedInv'
  BY StepIInv DEF DInv
<1>1. CASE ApplyOption
  BY <1>1, ApplyOptionReaches
<1>2. CASE InitReturns
  BY <1>2, InitReturnsReaches
<1>3. ASSUME NEW l \in 1..Len(loggers), WithAttrs(l) \/ WithGroup(l) PROVE OptionsInv' /\ ReachedInv'
  BY <1>3, DerivingReaches DEF WithAttrs, WithGroup, Derive
<1>4. ASSUME NEW l \in 1..Len(loggers), NEW level \in Levels, NEW n \in 0..MaxAttrs, NEW spare \in {0, 2},
             NEW span \in BOOLEAN, Log(l, level, n, spare, span)
      PROVE  OptionsInv' /\ ReachedInv'
  BY <1>4, LogReaches
<1>5. ASSUME NEW failed \in BOOLEAN, HandleChild(failed) PROVE OptionsInv' /\ ReachedInv'
  BY <1>5, HandleChildReaches
<1>6. CASE SkipChild
  BY <1>6, SkipChildReaches
<1>7. CASE HandleReturns
  BY <1>7, HandleReturnsReaches
<1>8. CASE UNCHANGED vars
  BY <1>8, DerivingReaches DEF vars
<1> QED
  BY <1>1, <1>2, <1>3, <1>4, <1>5, <1>6, <1>7, <1>8 DEF Next

(* DInv holds in every state: what the options have made of the config, and *)
(* which sinks the record has been given to.                                *)
THEOREM DeliveryInvariance == Spec => []DInv
<1>1. Init => DInv
  BY InitDInv
<1>2. DInv /\ [Next]_vars => DInv'
  BY StepDInv
<1> QED
  BY <1>1, <1>2, PTL DEF Spec

LEMMA DInvReaches == DInv => EverySinkReached
<1> SUFFICES ASSUME DInv, call.pc = "done" PROVE EverySinkReached
  BY DEF EverySinkReached
<1> DEFINE c == config
           primary == IF env.otlp THEN otelHandler ELSE baseHandler(c)
           mirror == IF c.mirror THEN <<newStderrMirrorHandler(c)>> ELSE <<>>
           rest == c.extras \o mirror
<1>1. /\ c \in ConfigRecord /\ sinks # <<>> /\ call.level \in Levels /\ ~ (applied <= Len(options))
      /\ sinks = LoggingInit(c) /\ Reached = Accepting(sinks, Len(sinks))
  BY Types DEF DInv, IInv, ReachedInv
<1>2. c = ConfigBy(Len(options))
  BY <1>1, OptionsIs DEF DInv, AppliedBy
<1>3. /\ c.level = Chosen("level", 0) /\ c.output = Chosen("output", "nil") /\ c.format = Chosen("format", "auto")
      /\ c.mirror = Chosen("mirror", FALSE) /\ c.extras = ExtrasBy(Len(options))
  BY <1>2 DEF ConfigBy, ConfigOf, Chosen
<1>4. c.extras \in Seq(SinkRecord) /\ c.mirror \in BOOLEAN /\ c.level \in Int
  BY <1>1 DEF ConfigRecord
<1>5. baseHandler(c) \in SinkRecord /\ newStderrMirrorHandler(c) \in SinkRecord /\ otelHandler \in SinkRecord
  BY <1>1 DEF baseHandler, newStderrMirrorHandler, otelHandler, Sink, SinkRecord, ConfigRecord, Formats, Always
<1>6. primary \in SinkRecord /\ mirror \in Seq(SinkRecord) /\ rest \in Seq(SinkRecord)
  <2>1. mirror \in Seq(SinkRecord)
    BY <1>5, EmptySeq
  <2>2. rest \in Seq(SinkRecord)
    BY <1>4, <2>1, ConcatProperties
  <2> QED
    BY <1>5, <2>1, <2>2
<1>7. sinks = <<primary>> \o rest
  <2>1. CASE env.otlp
    BY <1>1, <2>1 DEF LoggingInit, compose
  <2>2. CASE ~env.otlp
    <3>1. ~c.mirror /\ sinks = <<primary>> \o c.extras
      BY <1>1, <2>2 DEF LoggingInit, compose
    <3>2. rest = c.extras
      BY <1>4, <3>1, ConcatEmptySeq
    <3> QED
      BY <3>1, <3>2
  <2> QED
    BY <2>1, <2>2
<1> HIDE DEF primary, mirror, rest
<1>8. Accepting(sinks, Len(sinks)) = At(To(primary), primary.level) \o Accepting(rest, Len(rest))
  <2>1. <<primary>> \in Seq(SinkRecord) /\ Len(<<primary>>) = 1
    BY <1>6
  <2>2. Accepting(<<primary>>, 1) = At(To(primary), primary.level)
    BY <1>6, AcceptingOne
  <2> QED
    BY <1>6, <1>7, <2>1, <2>2, AcceptingConcat
<1>9. Accepting(rest, Len(rest)) = Accepting(c.extras, Len(c.extras)) \o Accepting(mirror, Len(mirror))
  BY <1>4, <1>6, AcceptingConcat DEF rest
<1>10. Accepting(mirror, Len(mirror)) = IF c.mirror THEN At(<<"stderr", "json">>, c.level) ELSE <<>>
  <2>1. CASE c.mirror
    <3>1. mirror = <<newStderrMirrorHandler(c)>> /\ Len(mirror) = 1
      BY <2>1 DEF mirror
    <3>2. Accepting(mirror, Len(mirror)) = At(To(newStderrMirrorHandler(c)), newStderrMirrorHandler(c).level)
      BY <1>5, <3>1, AcceptingOne
    <3>3. To(newStderrMirrorHandler(c)) = <<"stderr", "json">> /\ newStderrMirrorHandler(c).level = c.level
      BY DEF To, newStderrMirrorHandler, Sink
    <3> QED
      BY <2>1, <3>2, <3>3
  <2>2. CASE ~c.mirror
    <3>1. mirror = <<>> /\ Len(mirror) = 0
      BY <2>2 DEF mirror
    <3> QED
      BY <2>2, <3>1, AcceptingNone
  <2> QED
    BY <2>1, <2>2
<1>11. At(To(primary), primary.level)
       = IF env.otlp THEN << <<"collector", "otlp">> >>
         ELSE At(<<IF c.output = "nil" THEN "stderr" ELSE c.output,
                   IF c.format # "auto" THEN c.format ELSE IF env.pod THEN "json" ELSE "text">>, c.level)
  <2>1. CASE env.otlp
    <3>1. To(primary) = <<"collector", "otlp">> /\ primary.level = Always
      BY <2>1 DEF primary, otelHandler, Sink, To
    <3>2. Always <= call.level
      BY <1>1, BoundsAssumption
    <3> QED
      BY <2>1, <3>1, <3>2 DEF At
  <2>2. CASE ~env.otlp
    <3>1. primary = baseHandler(c)
      BY <2>2 DEF primary
    <3>2. /\ primary.level = c.level
          /\ To(primary) = <<IF c.output = "nil" THEN "stderr" ELSE c.output,
                             IF c.format # "auto" THEN c.format ELSE IF env.pod THEN "json" ELSE "text">>
      BY <3>1 DEF baseHandler, Sink, To
    <3> QED
      BY <2>2, <3>2
  <2> QED
    BY <2>1, <2>2
<1> DEFINE extras == ExtrasBy(Len(options))
           first == IF env.otlp THEN << <<"collector", "otlp">> >>
                    ELSE At(<<IF Chosen("output", "nil") = "nil" THEN "stderr" ELSE Chosen("output", "nil"),
                              IF Chosen("format", "auto") # "auto" THEN Chosen("format", "auto")
                              ELSE IF env.pod THEN "json" ELSE "text">>, Chosen("level", 0))
           last == IF Chosen("mirror", FALSE) THEN At(<<"stderr", "json">>, Chosen("level", 0)) ELSE <<>>
<1>12. /\ At(To(primary), primary.level) = first
       /\ Accepting(c.extras, Len(c.extras)) = Accepting(extras, Len(extras))
       /\ Accepting(mirror, Len(mirror)) = last
  BY <1>3, <1>10, <1>11
<1>13. Reached = At(To(primary), primary.level)
                 \o (Accepting(c.extras, Len(c.extras)) \o Accepting(mirror, Len(mirror)))
  BY <1>1, <1>8, <1>9
<1>14. /\ At(To(primary), primary.level) \in Seq(Places)
       /\ Accepting(c.extras, Len(c.extras)) \in Seq(Places)
       /\ Accepting(mirror, Len(mirror)) \in Seq(Places)
  <2>1. Len(c.extras) \in 0..Len(c.extras) /\ Len(mirror) \in 0..Len(mirror)
    BY <1>4, <1>6, LenProperties
  <2> QED
    BY <1>4, <1>6, <2>1, AtType, PartsType
<1>15. Reached = (first \o Accepting(extras, Len(extras))) \o last
  <2>1. Reached = (At(To(primary), primary.level) \o Accepting(c.extras, Len(c.extras)))
                  \o Accepting(mirror, Len(mirror))
    BY <1>13, <1>14, Associates
  <2> HIDE DEF first, last, extras
  <2> QED
    BY <1>12, <2>1
<1> QED
  BY <1>15 DEF EverySinkReached

(* Whatever the options and their order, the environment and the answers of *)
(* the sinks: when Handle has returned, the record has been given, once each *)
(* and in order, to the collector or the chosen output, to every extra that *)
(* accepts it and to the mirror (logging.go:50-60, 84-132, init.go:75-115,  *)
(* fanout.go:36-50).                                                        *)
THEOREM RecordsReachTheirSinks == Spec => []EverySinkReached
<1>1. DInv => EverySinkReached
  BY DInvReaches
<1> QED
  BY <1>1, DeliveryInvariance, PTL
=============================================================================
