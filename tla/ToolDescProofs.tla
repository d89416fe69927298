--------------------------- MODULE ToolDescProofs ---------------------------
(***************************************************************************)
(* Proofs about ToolDesc: what Check reports, for every set of tools, of   *)
(* texts and of budgets; about ToolDoc: what an assertion of the page      *)
(* says, and what a reader of the page finds on it; and about ToolSchema:  *)
(* what the walk over a schema finds, whatever JSON the schema is.         *)
(***************************************************************************)
EXTENDS ToolDoc, SeqLemmas, FiniteSetTheorems

-----------------------------------------------------------------------------
(* The walk over a JSON value.                                             *)

(* What is below a value is less nested.                                   *)
LEMMA ValuesBelow ==
  ASSUME NEW v \in Values
  PROVE  /\ nesting(v) \in Nat /\ nesting(v) <= MaxNesting
         /\ \A child \in Children(v) :
              child \in Values /\ nesting(child) \in Nat /\ nesting(child) < nesting(v)
         /\ \A child \in Children(v) : \A below \in Children(child) :
              below \in Values /\ nesting(below) \in Nat /\ nesting(below) < nesting(v)
<1>1. \A u \in Values : nesting(u) \in Nat /\ nesting(u) <= MaxNesting
  BY NestingAssumption
<1>2. \A u \in Values : \A child \in Children(u) : child \in Values /\ nesting(child) < nesting(u)
  BY ValuesAssumption, NestingAssumption
<1> QED
  BY <1>1, <1>2

(* What is found below an object's key k, and at a value, given what f     *)
(* finds below.                                                            *)
Below(f, node, k) ==
  LET v == node.fields[k]
  IN  CASE k = "description" -> <<>>
        [] IsProperties(k) ->
             IF v.kind # "object" THEN <<>>
             ELSE InOrder([n \in DOMAIN v.fields |-> Under(Key(n), f[v.fields[n]])])
        [] k = "items" -> Under(Elem(0), f[v])
        [] OTHER -> Under(Key(k), f[v])

WalkAt(f, node, limit) ==
  CASE node.kind = "object" ->
         Only(<<>>, TooLong(node, limit)) \o InOrder([k \in DOMAIN node.fields |-> Below(f, node, k)])
    [] node.kind = "array" ->
         FlattenSeq([i \in DOMAIN node.elems |-> Under(Elem(i), f[node.elems[i]])])
    [] OTHER -> <<>>

LEMMA WalkLocally ==
  ASSUME NEW limit, NEW node \in Values, NEW f, NEW g,
         \A v \in Values : nesting(v) < nesting(node) => f[v] = g[v]
  PROVE  WalkAt(f, node, limit) = WalkAt(g, node, limit)
<1>1. ASSUME NEW child \in Children(node)
      PROVE  /\ f[child] = g[child]
             /\ \A below \in Children(child) : f[below] = g[below]
  BY ValuesBelow
<1>2. CASE node.kind = "object"
  <2>1. ASSUME NEW k \in DOMAIN node.fields PROVE Below(f, node, k) = Below(g, node, k)
    <3> DEFINE v == node.fields[k]
    <3>1. v \in Children(node)
      BY <1>2 DEF Children
    <3> HIDE DEF v
    <3>2. v.kind = "object" => \A n \in DOMAIN v.fields : f[v.fields[n]] = g[v.fields[n]]
      BY <1>1, <3>1 DEF Children
    <3>3. v.kind = "object" =>
            [n \in DOMAIN v.fields |-> Under(Key(n), f[v.fields[n]])] = [n \in DOMAIN v.fields |-> Under(Key(n), g[v.fields[n]])]
      BY <3>2
    <3>4. f[v] = g[v]
      BY <1>1, <3>1
    <3> QED
      BY <3>3, <3>4 DEF Below, v
  <2>2. [k \in DOMAIN node.fields |-> Below(f, node, k)] = [k \in DOMAIN node.fields |-> Below(g, node, k)]
    BY <2>1
  <2> QED
    BY <1>2, <2>2 DEF WalkAt
<1>3. CASE node.kind = "array"
  <2>1. \A i \in DOMAIN node.elems : f[node.elems[i]] = g[node.elems[i]]
    BY <1>1, <1>3 DEF Children
  <2>2. [i \in DOMAIN node.elems |-> Under(Elem(i), f[node.elems[i]])] = [i \in DOMAIN node.elems |-> Under(Elem(i), g[node.elems[i]])]
    BY <2>1
  <2> QED
    BY <1>3, <2>2 DEF WalkAt
<1>4. CASE node.kind \notin {"object", "array"}
  BY <1>4 DEF WalkAt
<1> QED
  BY <1>2, <1>3, <1>4

(* The values less nested than n, and a function that walks them.          *)
UpTo(n) == {v \in Values : nesting(v) < n}
Walks(f, n, limit) == f = [v \in UpTo(n) |-> WalkAt(f, v, limit)]

LEMMA WalkExists ==
  ASSUME NEW limit, NEW m \in Nat
  PROVE  \E f : Walks(f, m, limit)
<1> DEFINE T == {n \in Nat : ~ \E f : Walks(f, n, limit)}
<1>1. ASSUME T # {} PROVE FALSE
  <2>1. PICK n \in T : \A j \in T : n <= j
    BY <1>1, LeastNat
  <2>2. CASE n = 0
    <3>1. UpTo(0) = {}
      BY NestingAssumption DEF UpTo
    <3> DEFINE e == [v \in {} |-> {}]
    <3>2. e = [v \in UpTo(0) |-> WalkAt(e, v, limit)]
      BY <3>1
    <3> QED
      BY <2>1, <2>2, <3>2 DEF Walks
  <2>3. CASE n # 0
    <3>1. n \in Nat /\ n - 1 \in Nat /\ ~(n <= n - 1)
      BY <2>3
    <3>2. PICK f : Walks(f, n - 1, limit)
      BY <2>1, <3>1
    <3> HIDE DEF T
    <3> DEFINE g == [v \in UpTo(n) |-> WalkAt(f, v, limit)]
    <3>3. ASSUME NEW v \in UpTo(n) PROVE WalkAt(f, v, limit) = WalkAt(g, v, limit)
      <4>1. ASSUME NEW u \in Values, nesting(u) < nesting(v) PROVE f[u] = g[u]
        <5>1. nesting(u) \in Int /\ nesting(v) \in Int /\ nesting(v) < n
          BY NestingAssumption DEF UpTo
        <5>2. nesting(u) < n - 1 /\ nesting(u) < n
          BY <3>1, <4>1, <5>1
        <5>3. u \in UpTo(n - 1) /\ u \in UpTo(n)
          BY <5>2 DEF UpTo
        <5>4. f[u] = WalkAt(f, u, limit)
          BY <3>2, <5>3 DEF Walks
        <5> QED
          BY <5>3, <5>4
      <4> HIDE DEF g
      <4>2. v \in Values
        BY DEF UpTo
      <4> QED
        BY <4>1, <4>2, WalkLocally
    <3>4. g = [v \in UpTo(n) |-> g[v]] /\ \A v \in UpTo(n) : g[v] = WalkAt(f, v, limit)
      OBVIOUS
    <3>5. Walks(g, n, limit)
      <4> HIDE DEF g
      <4>1. \A v \in UpTo(n) : g[v] = WalkAt(g, v, limit)
        BY <3>3, <3>4
      <4> QED
        BY <3>4, <4>1 DEF Walks
    <3>6. n \notin T
      BY <3>5 DEF T
    <3> QED
      BY <2>1, <3>6
  <2> QED
    BY <2>2, <2>3
<1> QED
  BY <1>1

LEMMA WalkIs ==
  ASSUME NEW limit
  PROVE  \A node \in Values : walkSchema(limit)[node] = WalkAt(walkSchema(limit), node, limit)
<1> DEFINE F == CHOOSE f : Walks(f, MaxNesting + 1, limit)
<1>1. MaxNesting + 1 \in Nat
  BY NestingAssumption
<1>2. Walks(F, MaxNesting + 1, limit)
  BY <1>1, WalkExists
<1>3. UpTo(MaxNesting + 1) = Values
  BY NestingAssumption DEF UpTo
<1>4. F = CHOOSE f : f = [node \in Values |-> WalkAt(f, node, limit)]
  BY <1>3 DEF Walks
<1>5. walkSchema(limit) = F
  BY <1>4 DEF walkSchema, WalkAt, Below
<1> HIDE DEF F
<1> QED
  BY <1>2, <1>3, <1>5 DEF Walks

-----------------------------------------------------------------------------
(* What the walk finds are paths; which ones.                              *)

Step == {Key(k) : k \in Range(Keys)} \cup {Elem(i) : i \in Nat}
Path == Seq(Step)

After(step, paths) == {<<step>> \o p : p \in Range(paths)}

LEMMA UnderIs ==
  ASSUME NEW step \in Step, NEW paths \in Seq(Path)
  PROVE  Under(step, paths) \in Seq(Path) /\ Range(Under(step, paths)) = After(step, paths)
<1> DEFINE u == Under(step, paths)
           n == Len(paths)
<1>1. /\ n \in Nat /\ DOMAIN paths = 1..n
      /\ \A i \in 1..n : paths[i] \in Path
  BY LenProperties, ElementOfSeq
<1>2. u = [i \in 1..n |-> <<step>> \o paths[i]]
  BY <1>1 DEF Under
<1>3. <<step>> \in Path
  BY DEF Path
<1>4. \A p \in Path : <<step>> \o p \in Path
  BY <1>3, ConcatProperties DEF Path
<1>5. u \in Seq(Path) /\ Len(u) = n /\ DOMAIN u = 1..n
  <2>1. u = [i \in 1..n |-> u[i]] /\ \A i \in 1..n : u[i] = <<step>> \o paths[i]
    BY <1>2
  <2>2. n \in Nat /\ \A i \in 1..n : u[i] \in Path
    BY <1>1, <1>4, <2>1
  <2> HIDE DEF u, n
  <2> QED
    BY <2>1, <2>2, FunctionIsSeq
<1> HIDE DEF u
<1>6. Range(u) = {u[i] : i \in 1..n} /\ Range(paths) = {paths[i] : i \in 1..n}
  BY <1>1, <1>5, RangeEquality DEF n
<1>7. \A i \in 1..n : u[i] = <<step>> \o paths[i]
  BY <1>2
<1>8. {u[i] : i \in 1..n} = {<<step>> \o p : p \in {paths[i] : i \in 1..n}}
  BY <1>7
<1> QED
  BY <1>5, <1>6, <1>8 DEF After, u

LEMMA InOrderIs ==
  ASSUME NEW f, DOMAIN f \subseteq Range(Keys), \A k \in DOMAIN f : f[k] \in Seq(Path)
  PROVE  InOrder(f) \in Seq(Path) /\ Range(InOrder(f)) = UNION {Range(f[k]) : k \in DOMAIN f}
<1> DEFINE n == Len(Keys)
           s == [i \in 1..n |-> IF Keys[i] \in DOMAIN f THEN f[Keys[i]] ELSE <<>>]
<1>1. n \in Nat /\ Keys \in Seq(Range(Keys)) /\ Range(Keys) = {Keys[i] : i \in 1..n}
  BY ValuesAssumption, LenProperties, RangeEquality
<1>2. InOrder(f) = FlattenSeq(s)
  BY DEF InOrder
<1> HIDE DEF n
<1>3. s \in Seq(Seq(Path)) /\ Len(s) = n
  <2>1. \A i \in 1..n : s[i] \in Seq(Path)
    BY EmptySeq
  <2>2. s = [i \in 1..n |-> s[i]]
    OBVIOUS
  <2> HIDE DEF s
  <2> QED
    BY <1>1, <2>1, <2>2, FunctionIsSeq
<1>4. FlattenSeq(s) \in Seq(Path) /\ Range(FlattenSeq(s)) = UNION {Range(s[i]) : i \in 1..n}
  BY <1>3, FlattenType, FlattenRange
<1>5. UNION {Range(s[i]) : i \in 1..n} = UNION {Range(f[k]) : k \in DOMAIN f}
  <2>1. Range(<<>>) = {}
    BY DEF Range
  <2>2. \A i \in 1..n : s[i] = IF Keys[i] \in DOMAIN f THEN f[Keys[i]] ELSE <<>>
    OBVIOUS
  <2>3. \A k \in DOMAIN f : \E i \in 1..n : Keys[i] = k
    BY <1>1
  <2> HIDE DEF s
  <2>4. \A x : (\E i \in 1..n : x \in Range(s[i])) <=> \E k \in DOMAIN f : x \in Range(f[k])
    BY <2>1, <2>2, <2>3
  <2> QED
    BY <2>4
<1> QED
  BY <1>2, <1>4, <1>5

(* What is found below an object's key, as a set.                          *)
FoundBelow(f, node, k) ==
  LET v == node.fields[k]
  IN  CASE k = "description" -> {}
        [] k = "properties" ->
             IF v.kind = "object" THEN UNION {After(Key(n), f[v.fields[n]]) : n \in DOMAIN v.fields} ELSE {}
        [] k = "items" -> After(Elem(0), f[v])
        [] OTHER -> After(Key(k), f[v])

FoundAt(f, node, limit) ==
  CASE node.kind = "object" ->
         (IF TooLong(node, limit) THEN {<<>>} ELSE {}) \cup UNION {FoundBelow(f, node, k) : k \in DOMAIN node.fields}
    [] node.kind = "array" -> UNION {After(Elem(i), f[node.elems[i]]) : i \in DOMAIN node.elems}
    [] OTHER -> {}

LEMMA BelowType ==
  ASSUME NEW node \in Values, node.kind = "object", NEW f,
         \A v \in Values : nesting(v) < nesting(node) => f[v] \in Seq(Path),
         NEW k \in DOMAIN node.fields
  PROVE  Below(f, node, k) \in Seq(Path) /\ Range(Below(f, node, k)) = FoundBelow(f, node, k)
<1> DEFINE v == node.fields[k]
<1>1. /\ v \in Values /\ f[v] \in Seq(Path)
      /\ \A below \in Children(v) : f[below] \in Seq(Path)
  <2>1. v \in Children(node)
    BY DEF Children
  <2> HIDE DEF v
  <2> QED
    BY <2>1, ValuesBelow
<1>2. k \in Range(Keys)
  BY ValuesAssumption
<1>3. Range(<<>>) = {} /\ <<>> \in Seq(Path)
  BY EmptySeq DEF Range
<1> HIDE DEF v
<1>4. CASE k = "description"
  BY <1>3, <1>4 DEF Below, FoundBelow, IsProperties
<1>5. CASE k = "properties" /\ v.kind # "object"
  BY <1>3, <1>5 DEF Below, FoundBelow, IsProperties, v
<1>6. CASE k = "properties" /\ v.kind = "object"
  <2> DEFINE g == [n \in DOMAIN v.fields |-> Under(Key(n), f[v.fields[n]])]
  <2>1. DOMAIN v.fields \subseteq Range(Keys)
    BY <1>1, <1>6, ValuesAssumption
  <2>2. ASSUME NEW n \in DOMAIN v.fields
        PROVE  g[n] \in Seq(Path) /\ Range(g[n]) = After(Key(n), f[v.fields[n]])
    <3>1. Key(n) \in Step
      BY <2>1 DEF Step
    <3>2. f[v.fields[n]] \in Seq(Path)
      BY <1>1, <1>6 DEF Children
    <3> QED
      BY <3>1, <3>2, UnderIs
  <2>3. DOMAIN g = DOMAIN v.fields
    OBVIOUS
  <2>4. Below(f, node, k) = InOrder(g)
    BY <1>6 DEF Below, IsProperties, v
  <2>5. FoundBelow(f, node, k) = UNION {After(Key(n), f[v.fields[n]]) : n \in DOMAIN v.fields}
    BY <1>6 DEF FoundBelow, v
  <2> HIDE DEF g
  <2>6. InOrder(g) \in Seq(Path) /\ Range(InOrder(g)) = UNION {Range(g[n]) : n \in DOMAIN g}
    BY <2>1, <2>2, <2>3, InOrderIs
  <2>7. UNION {Range(g[n]) : n \in DOMAIN g} = UNION {After(Key(n), f[v.fields[n]]) : n \in DOMAIN v.fields}
    BY <2>2, <2>3
  <2> QED
    BY <2>4, <2>5, <2>6, <2>7
<1>7. CASE k = "items"
  <2>1. Elem(0) \in Step
    BY DEF Step
  <2>2. Below(f, node, k) = Under(Elem(0), f[v]) /\ FoundBelow(f, node, k) = After(Elem(0), f[v])
    BY <1>7 DEF Below, FoundBelow, IsProperties, v
  <2> QED
    BY <1>1, <2>1, <2>2, UnderIs
<1>8. CASE k \notin {"description", "properties", "items"}
  <2>1. Key(k) \in Step
    BY <1>2 DEF Step
  <2>2. Below(f, node, k) = Under(Key(k), f[v]) /\ FoundBelow(f, node, k) = After(Key(k), f[v])
    BY <1>8 DEF Below, FoundBelow, IsProperties, v
  <2> QED
    BY <1>1, <2>1, <2>2, UnderIs
<1> QED
  BY <1>4, <1>5, <1>6, <1>7, <1>8

LEMMA WalkAtType ==
  ASSUME NEW limit, NEW node \in Values, NEW f,
         \A v \in Values : nesting(v) < nesting(node) => f[v] \in Seq(Path)
  PROVE  WalkAt(f, node, limit) \in Seq(Path) /\ Range(WalkAt(f, node, limit)) = FoundAt(f, node, limit)
<1>1. CASE node.kind = "object"
  <2> DEFINE g == [k \in DOMAIN node.fields |-> Below(f, node, k)]
             o == Only(<<>>, TooLong(node, limit))
  <2>1. DOMAIN node.fields \subseteq Range(Keys)
    BY <1>1, ValuesAssumption
  <2>2. DOMAIN g = DOMAIN node.fields /\ \A k \in DOMAIN node.fields : g[k] = Below(f, node, k)
    OBVIOUS
  <2>3. o \in Seq(Path) /\ Range(o) = IF TooLong(node, limit) THEN {<<>>} ELSE {}
    <3>1. <<>> \in Path /\ <<>> \in Seq(Path) /\ Range(<<>>) = {}
      BY EmptySeq DEF Path, Range
    <3>2. <<<<>>>> \in Seq(Path) /\ Range(<<<<>>>>) = {<<>>}
      BY <3>1 DEF Range
    <3> QED
      BY <3>1, <3>2 DEF Only
  <2>4. WalkAt(f, node, limit) = o \o InOrder(g)
    BY <1>1 DEF WalkAt
  <2>5. FoundAt(f, node, limit) = (IF TooLong(node, limit) THEN {<<>>} ELSE {})
                                  \cup UNION {FoundBelow(f, node, k) : k \in DOMAIN node.fields}
    BY <1>1 DEF FoundAt
  <2> HIDE DEF g, o
  <2>6. \A k \in DOMAIN g : g[k] \in Seq(Path) /\ Range(g[k]) = FoundBelow(f, node, k)
    BY <1>1, <2>2, BelowType
  <2>7. InOrder(g) \in Seq(Path) /\ Range(InOrder(g)) = UNION {Range(g[k]) : k \in DOMAIN g}
    BY <2>1, <2>2, <2>6, InOrderIs
  <2>8. UNION {Range(g[k]) : k \in DOMAIN g} = UNION {FoundBelow(f, node, k) : k \in DOMAIN node.fields}
    BY <2>2, <2>6
  <2>9. o \o InOrder(g) \in Seq(Path) /\ Range(o \o InOrder(g)) = Range(o) \cup Range(InOrder(g))
    BY <2>3, <2>7, ConcatProperties, RangeConcatenation
  <2> QED
    BY <2>3, <2>4, <2>5, <2>7, <2>8, <2>9
<1>2. CASE node.kind = "array"
  <2> DEFINE n == Len(node.elems)
             s == [i \in DOMAIN node.elems |-> Under(Elem(i), f[node.elems[i]])]
  <2>1. node.elems \in Seq(Values)
    BY <1>2, ValuesAssumption
  <2>2. n \in Nat /\ DOMAIN node.elems = 1..n
    BY <2>1, LenProperties
  <2>3. ASSUME NEW i \in 1..n
        PROVE  s[i] \in Seq(Path) /\ Range(s[i]) = After(Elem(i), f[node.elems[i]])
    <3>1. Elem(i) \in Step
      BY <2>2 DEF Step
    <3>2. f[node.elems[i]] \in Seq(Path)
      <4>1. node.elems[i] \in Children(node)
        BY <1>2, <2>2 DEF Children
      <4> QED
        BY <4>1, ValuesBelow
    <3> QED
      BY <2>2, <3>1, <3>2, UnderIs
  <2>4. WalkAt(f, node, limit) = FlattenSeq(s)
    BY <1>2 DEF WalkAt
  <2>5. FoundAt(f, node, limit) = UNION {After(Elem(i), f[node.elems[i]]) : i \in 1..n}
    BY <1>2, <2>2 DEF FoundAt
  <2>6. s \in Seq(Seq(Path)) /\ Len(s) = n
    <3>1. s = [i \in 1..n |-> s[i]]
      BY <2>2
    <3> HIDE DEF s, n
    <3> QED
      BY <2>2, <2>3, <3>1, FunctionIsSeq
  <2> HIDE DEF s, n
  <2>7. FlattenSeq(s) \in Seq(Path) /\ Range(FlattenSeq(s)) = UNION {Range(s[i]) : i \in 1..n}
    BY <2>6, FlattenType, FlattenRange
  <2>8. UNION {Range(s[i]) : i \in 1..n} = UNION {After(Elem(i), f[node.elems[i]]) : i \in 1..n}
    BY <2>3
  <2> QED
    BY <2>4, <2>5, <2>7, <2>8
<1>3. CASE node.kind \notin {"object", "array"}
  <2>1. <<>> \in Seq(Path) /\ Range(<<>>) = {}
    BY EmptySeq DEF Range
  <2> QED
    BY <1>3, <2>1 DEF WalkAt, FoundAt
<1> QED
  BY <1>1, <1>2, <1>3

LEMMA WalkType ==
  ASSUME NEW limit
  PROVE  \A v \in Values : walkSchema(limit)[v] \in Seq(Path)
<1> DEFINE W == walkSchema(limit)
           T == {n \in Nat : \E v \in Values : nesting(v) = n /\ W[v] \notin Seq(Path)}
<1>1. \A v \in Values : nesting(v) \in Nat
  BY ValuesBelow
<1>2. \A v \in Values : W[v] = WalkAt(W, v, limit)
  BY WalkIs
<1> HIDE DEF W
<1>3. ASSUME T # {} PROVE FALSE
  <2>1. PICK n \in T : \A j \in T : n <= j
    BY <1>3, LeastNat
  <2>2. PICK v \in Values : nesting(v) = n /\ W[v] \notin Seq(Path)
    BY <2>1
  <2>3. ASSUME NEW u \in Values, nesting(u) < nesting(v) PROVE W[u] \in Seq(Path)
    <3>1. nesting(u) \in Nat /\ nesting(u) \notin T
      <4> HIDE DEF T
      <4> QED
        BY <1>1, <2>1, <2>2, <2>3
    <3> QED
      BY <3>1
  <2>4. W[v] \in Seq(Path)
    BY <1>2, <2>3, WalkAtType
  <2> QED
    BY <2>2, <2>4
<1>4. \A v \in Values : W[v] \in Seq(Path)
  BY <1>1, <1>3
<1> QED
  BY <1>4 DEF W

Found(limit, v) == Range(walkSchema(limit)[v])

LEMMA FoundIs ==
  ASSUME NEW limit, NEW v \in Values
  PROVE  Found(limit, v) = FoundAt(walkSchema(limit), v, limit)
<1>1. walkSchema(limit)[v] = WalkAt(walkSchema(limit), v, limit)
  BY WalkIs
<1>2. Range(WalkAt(walkSchema(limit), v, limit)) = FoundAt(walkSchema(limit), v, limit)
  BY WalkType, WalkAtType
<1> QED
  BY <1>1, <1>2 DEF Found

-----------------------------------------------------------------------------
(* Where a value has schemas in it.                                        *)

(* Paths and the parts at them, by name: the prover takes equations of     *)
(* sequences apart.                                                        *)
Beneath(at, path) == at \o path
One(step) == <<step>>
NamedPart(k, n, is) == Part(Beneath(KeywordPath(k), One(Key(n))), <<Place(k), Place(n)>>, is)
ListedPart(k, i, is) == Part(Beneath(KeywordPath(k), One(Elem(i))), <<Place(k), i>>, is)
SinglePart(k, is) == Part(KeywordPath(k), <<Place(k)>>, is)

LEMMA PathsBeneath ==
  /\ <<>> \in Path
  /\ \A step \in Step : One(step) \in Path
  /\ \A a, b \in Path : Beneath(a, b) \in Path
  /\ \A a, b, c \in Path : Beneath(Beneath(a, b), c) = Beneath(a, Beneath(b, c))
  /\ \A a \in Path : Beneath(<<>>, a) = a /\ Beneath(a, <<>>) = a
<1>1. <<>> \in Path /\ \A step \in Step : One(step) \in Path
  BY DEF Path, One
<1>2. \A a, b \in Path : Beneath(a, b) \in Path
  BY ConcatProperties DEF Path, Beneath
<1>3. \A a, b, c \in Path : Beneath(Beneath(a, b), c) = Beneath(a, Beneath(b, c))
  BY Associates DEF Path, Beneath
<1>4. \A a \in Path : Beneath(<<>>, a) = a /\ Beneath(a, <<>>) = a
  BY ConcatEmptySeq DEF Path, Beneath
<1> QED
  BY <1>1, <1>2, <1>3, <1>4

LEMMA StepsAreKeys ==
  ASSUME NEW v \in Values
  PROVE  /\ v.kind = "object" => \A k \in DOMAIN v.fields : k \in Range(Keys) /\ Key(k) \in Step /\ v.fields[k] \in Values
         /\ v.kind = "array" => \A i \in DOMAIN v.elems : Elem(i) \in Step /\ v.elems[i] \in Values
<1>1. CASE v.kind = "object"
  BY <1>1, ValuesAssumption DEF Step, Children
<1>2. CASE v.kind = "array"
  <2>1. v.elems \in Seq(Values)
    BY <1>2, ValuesAssumption
  <2>2. DOMAIN v.elems \subseteq Nat /\ \A i \in DOMAIN v.elems : v.elems[i] \in Values
    BY <2>1
  <2> QED
    BY <1>2, <2>2 DEF Step
<1> QED
  BY <1>1, <1>2

LEMMA KeywordPathIs ==
  ASSUME NEW k \in Range(Keys)
  PROVE  KeywordPath(k) \in Path
<1> <<>> \in Path /\ <<Elem(0)>> \in Path /\ <<Key(k)>> \in Path
  BY DEF Path, Step
<1> QED
  BY DEF KeywordPath

LEMMA SubschemasAre ==
  ASSUME NEW v, NEW k, NEW x, x = v.fields[k], NEW s
  PROVE  /\ x.kind = "object" /\ k \in NamedSchemas =>
              (s \in Subschemas(v, k) <=>
                 \E n \in DOMAIN x.fields :
                    s = NamedPart(k, n, x.fields[n]))
         /\ x.kind = "array" /\ k \in ListedSchemas =>
              (s \in Subschemas(v, k) <=>
                 \E i \in DOMAIN x.elems :
                    s = ListedPart(k, i, x.elems[i]))
         /\ x.kind = "object" /\ k \in SingleSchemas =>
              (s \in Subschemas(v, k) <=> s = SinglePart(k, x))
         /\ ~(x.kind = "object" /\ k \in NamedSchemas) /\ ~(x.kind = "array" /\ k \in ListedSchemas)
              /\ ~(x.kind = "object" /\ k \in SingleSchemas) => s \notin Subschemas(v, k)
<1>1. NamedSchemas \cap SingleSchemas = {}
  BY DEF NamedSchemas, SingleSchemas
<1> HIDE DEF NamedSchemas, SingleSchemas
<1>2. CASE x.kind = "object" /\ k \in NamedSchemas
  BY <1>1, <1>2 DEF Subschemas, Beneath, One, NamedPart, ListedPart, SinglePart
<1>3. CASE x.kind = "array" /\ k \in ListedSchemas
  BY <1>3 DEF Subschemas, Beneath, One, NamedPart, ListedPart, SinglePart
<1>4. CASE x.kind = "object" /\ k \in SingleSchemas
  BY <1>1, <1>4 DEF Subschemas, Beneath, One, NamedPart, ListedPart, SinglePart
<1>5. CASE ~(x.kind = "object" /\ k \in NamedSchemas) /\ ~(x.kind = "array" /\ k \in ListedSchemas)
             /\ ~(x.kind = "object" /\ k \in SingleSchemas)
  BY <1>5 DEF Subschemas
<1> QED
  BY <1>2, <1>3, <1>4, <1>5

(* A schema of v is a value less nested than v, at a path.                 *)
IsBelow(s, v) == s.is \in Values /\ nesting(s.is) \in Nat /\ nesting(s.is) < nesting(v) /\ s.at \in Path

LEMMA SubschemasBelow ==
  ASSUME NEW v \in Values, v.kind = "object", NEW k \in DOMAIN v.fields, NEW s \in Subschemas(v, k)
  PROVE  IsBelow(s, v)
<1>1. PICK x : x = v.fields[k]
  OBVIOUS
<1>2. x \in Children(v)
  BY <1>1 DEF Children
<1>3. /\ nesting(x) \in Nat /\ nesting(x) < nesting(v) /\ x \in Values
      /\ \A below \in Children(x) : below \in Values /\ nesting(below) \in Nat /\ nesting(below) < nesting(v)
  BY <1>2, ValuesBelow
<1>4. KeywordPath(k) \in Path
  BY StepsAreKeys, KeywordPathIs
<1>5. CASE x.kind = "object" /\ k \in NamedSchemas
  <2>1. PICK n \in DOMAIN x.fields : s = NamedPart(k, n, x.fields[n])
    BY <1>1, <1>5, SubschemasAre
  <2>2. x.fields[n] \in Children(x)
    BY <1>5 DEF Children
  <2>3. One(Key(n)) \in Path
    BY <1>3, <1>5, StepsAreKeys, PathsBeneath
  <2>4. Beneath(KeywordPath(k), One(Key(n))) \in Path
    BY <1>4, <2>3, PathsBeneath
  <2>5. s.is = x.fields[n] /\ s.at = Beneath(KeywordPath(k), One(Key(n)))
    BY <2>1 DEF NamedPart, Part
  <2> QED
    BY <1>3, <2>2, <2>4, <2>5 DEF IsBelow
<1>6. CASE x.kind = "array" /\ k \in ListedSchemas
  <2>1. PICK i \in DOMAIN x.elems : s = ListedPart(k, i, x.elems[i])
    BY <1>1, <1>6, SubschemasAre
  <2>2. x.elems[i] \in Children(x)
    BY <1>6 DEF Children
  <2>3. One(Elem(i)) \in Path
    BY <1>3, <1>6, StepsAreKeys, PathsBeneath
  <2>4. Beneath(KeywordPath(k), One(Elem(i))) \in Path
    BY <1>4, <2>3, PathsBeneath
  <2>5. s.is = x.elems[i] /\ s.at = Beneath(KeywordPath(k), One(Elem(i)))
    BY <2>1 DEF ListedPart, Part
  <2> QED
    BY <1>3, <2>2, <2>4, <2>5 DEF IsBelow
<1>7. CASE x.kind = "object" /\ k \in SingleSchemas
  <2>1. s = SinglePart(k, x)
    BY <1>1, <1>7, SubschemasAre
  <2>2. s.is = x /\ s.at = KeywordPath(k)
    BY <2>1 DEF SinglePart, Part
  <2> QED
    BY <1>3, <1>4, <2>2 DEF IsBelow
<1> QED
  BY <1>1, <1>5, <1>6, <1>7, SubschemasAre

LEMMA StepsBelow ==
  ASSUME NEW v \in Values, NEW s \in Steps(v)
  PROVE  IsBelow(s, v)
BY SubschemasBelow DEF Steps

PositionsAt(f, v) ==
  {Part(<<>>, <<>>, v)}
  \cup UNION {{Part(s.at \o p.at, s.where \o p.where, p.is) : p \in f[s.is]} : s \in Steps(v)}

LEMMA PositionsLocally ==
  ASSUME NEW v \in Values, NEW f, NEW g, \A u \in Values : nesting(u) < nesting(v) => f[u] = g[u]
  PROVE  PositionsAt(f, v) = PositionsAt(g, v)
<1>1. \A s \in Steps(v) : f[s.is] = g[s.is]
  BY StepsBelow DEF IsBelow
<1> QED
  BY <1>1 DEF PositionsAt

Positioned(f, n) == f = [v \in UpTo(n) |-> PositionsAt(f, v)]

LEMMA PositionsExist ==
  ASSUME NEW m \in Nat
  PROVE  \E f : Positioned(f, m)
<1> DEFINE T == {n \in Nat : ~ \E f : Positioned(f, n)}
<1>1. ASSUME T # {} PROVE FALSE
  <2>1. PICK n \in T : \A j \in T : n <= j
    BY <1>1, LeastNat
  <2>2. CASE n = 0
    <3>1. UpTo(0) = {}
      BY NestingAssumption DEF UpTo
    <3> DEFINE e == [v \in {} |-> {}]
    <3>2. e = [v \in UpTo(0) |-> PositionsAt(e, v)]
      BY <3>1
    <3> QED
      BY <2>1, <2>2, <3>2 DEF Positioned
  <2>3. CASE n # 0
    <3>1. n \in Nat /\ n - 1 \in Nat /\ ~(n <= n - 1)
      BY <2>3
    <3>2. PICK f : Positioned(f, n - 1)
      BY <2>1, <3>1
    <3> HIDE DEF T
    <3> DEFINE g == [v \in UpTo(n) |-> PositionsAt(f, v)]
    <3>3. ASSUME NEW v \in UpTo(n) PROVE PositionsAt(f, v) = PositionsAt(g, v)
      <4>1. ASSUME NEW u \in Values, nesting(u) < nesting(v) PROVE f[u] = g[u]
        <5>1. nesting(u) \in Int /\ nesting(v) \in Int /\ nesting(v) < n
          BY NestingAssumption DEF UpTo
        <5>2. nesting(u) < n - 1 /\ nesting(u) < n
          BY <3>1, <4>1, <5>1
        <5>3. u \in UpTo(n - 1) /\ u \in UpTo(n)
          BY <5>2 DEF UpTo
        <5>4. f[u] = PositionsAt(f, u)
          BY <3>2, <5>3 DEF Positioned
        <5> QED
          BY <5>3, <5>4
      <4> HIDE DEF g
      <4>2. v \in Values
        BY DEF UpTo
      <4> QED
        BY <4>1, <4>2, PositionsLocally
    <3>4. g = [v \in UpTo(n) |-> g[v]] /\ \A v \in UpTo(n) : g[v] = PositionsAt(f, v)
      OBVIOUS
    <3>5. Positioned(g, n)
      <4> HIDE DEF g
      <4>1. \A v \in UpTo(n) : g[v] = PositionsAt(g, v)
        BY <3>3, <3>4
      <4> QED
        BY <3>4, <4>1 DEF Positioned
    <3>6. n \notin T
      BY <3>5 DEF T
    <3> QED
      BY <2>1, <3>6
  <2> QED
    BY <2>2, <2>3
<1> QED
  BY <1>1

LEMMA PositionsIs == \A v \in Values : Positions[v] = PositionsAt(Positions, v)
<1> DEFINE F == CHOOSE f : Positioned(f, MaxNesting + 1)
<1>1. MaxNesting + 1 \in Nat
  BY NestingAssumption
<1>2. Positioned(F, MaxNesting + 1)
  BY <1>1, PositionsExist
<1>3. UpTo(MaxNesting + 1) = Values
  BY NestingAssumption DEF UpTo
<1>4. F = CHOOSE f : f = [v \in Values |-> PositionsAt(f, v)]
  BY <1>3 DEF Positioned
<1>5. Positions = F
  BY <1>4 DEF Positions, PositionsAt
<1> HIDE DEF F
<1> QED
  BY <1>2, <1>3, <1>5 DEF Positioned

(* Every schema in a value is a value at a path.                           *)
Placed(v) == \A p \in Positions[v] : p.at \in Path /\ p.is \in Values

LEMMA PositionsPlaced == \A v \in Values : Placed(v)
<1> DEFINE T == {n \in Nat : \E v \in Values : nesting(v) = n /\ ~Placed(v)}
<1>1. \A v \in Values : nesting(v) \in Nat
  BY ValuesBelow
<1>2. ASSUME T # {} PROVE FALSE
  <2>1. PICK n \in T : \A j \in T : n <= j
    BY <1>2, LeastNat
  <2>2. PICK v \in Values : nesting(v) = n /\ ~Placed(v)
    BY <2>1
  <2>3. ASSUME NEW u \in Values, nesting(u) < nesting(v) PROVE Placed(u)
    <3>1. nesting(u) \in Nat /\ nesting(u) \notin T
      <4> HIDE DEF T
      <4> QED
        BY <1>1, <2>1, <2>2, <2>3
    <3> QED
      BY <3>1
  <2>4. ASSUME NEW p \in Positions[v] PROVE p.at \in Path /\ p.is \in Values
    <3>1. Positions[v] = PositionsAt(Positions, v)
      BY PositionsIs
    <3>2. CASE p = Part(<<>>, <<>>, v)
      BY <3>2, EmptySeq DEF Part, Path
    <3>3. CASE p # Part(<<>>, <<>>, v)
      <4>1. PICK s \in Steps(v) : \E q \in Positions[s.is] : p = Part(s.at \o q.at, s.where \o q.where, q.is)
        BY <3>1, <3>3 DEF PositionsAt
      <4>2. PICK q \in Positions[s.is] : p = Part(s.at \o q.at, s.where \o q.where, q.is)
        BY <4>1
      <4>3. IsBelow(s, v)
        BY StepsBelow
      <4>4. Placed(s.is)
        BY <2>3, <4>3 DEF IsBelow
      <4>5. q.at \in Path /\ q.is \in Values /\ s.at \in Path
        BY <4>3, <4>4 DEF Placed, IsBelow
      <4>6. s.at \o q.at \in Path
        BY <4>5, ConcatProperties DEF Path
      <4> QED
        BY <4>2, <4>5, <4>6 DEF Part
    <3> QED
      BY <3>2, <3>3
  <2> QED
    BY <2>2, <2>4 DEF Placed
<1> QED
  BY <1>1, <1>2

-----------------------------------------------------------------------------
(* What the walk finds under a keyword: what it finds in the schemas that  *)
(* are there, each at its path; where there are none, what it finds all    *)
(* the same.                                                               *)

Lifted(limit, s) == {Beneath(s.at, q) : q \in Found(limit, s.is)}

LEMMA FoundArePaths ==
  ASSUME NEW limit, NEW v \in Values
  PROVE  Found(limit, v) \subseteq Path
<1>1. walkSchema(limit)[v] \in Seq(Path)
  BY WalkType
<1>2. Range(walkSchema(limit)[v]) = {walkSchema(limit)[v][i] : i \in 1..Len(walkSchema(limit)[v])}
  BY <1>1, RangeEquality
<1> QED
  BY <1>1, <1>2, ElementOfSeq DEF Found

FoundAfter(limit, step, u) == After(step, walkSchema(limit)[u])

LEMMA AfterFound ==
  ASSUME NEW limit, NEW step, NEW u, NEW r
  PROVE  r \in FoundAfter(limit, step, u) <=> \E q \in Found(limit, u) : r = Beneath(One(step), q)
BY DEF FoundAfter, After, Found, Beneath, One

LEMMA KeyFinds ==
  ASSUME NEW limit, NEW v \in Values, NEW k \in DOMAIN v.fields, k \notin {"description", "properties"}, NEW r
  PROVE  r \in FoundBelow(walkSchema(limit), v, k) <=> \E q \in Found(limit, v.fields[k]) : r = Beneath(KeywordPath(k), q)
<1> DEFINE x == v.fields[k]
           step == IF k = "items" THEN Elem(0) ELSE Key(k)
<1>1. FoundBelow(walkSchema(limit), v, k) = FoundAfter(limit, step, x) /\ KeywordPath(k) = One(step)
  BY DEF FoundBelow, FoundAfter, KeywordPath, One
<1> HIDE DEF x, step
<1>2. r \in FoundAfter(limit, step, x) <=> \E q \in Found(limit, x) : r = Beneath(One(step), q)
  BY AfterFound
<1> QED
  BY <1>1, <1>2 DEF x

(* The schemas of an array, and of an object whose keys are names.         *)
LEMMA ListedFind ==
  ASSUME NEW limit, NEW x \in Values, x.kind = "array", NEW r
  PROVE  r \in Found(limit, x) <=>
           \E i \in DOMAIN x.elems : \E q \in Found(limit, x.elems[i]) : r = Beneath(One(Elem(i)), q)
<1>1. Found(limit, x) = UNION {FoundAfter(limit, Elem(i), x.elems[i]) : i \in DOMAIN x.elems}
  BY FoundIs DEF FoundAt, FoundAfter
<1>2. r \in Found(limit, x) <=> \E i \in DOMAIN x.elems : r \in FoundAfter(limit, Elem(i), x.elems[i])
  BY <1>1
<1> QED
  BY <1>2, AfterFound

LEMMA NamedFind ==
  ASSUME NEW limit, NEW x \in Values, x.kind = "object",
         DOMAIN x.fields \cap {"description", "properties", "items"} = {}, NEW r
  PROVE  r \in Found(limit, x) <=>
           \E n \in DOMAIN x.fields : \E q \in Found(limit, x.fields[n]) : r = Beneath(One(Key(n)), q)
<1>1. ~TooLong(x, limit)
  BY DEF TooLong
<1>2. Found(limit, x) = UNION {FoundBelow(walkSchema(limit), x, n) : n \in DOMAIN x.fields}
  BY <1>1, FoundIs DEF FoundAt
<1>3. \A n \in DOMAIN x.fields :
        r \in FoundBelow(walkSchema(limit), x, n) <=> \E q \in Found(limit, x.fields[n]) : r = Beneath(One(Key(n)), q)
  <2> TAKE n \in DOMAIN x.fields
  <2>1. n \notin {"description", "properties", "items"}
    OBVIOUS
  <2>2. KeywordPath(n) = One(Key(n))
    BY <2>1 DEF KeywordPath, One
  <2> QED
    BY <2>1, <2>2, KeyFinds
<1> QED
  BY <1>2, <1>3

(* What is found in the schemas under a keyword, one by one.               *)
LiftedFrom(limit, v, k, r) == \E s \in Subschemas(v, k) : r \in Lifted(limit, s)

LEMMA NamedLift ==
  ASSUME NEW limit, NEW v, NEW k, NEW x, x = v.fields[k],
         x.kind = "object", k \in NamedSchemas, NEW r
  PROVE  LiftedFrom(limit, v, k, r) <=>
           \E n \in DOMAIN x.fields : \E q \in Found(limit, x.fields[n]) :
              r = Beneath(Beneath(KeywordPath(k), One(Key(n))), q)
<1>1. \A s : s \in Subschemas(v, k) <=> \E n \in DOMAIN x.fields : s = NamedPart(k, n, x.fields[n])
  BY SubschemasAre
<1>2. \A n \in DOMAIN x.fields :
        r \in Lifted(limit, NamedPart(k, n, x.fields[n])) <=>
          \E q \in Found(limit, x.fields[n]) : r = Beneath(Beneath(KeywordPath(k), One(Key(n))), q)
  BY DEF Lifted, NamedPart, Part
<1> QED
  BY <1>1, <1>2 DEF LiftedFrom

LEMMA ListedLift ==
  ASSUME NEW limit, NEW v, NEW k, NEW x, x = v.fields[k],
         x.kind = "array", k \in ListedSchemas, NEW r
  PROVE  LiftedFrom(limit, v, k, r) <=>
           \E i \in DOMAIN x.elems : \E q \in Found(limit, x.elems[i]) :
              r = Beneath(Beneath(KeywordPath(k), One(Elem(i))), q)
<1>1. \A s : s \in Subschemas(v, k) <=> \E i \in DOMAIN x.elems : s = ListedPart(k, i, x.elems[i])
  <2> TAKE s
  <2> QED
    BY DEF Subschemas, Beneath, One, ListedPart
<1>2. \A i \in DOMAIN x.elems :
        r \in Lifted(limit, ListedPart(k, i, x.elems[i])) <=>
          \E q \in Found(limit, x.elems[i]) : r = Beneath(Beneath(KeywordPath(k), One(Elem(i))), q)
  BY DEF Lifted, ListedPart, Part
<1> QED
  BY <1>1, <1>2 DEF LiftedFrom

LEMMA SingleLift ==
  ASSUME NEW limit, NEW v, NEW k, NEW x, x = v.fields[k],
         x.kind = "object", k \in SingleSchemas, NEW r
  PROVE  LiftedFrom(limit, v, k, r) <=> \E q \in Found(limit, x) : r = Beneath(KeywordPath(k), q)
<1>1. \A s : s \in Subschemas(v, k) <=> s = SinglePart(k, x)
  BY SubschemasAre
<1>2. r \in Lifted(limit, SinglePart(k, x)) <=> \E q \in Found(limit, x) : r = Beneath(KeywordPath(k), q)
  BY DEF Lifted, SinglePart, Part
<1> QED
  BY <1>1, <1>2 DEF LiftedFrom

LEMMA SubschemasFind ==
  ASSUME PlainDefs, NEW limit, NEW v \in Values, v.kind = "object", NEW k \in DOMAIN v.fields,
         k # "properties", Subschemas(v, k) # {}, NEW r
  PROVE  r \in FoundBelow(walkSchema(limit), v, k) <=> LiftedFrom(limit, v, k, r)
<1>1. PICK x : x = v.fields[k]
  OBVIOUS
<1>2. x \in Values /\ KeywordPath(k) \in Path
  BY <1>1, StepsAreKeys, KeywordPathIs
<1>3. PICK s : s \in Subschemas(v, k)
  OBVIOUS
<1>4. \/ x.kind = "object" /\ k \in NamedSchemas
      \/ x.kind = "array" /\ k \in ListedSchemas
      \/ x.kind = "object" /\ k \in SingleSchemas
  BY <1>1, <1>3, SubschemasAre
<1>5. k # "description"
  BY <1>4 DEF NamedSchemas, ListedSchemas, SingleSchemas
<1>6. r \in FoundBelow(walkSchema(limit), v, k) <=> \E p \in Found(limit, x) : r = Beneath(KeywordPath(k), p)
  BY <1>1, <1>5, KeyFinds
<1>7. CASE x.kind = "object" /\ k \in NamedSchemas
  <2>1. DOMAIN x.fields \cap {"description", "properties", "items"} = {}
    BY <1>1, <1>7 DEF PlainDefs
  <2>2. \A p : p \in Found(limit, x) <=>
          \E n \in DOMAIN x.fields : \E q \in Found(limit, x.fields[n]) : p = Beneath(One(Key(n)), q)
    BY <1>2, <1>7, <2>1, NamedFind
  <2>3. \A n \in DOMAIN x.fields : \A q \in Found(limit, x.fields[n]) :
          Beneath(Beneath(KeywordPath(k), One(Key(n))), q) = Beneath(KeywordPath(k), Beneath(One(Key(n)), q))
    <3> TAKE n \in DOMAIN x.fields
    <3>1. x.fields[n] \in Values /\ One(Key(n)) \in Path
      BY <1>2, <1>7, StepsAreKeys, PathsBeneath
    <3>2. Found(limit, x.fields[n]) \subseteq Path
      BY <3>1, FoundArePaths
    <3> QED
      BY <1>2, <3>1, <3>2, PathsBeneath
  <2>4. LiftedFrom(limit, v, k, r) <=>
          \E n \in DOMAIN x.fields : \E q \in Found(limit, x.fields[n]) :
             r = Beneath(Beneath(KeywordPath(k), One(Key(n))), q)
    BY <1>1, <1>7, NamedLift
  <2> QED
    BY <1>6, <2>2, <2>3, <2>4
<1>8. CASE x.kind = "array" /\ k \in ListedSchemas
  <2>1. \A p : p \in Found(limit, x) <=>
          \E i \in DOMAIN x.elems : \E q \in Found(limit, x.elems[i]) : p = Beneath(One(Elem(i)), q)
    BY <1>2, <1>8, ListedFind
  <2>2. \A i \in DOMAIN x.elems : \A q \in Found(limit, x.elems[i]) :
          Beneath(Beneath(KeywordPath(k), One(Elem(i))), q) = Beneath(KeywordPath(k), Beneath(One(Elem(i)), q))
    <3> TAKE i \in DOMAIN x.elems
    <3>1. x.elems[i] \in Values /\ One(Elem(i)) \in Path
      BY <1>2, <1>8, StepsAreKeys, PathsBeneath
    <3>2. Found(limit, x.elems[i]) \subseteq Path
      BY <3>1, FoundArePaths
    <3> QED
      BY <1>2, <3>1, <3>2, PathsBeneath
  <2>3. LiftedFrom(limit, v, k, r) <=>
          \E i \in DOMAIN x.elems : \E q \in Found(limit, x.elems[i]) :
             r = Beneath(Beneath(KeywordPath(k), One(Elem(i))), q)
    BY <1>1, <1>8, ListedLift
  <2> QED
    BY <1>6, <2>1, <2>2, <2>3
<1>9. CASE x.kind = "object" /\ k \in SingleSchemas
  BY <1>1, <1>6, <1>9, SingleLift
<1> QED
  BY <1>4, <1>7, <1>8, <1>9

LEMMA PropertiesFind ==
  ASSUME NEW limit, NEW v \in Values, v.kind = "object", NEW k \in DOMAIN v.fields, k = "properties", NEW r
  PROVE  r \in FoundBelow(walkSchema(limit), v, k) <=> LiftedFrom(limit, v, k, r)
<1>1. PICK x : x = v.fields[k]
  OBVIOUS
<1>2. x \in Values
  BY <1>1, StepsAreKeys
<1>3. FoundBelow(walkSchema(limit), v, k) =
        IF x.kind = "object" THEN UNION {FoundAfter(limit, Key(n), x.fields[n]) : n \in DOMAIN x.fields} ELSE {}
  BY <1>1 DEF FoundBelow, FoundAfter
<1>4. CASE x.kind = "object"
  <2>1. r \in FoundBelow(walkSchema(limit), v, k) <=>
          \E n \in DOMAIN x.fields : r \in FoundAfter(limit, Key(n), x.fields[n])
    BY <1>3, <1>4
  <2>2. \A n \in DOMAIN x.fields :
          r \in FoundAfter(limit, Key(n), x.fields[n]) <=>
            \E q \in Found(limit, x.fields[n]) : r = Beneath(One(Key(n)), q)
    BY AfterFound
  <2>3. \A n \in DOMAIN x.fields : Beneath(KeywordPath(k), One(Key(n))) = One(Key(n))
    <3>1. KeywordPath(k) = <<>>
      BY DEF KeywordPath
    <3>2. \A n \in DOMAIN x.fields : One(Key(n)) \in Path
      BY <1>2, <1>4, StepsAreKeys, PathsBeneath
    <3> QED
      BY <3>1, <3>2, PathsBeneath
  <2>4. LiftedFrom(limit, v, k, r) <=>
          \E n \in DOMAIN x.fields : \E q \in Found(limit, x.fields[n]) :
             r = Beneath(Beneath(KeywordPath(k), One(Key(n))), q)
    <3>1. k \in NamedSchemas
      BY DEF NamedSchemas
    <3> QED
      BY <1>1, <1>4, <3>1, NamedLift
  <2> QED
    BY <2>1, <2>2, <2>3, <2>4
<1>5. CASE x.kind # "object"
  <2>1. k \notin ListedSchemas
    BY DEF ListedSchemas
  <2>2. \A s : s \notin Subschemas(v, k)
    BY <1>1, <1>5, <2>1, SubschemasAre
  <2> QED
    BY <1>3, <1>5, <2>2 DEF LiftedFrom
<1> QED
  BY <1>4, <1>5

(* What the walk finds at a value: its own description, what it finds in   *)
(* the schemas one step below, and what lies below what is no schema.      *)
LEMMA FoundAre ==
  ASSUME PlainDefs, NEW limit, NEW v \in Values, NEW r
  PROVE  /\ v.kind = "object" /\ TooLong(v, limit) => <<>> \in Found(limit, v)
         /\ (\E s \in Steps(v) : r \in Lifted(limit, s)) => r \in Found(limit, v)
         /\ r \in Found(limit, v) =>
              \/ v.kind = "object" /\ TooLong(v, limit) /\ r = <<>>
              \/ \E s \in Steps(v) : r \in Lifted(limit, s)
              \/ \E u \in NoSchemas(v), q \in Path : r = Beneath(u, q)
<1> DEFINE W == walkSchema(limit)
<1>1. CASE v.kind = "object"
  <2>1. r \in Found(limit, v) <=>
          \/ TooLong(v, limit) /\ r = <<>>
          \/ \E k \in DOMAIN v.fields : r \in FoundBelow(W, v, k)
    BY <1>1, FoundIs DEF FoundAt
  <2>2. <<>> \in Found(limit, v) <=>
          \/ TooLong(v, limit)
          \/ \E k \in DOMAIN v.fields : <<>> \in FoundBelow(W, v, k)
    BY <1>1, FoundIs DEF FoundAt
  <2>3. (\E s \in Steps(v) : r \in Lifted(limit, s)) <=> \E k \in DOMAIN v.fields : LiftedFrom(limit, v, k, r)
    BY <1>1 DEF Steps, LiftedFrom
  <2> HIDE DEF W
  <2>4. \A k \in DOMAIN v.fields : LiftedFrom(limit, v, k, r) => r \in FoundBelow(W, v, k)
    <3> SUFFICES ASSUME NEW k \in DOMAIN v.fields, LiftedFrom(limit, v, k, r) PROVE r \in FoundBelow(W, v, k)
      OBVIOUS
    <3>1. Subschemas(v, k) # {}
      BY DEF LiftedFrom
    <3> QED
      BY <1>1, <3>1, SubschemasFind, PropertiesFind DEF W
  <2>5. ASSUME NEW k \in DOMAIN v.fields, r \in FoundBelow(W, v, k)
        PROVE  LiftedFrom(limit, v, k, r) \/ \E u \in NoSchemas(v), q \in Path : r = Beneath(u, q)
    <3>1. CASE k = "properties"
      BY <1>1, <2>5, <3>1, PropertiesFind DEF W
    <3>2. CASE k # "properties" /\ Subschemas(v, k) # {}
      BY <1>1, <2>5, <3>2, SubschemasFind DEF W
    <3>3. CASE k # "properties" /\ Subschemas(v, k) = {}
      <4>1. k # "description"
        BY <2>5 DEF FoundBelow
      <4>2. KeywordPath(k) \in NoSchemas(v)
        BY <1>1, <3>3, <4>1 DEF NoSchemas
      <4>3. PICK q \in Found(limit, v.fields[k]) : r = Beneath(KeywordPath(k), q)
        BY <2>5, <3>3, <4>1, KeyFinds DEF W
      <4>4. q \in Path
        BY <1>1, StepsAreKeys, FoundArePaths
      <4> QED
        BY <4>2, <4>3, <4>4
    <3> QED
      BY <3>1, <3>2, <3>3
  <2> QED
    BY <1>1, <2>1, <2>2, <2>3, <2>4, <2>5
<1>2. CASE v.kind # "object"
  <2>1. Steps(v) = {}
    BY <1>2 DEF Steps
  <2>2. r \in Found(limit, v) => \E u \in NoSchemas(v), q \in Path : r = Beneath(u, q)
    <3> SUFFICES ASSUME r \in Found(limit, v) PROVE \E u \in NoSchemas(v), q \in Path : r = Beneath(u, q)
      OBVIOUS
    <3>1. v.kind = "array"
      BY <1>2, FoundIs DEF FoundAt
    <3>2. <<>> \in NoSchemas(v)
      BY <3>1 DEF NoSchemas
    <3>3. r \in Path /\ r = Beneath(<<>>, r)
      BY FoundArePaths, PathsBeneath
    <3> QED
      BY <3>2, <3>3
  <2> QED
    BY <1>2, <2>1, <2>2
<1> QED
  BY <1>1, <1>2

(* The schemas in a value, and what is no schema in it.                    *)
Within(s, q) == Part(Beneath(s.at, q.at), s.where \o q.where, q.is)

LEMMA PositionsAre ==
  ASSUME NEW v \in Values
  PROVE  /\ Part(<<>>, <<>>, v) \in Positions[v]
         /\ \A s \in Steps(v) : \A q \in Positions[s.is] : Within(s, q) \in Positions[v]
         /\ \A p \in Positions[v] :
              p = Part(<<>>, <<>>, v) \/ \E s \in Steps(v) : \E q \in Positions[s.is] : p = Within(s, q)
BY PositionsIs DEF PositionsAt, Within, Beneath

LEMMA NoSchemasArePaths ==
  ASSUME NEW v \in Values, NEW u \in NoSchemas(v)
  PROVE  u \in Path
<1>1. CASE v.kind = "object"
  <2>1. PICK k \in DOMAIN v.fields : u = KeywordPath(k)
    BY <1>1 DEF NoSchemas
  <2> QED
    BY <1>1, <2>1, StepsAreKeys, KeywordPathIs
<1>2. CASE v.kind # "object"
  <2>1. u = <<>>
    BY <1>2 DEF NoSchemas
  <2> QED
    BY <2>1, PathsBeneath
<1> QED
  BY <1>1, <1>2

NoSchemaAt(v, p, u, at) == p \in Positions[v] /\ u \in NoSchemas(p.is) /\ at = Beneath(p.at, u)

LEMMA NoSchemasAre ==
  ASSUME NEW v \in Values, NEW at
  PROVE  at \in NoSchemasIn(v) <=> \E p, u : NoSchemaAt(v, p, u, at)
<1>1. NoSchemasIn(v) = UNION {{Beneath(p.at, u) : u \in NoSchemas(p.is)} : p \in Positions[v]}
  BY DEF NoSchemasIn, Beneath
<1>2. at \in NoSchemasIn(v) <=> \E p \in Positions[v] : at \in {Beneath(p.at, u) : u \in NoSchemas(p.is)}
  BY <1>1
<1> QED
  BY <1>2 DEF NoSchemaAt

(* Every description over the limit is found, and what else is found lies  *)
(* below what is no schema.                                                *)
Finds(limit, v) ==
  /\ \A p \in Overlong(v, limit) : p.at \in Found(limit, v)
  /\ \A r \in Found(limit, v) :
       \/ \E p \in Overlong(v, limit) : r = p.at
       \/ \E at \in NoSchemasIn(v), w \in Path : at \in Path /\ r = Beneath(at, w)

LEMMA FindsAll ==
  ASSUME PlainDefs, NEW limit, NEW v \in Values, \A u \in Values : nesting(u) < nesting(v) => Finds(limit, u)
  PROVE  \A p \in Overlong(v, limit) : p.at \in Found(limit, v)
<1> TAKE p \in Overlong(v, limit)
<1>1. p \in Positions[v] /\ p.is.kind = "object" /\ TooLong(p.is, limit)
  BY DEF Overlong
<1>2. CASE p = Part(<<>>, <<>>, v)
  <2>1. p.at = <<>> /\ p.is = v
    BY <1>2 DEF Part
  <2> QED
    BY <1>1, <2>1, FoundAre
<1>3. CASE p # Part(<<>>, <<>>, v)
  <2>1. PICK s \in Steps(v) : \E q \in Positions[s.is] : p = Within(s, q)
    BY <1>1, <1>3, PositionsAre
  <2>2. PICK q \in Positions[s.is] : p = Within(s, q)
    BY <2>1
  <2>3. p.at = Beneath(s.at, q.at) /\ p.is = q.is
    BY <2>2 DEF Within, Part
  <2>4. Finds(limit, s.is)
    BY StepsBelow DEF IsBelow
  <2>5. q.at \in Found(limit, s.is)
    BY <1>1, <2>3, <2>4 DEF Finds, Overlong
  <2>6. p.at \in Lifted(limit, s)
    BY <2>3, <2>5 DEF Lifted
  <2> QED
    BY <2>6, FoundAre
<1> QED
  BY <1>2, <1>3

LEMMA FindsNothingElse ==
  ASSUME PlainDefs, NEW limit, NEW v \in Values, \A u \in Values : nesting(u) < nesting(v) => Finds(limit, u),
         NEW r \in Found(limit, v)
  PROVE  \/ \E p \in Overlong(v, limit) : r = p.at
         \/ \E at \in NoSchemasIn(v), w \in Path : at \in Path /\ r = Beneath(at, w)
<1>1. CASE v.kind = "object" /\ TooLong(v, limit) /\ r = <<>>
  <2>1. PICK p : p = Part(<<>>, <<>>, v)
    OBVIOUS
  <2>2. p \in Positions[v] /\ p.is = v /\ p.at = <<>>
    BY <2>1, PositionsAre DEF Part
  <2> QED
    BY <1>1, <2>2 DEF Overlong
<1>2. CASE \E s \in Steps(v) : r \in Lifted(limit, s)
  <2>1. PICK s \in Steps(v) : r \in Lifted(limit, s)
    BY <1>2
  <2>2. PICK q \in Found(limit, s.is) : r = Beneath(s.at, q)
    BY <2>1 DEF Lifted
  <2>3. IsBelow(s, v) /\ Finds(limit, s.is)
    BY StepsBelow DEF IsBelow
  <2>4. CASE \E p \in Overlong(s.is, limit) : q = p.at
    <3>1. PICK p \in Overlong(s.is, limit) : q = p.at
      BY <2>4
    <3>2. p \in Positions[s.is] /\ p.is.kind = "object" /\ TooLong(p.is, limit)
      BY DEF Overlong
    <3>3. Within(s, p) \in Positions[v] /\ Within(s, p).is = p.is /\ Within(s, p).at = r
      BY <2>2, <3>1, <3>2, PositionsAre DEF Within, Part
    <3> QED
      BY <3>2, <3>3 DEF Overlong
  <2>5. CASE \E at \in NoSchemasIn(s.is), w \in Path : at \in Path /\ q = Beneath(at, w)
    <3>1. PICK at \in NoSchemasIn(s.is), w \in Path : at \in Path /\ q = Beneath(at, w)
      BY <2>5
    <3>2. PICK p, u : NoSchemaAt(s.is, p, u, at)
      BY <2>3, <3>1, NoSchemasAre DEF IsBelow
    <3>3. Within(s, p) \in Positions[v] /\ Within(s, p).is = p.is /\ Within(s, p).at = Beneath(s.at, p.at)
      BY <3>2, PositionsAre DEF Within, Part, NoSchemaAt
    <3>4. NoSchemaAt(v, Within(s, p), u, Beneath(Beneath(s.at, p.at), u))
      BY <3>2, <3>3 DEF NoSchemaAt
    <3>5. s.at \in Path /\ p.at \in Path /\ u \in Path
      <4>1. p \in Positions[s.is] /\ u \in NoSchemas(p.is)
        BY <3>2 DEF NoSchemaAt
      <4>2. p.at \in Path /\ p.is \in Values
        BY <2>3, <4>1, PositionsPlaced DEF Placed, IsBelow
      <4> QED
        BY <2>3, <4>1, <4>2, NoSchemasArePaths DEF IsBelow
    <3>6. at = Beneath(p.at, u)
      BY <3>2 DEF NoSchemaAt
    <3>7. Beneath(Beneath(s.at, p.at), u) = Beneath(s.at, at)
      BY <3>5, <3>6, PathsBeneath
    <3>8. Beneath(s.at, at) \in NoSchemasIn(v) /\ Beneath(s.at, at) \in Path
      BY <3>1, <3>4, <3>5, <3>7, NoSchemasAre, PathsBeneath
    <3>9. r = Beneath(Beneath(s.at, at), w)
      BY <2>2, <3>1, <3>5, PathsBeneath
    <3> QED
      BY <3>1, <3>8, <3>9
  <2> QED
    BY <2>3, <2>4, <2>5 DEF Finds
<1>3. CASE \E u \in NoSchemas(v), q \in Path : r = Beneath(u, q)
  <2>1. PICK u \in NoSchemas(v), q \in Path : r = Beneath(u, q)
    BY <1>3
  <2>2. PICK p : p = Part(<<>>, <<>>, v)
    OBVIOUS
  <2>3. p \in Positions[v] /\ p.is = v /\ p.at = <<>>
    BY <2>2, PositionsAre DEF Part
  <2>4. u \in Path /\ u = Beneath(<<>>, u)
    BY NoSchemasArePaths, PathsBeneath
  <2>5. NoSchemaAt(v, p, u, u)
    BY <2>3, <2>4 DEF NoSchemaAt
  <2> QED
    BY <2>1, <2>4, <2>5, NoSchemasAre
<1> QED
  BY <1>1, <1>2, <1>3, FoundAre

LEMMA WalkFinds ==
  ASSUME PlainDefs, NEW limit
  PROVE  \A v \in Values : Finds(limit, v)
<1> DEFINE T == {n \in Nat : \E v \in Values : nesting(v) = n /\ ~Finds(limit, v)}
<1>1. \A v \in Values : nesting(v) \in Nat
  BY ValuesBelow
<1>2. ASSUME T # {} PROVE FALSE
  <2>1. PICK n \in T : \A j \in T : n <= j
    BY <1>2, LeastNat
  <2>2. PICK v \in Values : nesting(v) = n /\ ~Finds(limit, v)
    BY <2>1
  <2>3. ASSUME NEW u \in Values, nesting(u) < nesting(v) PROVE Finds(limit, u)
    <3>1. nesting(u) \in Nat /\ nesting(u) \notin T
      <4> HIDE DEF T
      <4> QED
        BY <1>1, <2>1, <2>2, <2>3
    <3> QED
      BY <3>1
  <2>4. Finds(limit, v)
    <3>1. \A p \in Overlong(v, limit) : p.at \in Found(limit, v)
      BY <2>3, FindsAll
    <3>2. \A r \in Found(limit, v) :
            \/ \E p \in Overlong(v, limit) : r = p.at
            \/ \E at \in NoSchemasIn(v), w \in Path : at \in Path /\ r = Beneath(at, w)
      BY <2>3, FindsNothingElse
    <3> QED
      BY <3>1, <3>2 DEF Finds
  <2> QED
    BY <2>2, <2>4
<1> QED
  BY <1>1, <1>2

LEMMA PrefixOf ==
  ASSUME NEW u \in Path, NEW w \in Path
  PROVE  IsPrefix(u, Beneath(u, w))
<1>1. /\ Len(u) \in Nat /\ Len(w) \in Nat /\ Len(Beneath(u, w)) = Len(u) + Len(w)
      /\ \A i \in 1..Len(u) : Beneath(u, w)[i] = u[i]
  BY ConcatProperties, LenProperties DEF Path, Beneath
<1>2. SubSeq(u, 1, Len(u)) = SubSeq(Beneath(u, w), 1, Len(u))
  BY <1>1 DEF Path
<1> QED
  BY <1>1, <1>2 DEF IsPrefix

(* What a schema that decodes is, and what is found in it.                 *)
LEMMA InputSchemaIs ==
  ASSUME NEW t, t.schema \in RawSchemas, Decodes(t.schema)
  PROVE  inputSchema(t) \in Values
<1>1. CASE t.schema \in Schemas
  <2>1. PICK v : v = t.schema
    OBVIOUS
  <2>2. v \in Values
    BY <1>1, <2>1, ValuesAssumption
  <2>3. v = Object(v.fields) \/ v = Array(v.elems) \/ v = String(v.len) \/ v = Other
    BY <2>2, ValuesAssumption
  <2>4. DOMAIN v # {"trailed"}
    <3>1. "kind" \in DOMAIN v
      BY <2>3 DEF Object, Array, String, Other
    <3> QED
      BY <3>1
  <2> QED
    BY <2>1, <2>2, <2>4 DEF inputSchema, Untrailed
<1>2. CASE t.schema \in {Trailed(s) : s \in Schemas}
  <2>1. PICK s \in Schemas : t.schema = Trailed(s)
    BY <1>2
  <2>2. DOMAIN t.schema = {"trailed"} /\ t.schema.trailed = s
    BY <2>1 DEF Trailed
  <2> QED
    BY <2>2, ValuesAssumption DEF inputSchema, Untrailed
<1> QED
  BY <1>1, <1>2 DEF RawSchemas, Decodes

LEMMA CheckSchemaType ==
  ASSUME NEW t, t.schema \in RawSchemas, Decodes(t.schema), NEW limit
  PROVE  checkSchema(t, limit) \in Seq(Path)
BY InputSchemaIs, WalkType DEF checkSchema

-----------------------------------------------------------------------------
(* Texts.                                                                  *)

(* A text begins and ends with something else than a blank, or is empty.   *)
Bare(s) == s = <<>> \/ (s[1] \notin Blanks /\ s[Len(s)] \notin Blanks)

LEMMA TrimIs ==
  ASSUME NEW s \in Texts, Inner(s) # {}
  PROVE  \E a, b \in Inner(s) :
            /\ \A i \in Inner(s) : a <= i /\ i <= b
            /\ TrimSpace(s) = SubSeq(s, a, b)
<1> DEFINE a == CHOOSE i \in Inner(s) : \A j \in Inner(s) : i <= j
           b == CHOOSE i \in Inner(s) : \A j \in Inner(s) : i >= j
<1>1. Inner(s) \in SUBSET Nat /\ \A i \in Inner(s) : i <= Len(s)
  BY DEF Inner, Texts
<1>2. \E i \in Inner(s) : \A j \in Inner(s) : i <= j
  BY <1>1, LeastNat
<1>3. \E i \in Inner(s) : \A j \in Inner(s) : j <= i
  BY <1>1, GreatestNat, LenProperties DEF Texts
<1>4. \E i \in Inner(s) : \A j \in Inner(s) : i >= j
  BY <1>1, <1>3
<1>5. a \in Inner(s) /\ \A j \in Inner(s) : a <= j
  BY <1>2
<1>6. b \in Inner(s) /\ \A j \in Inner(s) : b >= j
  BY <1>4
<1>7. TrimSpace(s) = SubSeq(s, a, b)
  BY DEF TrimSpace
<1> HIDE DEF a, b
<1> QED
  BY <1>1, <1>5, <1>6, <1>7

LEMMA TrimType ==
  ASSUME NEW s \in Texts
  PROVE  TrimSpace(s) \in Texts /\ Bare(TrimSpace(s)) /\ Len(TrimSpace(s)) <= Len(s)
<1>1. CASE Inner(s) = {}
  BY <1>1 DEF TrimSpace, Texts, Bare
<1>2. CASE Inner(s) # {}
  <2>1. PICK a \in Inner(s), b \in Inner(s) :
           (\A i \in Inner(s) : a <= i /\ i <= b) /\ TrimSpace(s) = SubSeq(s, a, b)
    BY <1>2, TrimIs
  <2>2. a \in 1..Len(s) /\ b \in 1..Len(s) /\ a <= b /\ s[a] \notin Blanks /\ s[b] \notin Blanks
    BY <2>1 DEF Inner
  <2>3. /\ SubSeq(s, a, b) \in Seq(Int) /\ Len(SubSeq(s, a, b)) = b - a + 1
        /\ \A i \in 1..b - a + 1 : SubSeq(s, a, b)[i] = s[a + i - 1]
    BY <2>2, SubSeqProperties DEF Texts
  <2>4. SubSeq(s, a, b)[1] = s[a] /\ SubSeq(s, a, b)[b - a + 1] = s[b]
    <3>1. 1 \in 1..b - a + 1 /\ b - a + 1 \in 1..b - a + 1 /\ a + 1 - 1 = a /\ a + (b - a + 1) - 1 = b
      BY <2>2
    <3> QED
      BY <2>3, <3>1
  <2> QED
    BY <2>1, <2>2, <2>3, <2>4, LenProperties DEF Bare, Texts
<1> QED
  BY <1>1, <1>2

LEMMA TrimBare ==
  ASSUME NEW s \in Texts, Bare(s)
  PROVE  TrimSpace(s) = s
<1>1. CASE s = <<>>
  BY <1>1 DEF TrimSpace, Inner
<1>2. CASE s # <<>>
  <2>1. Len(s) \in Nat /\ Len(s) # 0 /\ s[1] \notin Blanks /\ s[Len(s)] \notin Blanks
    BY <1>2, EmptySeq, LenProperties DEF Bare, Texts
  <2>2. 1 \in Inner(s) /\ Len(s) \in Inner(s) /\ Inner(s) \subseteq 1..Len(s)
    BY <2>1 DEF Inner
  <2>3. PICK a \in Inner(s), b \in Inner(s) :
           (\A i \in Inner(s) : a <= i /\ i <= b) /\ TrimSpace(s) = SubSeq(s, a, b)
    BY <2>2, TrimIs
  <2>4. a = 1 /\ b = Len(s)
    BY <2>1, <2>2, <2>3
  <2> QED
    BY <2>3, <2>4, SubSeqFull DEF Texts
<1> QED
  BY <1>1, <1>2

(* strings.Cut returns what is before the first newline, or everything.    *)
Breaks(s) == {i \in 1..Len(s) : s[i] = Newline}

LEMMA FirstLineIs ==
  ASSUME NEW s \in Texts
  PROVE  \/ Breaks(s) = {} /\ FirstLine(s) = s
         \/ \E n \in Breaks(s) : (\A i \in Breaks(s) : n <= i) /\ FirstLine(s) = SubSeq(s, 1, n - 1)
<1> DEFINE I == Breaks(s)
<1>1. FirstLine(s) = LET i == IF I # {} THEN Min(I) ELSE 0
                     IN  IF i = 0 THEN s ELSE SubSeq(s, 1, i - 1)
  BY DEF FirstLine, SelectInSeq, Breaks
<1>2. CASE I = {}
  BY <1>1, <1>2
<1>3. CASE I # {}
  <2>1. I \in SUBSET Nat /\ 0 \notin I
    BY DEF Breaks
  <2>2. PICK n \in I : \A i \in I : n <= i
    BY <1>3, <2>1, LeastNat
  <2>3. Min(I) \in I /\ \A i \in I : Min(I) <= i
    BY <2>2 DEF Min
  <2>4. Min(I) # 0
    BY <2>1, <2>3
  <2> QED
    BY <1>1, <1>3, <2>3, <2>4
<1> QED
  BY <1>2, <1>3

LEMMA FirstLineType ==
  ASSUME NEW s \in Texts
  PROVE  FirstLine(s) \in Texts
<1>1. CASE Breaks(s) = {} /\ FirstLine(s) = s
  BY <1>1
<1>2. ASSUME NEW n \in Breaks(s), FirstLine(s) = SubSeq(s, 1, n - 1)
      PROVE  FirstLine(s) \in Texts
  <2>1. n \in 1..Len(s)
    BY DEF Breaks
  <2>2. \A i \in 1..n - 1 : s[i] \in Int
    BY <2>1, ElementOfSeq, LenProperties DEF Texts
  <2> QED
    BY <1>2, <2>1, <2>2, SubSeqProperties DEF Texts
<1> QED
  BY <1>1, <1>2, FirstLineIs

LEMMA FirstLineWhole ==
  ASSUME NEW s \in Texts, Breaks(s) = {}
  PROVE  FirstLine(s) = s
BY FirstLineIs

LEMMA FirstLineCut ==
  ASSUME NEW s \in Texts, Breaks(s) = {}, NEW r \in Texts, r # <<>>, r[1] = Newline
  PROVE  FirstLine(s \o r) = s
<1> DEFINE n == Len(s) + 1
<1>1. Len(s) \in Nat /\ Len(r) \in Nat \ {0}
  BY EmptySeq, LenProperties DEF Texts
<1>2. /\ s \o r \in Texts /\ Len(s \o r) = Len(s) + Len(r)
      /\ \A i \in 1..Len(s) + Len(r) : (s \o r)[i] = IF i <= Len(s) THEN s[i] ELSE r[i - Len(s)]
  BY ConcatProperties DEF Texts
<1>3. n \in 1..Len(s) + Len(r) /\ n - Len(s) = 1 /\ ~(n <= Len(s))
  BY <1>1
<1>4. n \in Breaks(s \o r)
  BY <1>2, <1>3 DEF Breaks
<1>5. \A i \in Breaks(s \o r) : n <= i
  <2> SUFFICES ASSUME NEW i \in Breaks(s \o r), i < n PROVE FALSE
    BY <1>1, <1>2 DEF Breaks
  <2>1. i \in 1..Len(s) /\ (s \o r)[i] = Newline /\ i \in 1..Len(s) + Len(r)
    BY <1>1, <1>2 DEF Breaks
  <2>2. i \in Breaks(s)
    BY <1>2, <2>1 DEF Breaks
  <2> QED
    BY <2>2
<1>6. PICK m \in Breaks(s \o r) : (\A i \in Breaks(s \o r) : m <= i) /\ FirstLine(s \o r) = SubSeq(s \o r, 1, m - 1)
  BY <1>2, <1>4, FirstLineIs
<1>7. m = n
  <2>1. m <= n /\ n <= m /\ m \in Int
    BY <1>2, <1>4, <1>5, <1>6 DEF Breaks
  <2> QED
    BY <1>1, <2>1
<1>8. FirstLine(s \o r) = SubSeq(s \o r, 1, Len(s))
  BY <1>1, <1>6, <1>7
<1>9. SubSeq(s \o r, 1, Len(s)) = s
  <2> DEFINE w == s \o r
             c == SubSeq(w, 1, Len(s))
  <2>1. \A i \in 1..Len(s) : w[i] = s[i] /\ s[i] \in Int
    BY <1>1, <1>2, ElementOfSeq DEF Texts
  <2> HIDE DEF w
  <2>2. c \in Seq(Int) /\ Len(c) = Len(s) /\ \A i \in 1..Len(s) : c[i] = w[i]
    <3>1. /\ c \in Seq(Int) /\ Len(c) = IF 1 <= Len(s) THEN Len(s) - 1 + 1 ELSE 0
          /\ \A i \in 1..Len(s) - 1 + 1 : c[i] = w[1 + i - 1]
      BY <1>1, <2>1, SubSeqProperties
    <3> QED
      BY <1>1, <3>1
  <2> HIDE DEF c
  <2>3. c = s
    BY <2>1, <2>2, SeqEqual DEF Texts
  <2> QED
    BY <2>3 DEF c, w
<1> QED
  BY <1>8, <1>9

(* What Describe writes: the summary is the first line.                    *)
LEMMA Describes ==
  ASSUME NEW summary \in Texts, NEW details \in Texts, ~Refused(summary)
  PROVE  /\ Description(summary, details) \in Texts
         /\ FirstLine(Description(summary, details)) = TrimSpace(summary)
         /\ TrimSpace(TrimSpace(summary)) = TrimSpace(summary)
         /\ Len(TrimSpace(summary)) \in 1..SummaryMax
<1> DEFINE s == TrimSpace(summary)
           d == TrimSpace(details)
<1>1. s \in Texts /\ d \in Texts /\ TrimSpace(s) = s
  BY TrimType, TrimBare
<1>2. s # <<>> /\ Newline \notin Range(s) /\ ~(Len(s) > SummaryMax)
  BY DEF Refused
<1> HIDE DEF s, d
<1>3. Len(s) \in Nat \ {0} /\ Breaks(s) = {} /\ Len(s) \in 1..SummaryMax
  <2>1. Len(s) \in Nat \ {0} /\ DOMAIN s = 1..Len(s)
    BY <1>1, <1>2, EmptySeq, LenProperties DEF Texts
  <2>2. Breaks(s) = {}
    BY <1>2, <2>1 DEF Breaks, Range
  <2> QED
    BY <1>2, <2>1, <2>2, BudgetsAssumption
<1>4. CASE d = <<>>
  <2>1. Description(summary, details) = s
    <3>1. Description(summary, details) = s \o <<>>
      BY <1>4 DEF Description, s, d
    <3> QED
      BY <1>1, <3>1, ConcatEmptySeq DEF Texts
  <2> QED
    BY <1>1, <1>3, <2>1, FirstLineWhole DEF s
<1>5. CASE d # <<>>
  <2> DEFINE r == <<Newline, Newline>> \o d
  <2>1. Description(summary, details) = s \o r
    BY <1>5 DEF Description, s, d
  <2>2. r \in Texts /\ r # <<>> /\ r[1] = Newline
    <3>1. <<Newline, Newline>> \in Seq(Int) /\ Len(<<Newline, Newline>>) = 2 /\ <<Newline, Newline>>[1] = Newline
      BY DEF Newline
    <3>2. r \in Seq(Int) /\ Len(r) = 2 + Len(d) /\ Len(d) \in Nat
          /\ \A i \in 1..2 + Len(d) : r[i] = IF i <= 2 THEN <<Newline, Newline>>[i] ELSE d[i - 2]
      BY <1>1, <3>1, ConcatProperties, LenProperties DEF Texts
    <3> HIDE DEF r
    <3> QED
      BY <3>1, <3>2, EmptySeq DEF Texts
  <2> HIDE DEF r
  <2>3. s \o r \in Texts
    BY <1>1, <2>2, ConcatProperties DEF Texts
  <2> QED
    BY <1>1, <1>3, <2>1, <2>2, <2>3, FirstLineCut DEF s
<1> QED
  BY <1>4, <1>5

-----------------------------------------------------------------------------
(* Openings.                                                               *)

(* The first n runes of d, in lower case.                                  *)
Cut(s, n) == IF n < Len(s) THEN n ELSE Len(s)

LEMMA OpeningIs ==
  ASSUME NEW t, t.description \in Texts, budget.prefix \in Int
  PROVE  LET s == TrimSpace(t.description)
             k == Cut(s, budget.prefix)
         IN  /\ s \in Texts
             /\ budget.prefix <= 0 => Opening(t) = <<>>
             /\ budget.prefix > 0 =>
                  /\ k \in Nat
                  /\ Opening(t) \in Seq(Int) /\ Len(Opening(t)) = k
                  /\ \A i \in 1..k : Opening(t)[i] = Lower(s[i])
<1> DEFINE s == TrimSpace(t.description)
           k == Cut(s, budget.prefix)
<1>1. s \in Seq(Int) /\ Len(s) \in Nat
  BY TrimType, LenProperties DEF Texts
<1>2. Opening(t) = IF budget.prefix <= 0 THEN <<>> ELSE [i \in 1..k |-> Lower(s[i])]
  BY DEF Opening, prefix, Cut
<1>3. ASSUME budget.prefix > 0
      PROVE  k \in Nat /\ k <= Len(s)
  BY <1>1, <1>3 DEF Cut
<1> HIDE DEF s, k
<1>4. ASSUME budget.prefix > 0
      PROVE  /\ Opening(t) \in Seq(Int) /\ Len(Opening(t)) = k
             /\ \A i \in 1..k : Opening(t)[i] = Lower(s[i])
  <2>1. \A i \in 1..k : Lower(s[i]) \in Int
    BY <1>1, <1>3, <1>4, ElementOfSeq DEF Lower
  <2>2. Opening(t) = [i \in 1..k |-> Lower(s[i])]
    BY <1>2, <1>4
  <2> QED
    BY <1>3, <1>4, <2>1, <2>2
<1> QED
  BY <1>1, <1>2, <1>3, <1>4 DEF s, k, Texts

(* Two openings are one exactly when the tools open alike.                 *)
LEMMA OpeningsMeet ==
  ASSUME NEW t, t.description \in Texts, NEW u, u.description \in Texts, budget.prefix \in Int
  PROVE  OpenAlike(budget, t, u) <=> Opening(t) # <<>> /\ Opening(t) = Opening(u)
<1> DEFINE s == TrimSpace(t.description)
           r == TrimSpace(u.description)
           n == budget.prefix
           a == Cut(s, n)
           b == Cut(r, n)
<1>1. /\ s \in Texts /\ n <= 0 => Opening(t) = <<>>
      /\ n > 0 => /\ a \in Nat
                  /\ Opening(t) \in Seq(Int) /\ Len(Opening(t)) = a
                  /\ \A i \in 1..a : Opening(t)[i] = Lower(s[i])
  BY OpeningIs
<1>2. /\ r \in Texts
      /\ n > 0 => /\ b \in Nat
                  /\ Opening(u) \in Seq(Int) /\ Len(Opening(u)) = b
                  /\ \A i \in 1..b : Opening(u)[i] = Lower(r[i])
  BY OpeningIs
<1>3. OpenAlike(budget, t, u) <=>
        /\ n > 0 /\ s # <<>>
        /\ Len(s) = Len(r) \/ (Len(s) >= n /\ Len(r) >= n)
        /\ \A i \in 1..(IF Len(s) < n THEN Len(s) ELSE n) : Lower(s[i]) = Lower(r[i])
  BY DEF OpenAlike
<1>4. Len(s) \in Nat /\ Len(r) \in Nat /\ n \in Int /\ (s = <<>> <=> Len(s) = 0)
  <2>1. s \in Texts
    BY TrimType
  <2> QED
    BY <1>2, <2>1, LenProperties, EmptySeq DEF Texts
<1>5. CASE n <= 0
  <2>1. Opening(t) = <<>>
    BY <1>5, OpeningIs
  <2> QED
    BY <1>3, <1>4, <1>5, <2>1
<1>6. CASE n > 0
  <2>1. /\ a = (IF Len(s) < n THEN Len(s) ELSE n)
        /\ (a = b <=> Len(s) = Len(r) \/ (Len(s) >= n /\ Len(r) >= n))
        /\ (a = 0 <=> Len(s) = 0)
    BY <1>4, <1>6 DEF Cut
  <2>2. /\ a \in Nat /\ Opening(t) \in Seq(Int) /\ Len(Opening(t)) = a
        /\ \A i \in 1..a : Opening(t)[i] = Lower(s[i])
    BY <1>6, OpeningIs
  <2>3. /\ b \in Nat /\ Opening(u) \in Seq(Int) /\ Len(Opening(u)) = b
        /\ \A i \in 1..b : Opening(u)[i] = Lower(r[i])
    BY <1>6, OpeningIs
  <2>4. Opening(t) = <<>> <=> s = <<>>
    BY <1>4, <2>1, <2>2, EmptySeq
  <2>5. OpenAlike(budget, t, u) <=> s # <<>> /\ a = b /\ \A i \in 1..a : Lower(s[i]) = Lower(r[i])
    BY <1>3, <1>4, <1>6, <2>1
  <2> HIDE DEF s, r, a, b, n
  <2>6. a = b /\ (\A i \in 1..a : Lower(s[i]) = Lower(r[i])) => Opening(t) = Opening(u)
    BY <2>2, <2>3, SeqEqual
  <2>7. Opening(t) = Opening(u) => a = b /\ \A i \in 1..a : Lower(s[i]) = Lower(r[i])
    BY <2>2, <2>3
  <2> QED
    BY <2>4, <2>5, <2>6, <2>7
<1> QED
  BY <1>4, <1>5, <1>6

-----------------------------------------------------------------------------
(* Reports: sequences of errors sorted by the name of their tool.          *)

Sorted(s) ==
  \A i, j \in 1..Len(s) : i < j => s[i].tool <= s[j].tool /\ (s[i].kind = "param" \/ s[i] # s[j])

LEMMA RangeOf ==
  ASSUME NEW S, NEW s \in Seq(S)
  PROVE  /\ Range(s) = {s[i] : i \in 1..Len(s)}
         /\ \A i \in 1..Len(s) : s[i] \in Range(s)
BY LenProperties DEF Range

(* One more error of the last tool, or none.                               *)
LEMMA SortedOnly ==
  ASSUME NEW S, NEW s \in Seq(S), Sorted(s), NEW e \in S, NEW c,
         \A x \in Range(s) : x.tool <= e.tool /\ x # e
  PROVE  /\ s \o Only(e, c) \in Seq(S)
         /\ Sorted(s \o Only(e, c))
         /\ Range(s \o Only(e, c)) = Range(s) \cup (IF c THEN {e} ELSE {})
<1>1. CASE ~c
  <2>1. Only(e, c) = <<>>
    BY <1>1 DEF Only
  <2>2. s \o Only(e, c) = s
    BY <2>1, ConcatEmptySeq
  <2> QED
    BY <1>1, <2>2
<1>2. CASE c
  <2> DEFINE w == s \o <<e>>
             n == Len(s)
  <2>1. s \o Only(e, c) = w
    BY <1>2 DEF Only
  <2>2. n \in Nat
    BY LenProperties
  <2>3. /\ w \in Seq(S) /\ Len(w) = n + 1
        /\ \A i \in 1..n : w[i] = s[i]
        /\ w[n + 1] = e
    <3>1. w \in Seq(S) /\ Len(w) = n + 1 /\ \A i \in 1..n + 1 : w[i] = IF i <= n THEN s[i] ELSE <<e>>[i - n]
      <4>1. <<e>> \in Seq(S) /\ Len(<<e>>) = 1
        OBVIOUS
      <4> QED
        BY <4>1, ConcatProperties
    <3>2. \A i \in 1..n : i \in 1..n + 1 /\ i <= n
      BY <2>2
    <3>3. n + 1 \in 1..n + 1 /\ ~(n + 1 <= n) /\ (n + 1) - n = 1
      BY <2>2
    <3> HIDE DEF w
    <3> QED
      BY <3>1, <3>2, <3>3
  <2>4. \A i \in 1..n : s[i] \in Range(s)
    BY RangeOf
  <2> HIDE DEF w, n
  <2>5. ASSUME NEW i \in 1..n + 1, NEW j \in 1..n + 1, i < j
        PROVE  w[i].tool <= w[j].tool /\ (w[i].kind = "param" \/ w[i] # w[j])
    <3>1. i \in 1..n /\ w[i] = s[i] /\ s[i] \in Range(s)
      BY <2>2, <2>3, <2>4, <2>5
    <3>2. CASE j = n + 1
      BY <2>3, <3>1, <3>2
    <3>3. CASE j # n + 1
      <4>1. j \in 1..n /\ w[j] = s[j]
        BY <2>2, <2>3, <3>3
      <4> QED
        BY <2>5, <3>1, <4>1 DEF Sorted, n
    <3> QED
      BY <3>2, <3>3
  <2>6. Sorted(w)
    BY <2>3, <2>5 DEF Sorted
  <2>7. Range(w) = Range(s) \cup {e}
    <3>1. Range(w) = {w[i] : i \in 1..n + 1} /\ Range(s) = {s[i] : i \in 1..n}
      BY <2>3, RangeOf DEF n
    <3>2. 1..n + 1 = 1..n \cup {n + 1}
      BY <2>2
    <3> QED
      BY <2>3, <3>1, <3>2
  <2> QED
    BY <1>2, <2>1, <2>3, <2>6, <2>7
<1> QED
  BY <1>1, <1>2

(* The errors of the last tool's parameters, in any number.                *)
LEMMA SortedParams ==
  ASSUME NEW S, NEW s \in Seq(S), Sorted(s), NEW r \in Seq(S),
         \A x \in Range(s) : \A y \in Range(r) : x.tool <= y.tool /\ x # y,
         \A y \in Range(r) : y.kind = "param" /\ \A z \in Range(r) : y.tool <= z.tool
  PROVE  /\ s \o r \in Seq(S)
         /\ Sorted(s \o r)
         /\ Range(s \o r) = Range(s) \cup Range(r)
<1> DEFINE w == s \o r
           m == Len(s)
           n == Len(r)
<1>1. /\ m \in Nat /\ n \in Nat /\ w \in Seq(S) /\ Len(w) = m + n
      /\ \A i \in 1..m + n : w[i] = IF i <= m THEN s[i] ELSE r[i - m]
  BY ConcatProperties, LenProperties
<1>2. (\A i \in 1..m : s[i] \in Range(s)) /\ (\A i \in 1..n : r[i] \in Range(r))
  BY RangeOf
<1>3. Range(w) = Range(s) \cup Range(r)
  BY RangeConcatenation
<1> HIDE DEF w, m, n
<1>4. ASSUME NEW i \in 1..m + n, NEW j \in 1..m + n, i < j
      PROVE  w[i].tool <= w[j].tool /\ (w[i].kind = "param" \/ w[i] # w[j])
  <2>1. CASE j <= m
    <3>1. i \in 1..m /\ j \in 1..m /\ w[i] = s[i] /\ w[j] = s[j]
      BY <1>1, <1>4, <2>1
    <3> QED
      BY <1>4, <3>1 DEF Sorted, m
  <2>2. CASE i <= m /\ ~(j <= m)
    <3>1. i \in 1..m /\ j - m \in 1..n /\ w[i] = s[i] /\ w[j] = r[j - m]
      BY <1>1, <2>2
    <3> QED
      BY <1>2, <3>1
  <2>3. CASE ~(i <= m)
    <3>1. i - m \in 1..n /\ j - m \in 1..n /\ w[i] = r[i - m] /\ w[j] = r[j - m]
      BY <1>1, <1>4, <2>3
    <3> QED
      BY <1>2, <3>1
  <2> QED
    BY <1>1, <2>1, <2>2, <2>3
<1>5. Sorted(w)
  BY <1>1, <1>4 DEF Sorted
<1> QED
  BY <1>1, <1>3, <1>5 DEF w

-----------------------------------------------------------------------------
(* The faults of a set of tools and of one tool more, the last by name.    *)

SummaryFaults(S) == Fault("summary", {t \in S : Len(TrimSpace(FirstLine(t.description))) \notin 1..SummaryMax})
DescriptionFaults(S) ==
    Fault("description", {t \in S : budget.description > 0 /\ Len(t.description) > budget.description})
SchemaFaults(S) == Fault("schema", {t \in S : budget.param > 0 /\ ~Decodes(t.schema)})
ParamFaultsOf(t) == {Err(t, "param", at) : at \in Range(checkSchema(t, budget.param))}
ParamFaults(S) == UNION {ParamFaultsOf(t) : t \in {t \in S : budget.param > 0 /\ Decodes(t.schema)}}
Clash(t, name) == Err(t, "prefix", <<[tool |-> name]>>)
PrefixFaults(S) ==
    {Clash(tu[1], tu[2].name) : tu \in {tu \in AlikeIn(budget, S) : \A w \in AlikeIn(budget, S) : w[1] # tu[2]}}

LEMMA FaultsAre ==
  ASSUME NEW S
  PROVE  FaultsIn(budget, S) = SummaryFaults(S) \cup DescriptionFaults(S) \cup SchemaFaults(S)
                       \cup ParamFaults(S) \cup PrefixFaults(S)
BY DEF FaultsIn, SummaryFaults, DescriptionFaults, SchemaFaults, ParamFaults, ParamFaultsOf, PrefixFaults, Clash, Err

(* What one tool adds, but for the prefix.                                 *)
LEMMA FaultsOfOne ==
  ASSUME NEW S, NEW t
  PROVE  /\ SummaryFaults(S \cup {t}) = SummaryFaults(S) \cup
              (IF Len(TrimSpace(FirstLine(t.description))) \notin 1..SummaryMax
               THEN {Err(t, "summary", <<>>)} ELSE {})
         /\ DescriptionFaults(S \cup {t}) = DescriptionFaults(S) \cup
              (IF budget.description > 0 /\ Len(t.description) > budget.description
               THEN {Err(t, "description", <<>>)} ELSE {})
         /\ SchemaFaults(S \cup {t}) = SchemaFaults(S) \cup
              (IF budget.param > 0 /\ ~Decodes(t.schema) THEN {Err(t, "schema", <<>>)} ELSE {})
         /\ ParamFaults(S \cup {t}) = ParamFaults(S) \cup
              (IF budget.param > 0 /\ Decodes(t.schema) THEN ParamFaultsOf(t) ELSE {})
<1>2. SummaryFaults(S \cup {t}) = SummaryFaults(S) \cup
        (IF Len(TrimSpace(FirstLine(t.description))) \notin 1..SummaryMax THEN {Err(t, "summary", <<>>)} ELSE {})
  BY DEF SummaryFaults, Fault, Err
<1>3. DescriptionFaults(S \cup {t}) = DescriptionFaults(S) \cup
        (IF budget.description > 0 /\ Len(t.description) > budget.description
         THEN {Err(t, "description", <<>>)} ELSE {})
  BY DEF DescriptionFaults, Fault, Err
<1>4. SchemaFaults(S \cup {t}) = SchemaFaults(S) \cup
        (IF budget.param > 0 /\ ~Decodes(t.schema) THEN {Err(t, "schema", <<>>)} ELSE {})
  BY DEF SchemaFaults, Fault, Err
<1>5. ParamFaults(S \cup {t}) = ParamFaults(S) \cup
        (IF budget.param > 0 /\ Decodes(t.schema) THEN ParamFaultsOf(t) ELSE {})
  BY DEF ParamFaults
<1> QED
  BY <1>2, <1>3, <1>4, <1>5

(* The tools alike, once t is there: t with what it is like, and those     *)
(* before.                                                                 *)
LEMMA AlikeOfOne ==
  ASSUME NEW S, NEW t, \A u \in S : u.name < t.name /\ u.name \in Int, t.name \in Int
  PROVE  /\ AlikeIn(budget, S \cup {t}) = AlikeIn(budget, S) \cup {<<t, u>> : u \in {u \in S : OpenAlike(budget, t, u)}}
         /\ t \notin S
<1>1. t \notin S /\ \A u \in S : ~(t.name < u.name)
  OBVIOUS
<1>2. ~(t.name < t.name)
  OBVIOUS
<1>3. ASSUME NEW a \in S \cup {t}, NEW b \in S \cup {t}
      PROVE  (b.name < a.name /\ OpenAlike(budget, a, b)) <=>
               \/ a \in S /\ b \in S /\ b.name < a.name /\ OpenAlike(budget, a, b)
               \/ a = t /\ b \in S /\ OpenAlike(budget, t, b)
  BY <1>1, <1>2
<1>4. ASSUME NEW x
      PROVE  x \in AlikeIn(budget, S \cup {t}) <=> x \in AlikeIn(budget, S) \cup {<<t, u>> : u \in {u \in S : OpenAlike(budget, t, u)}}
  <2>1. x \in AlikeIn(budget, S \cup {t}) <=>
          \E a, b \in S \cup {t} : x = <<a, b>> /\ b.name < a.name /\ OpenAlike(budget, a, b)
    BY DEF AlikeIn
  <2>2. x \in AlikeIn(budget, S) <=> \E a, b \in S : x = <<a, b>> /\ b.name < a.name /\ OpenAlike(budget, a, b)
    BY DEF AlikeIn
  <2> QED
    BY <1>3, <2>1, <2>2
<1> QED
  BY <1>1, <1>4

(* First among S with its opening, as the map knows it.                    *)
FirstAlike(S, u) == \A w \in AlikeIn(budget, S) : w[1] # u

LEMMA PrefixFaultsOfOne ==
  ASSUME NEW S, NEW t, \A u \in S : u.name < t.name /\ u.name \in Int, t.name \in Int
  PROVE  PrefixFaults(S \cup {t}) =
           PrefixFaults(S) \cup {Clash(t, u.name) : u \in {u \in S : OpenAlike(budget, t, u) /\ FirstAlike(S, u)}}
<1> DEFINE more == {<<t, u>> : u \in {u \in S : OpenAlike(budget, t, u)}}
<1>1. AlikeIn(budget, S \cup {t}) = AlikeIn(budget, S) \cup more /\ t \notin S
  BY AlikeOfOne
<1>2. \A w \in AlikeIn(budget, S) : w[1] \in S /\ w[2] \in S
  BY DEF AlikeIn
<1>3. \A w \in more : w[1] = t /\ w[2] \in S
  OBVIOUS
<1>4. ASSUME NEW u \in S
      PROVE  (\A w \in AlikeIn(budget, S \cup {t}) : w[1] # u) <=> FirstAlike(S, u)
  BY <1>1, <1>2, <1>3 DEF FirstAlike
<1>5. {tu \in AlikeIn(budget, S \cup {t}) : \A w \in AlikeIn(budget, S \cup {t}) : w[1] # tu[2]}
      = {tu \in AlikeIn(budget, S) : FirstAlike(S, tu[2])} \cup {tu \in more : FirstAlike(S, tu[2])}
  BY <1>1, <1>2, <1>3, <1>4
<1>6. PrefixFaults(S) = {Clash(tu[1], tu[2].name) :
                            tu \in {tu \in AlikeIn(budget, S) : FirstAlike(S, tu[2])}}
  BY DEF PrefixFaults, FirstAlike
<1>7. {tu \in more : FirstAlike(S, tu[2])} = {<<t, u>> : u \in {u \in S : OpenAlike(budget, t, u) /\ FirstAlike(S, u)}}
  OBVIOUS
<1>8. {Clash(tu[1], tu[2].name) :
          tu \in {<<t, u>> : u \in {u \in S : OpenAlike(budget, t, u) /\ FirstAlike(S, u)}}}
      = {Clash(t, u.name) : u \in {u \in S : OpenAlike(budget, t, u) /\ FirstAlike(S, u)}}
  <2> DEFINE G == {u \in S : OpenAlike(budget, t, u) /\ FirstAlike(S, u)}
  <2>1. \A u : Clash(t, u.name) = Clash(<<t, u>>[1], <<t, u>>[2].name)
    OBVIOUS
  <2> HIDE DEF G
  <2>2. {Clash(tu[1], tu[2].name) : tu \in {<<t, u>> : u \in G}}
        = {Clash(<<t, u>>[1], <<t, u>>[2].name) : u \in G}
    BY Zenon
  <2>3. {Clash(<<t, u>>[1], <<t, u>>[2].name) : u \in G}
        = {Clash(t, u.name) : u \in G}
    BY Zenon, <2>1
  <2> QED
    BY <2>2, <2>3 DEF G
<1> DEFINE old == {tu \in AlikeIn(budget, S) : FirstAlike(S, tu[2])}
           new == {<<t, u>> : u \in {u \in S : OpenAlike(budget, t, u) /\ FirstAlike(S, u)}}
           now == {tu \in AlikeIn(budget, S \cup {t}) : \A w \in AlikeIn(budget, S \cup {t}) : w[1] # tu[2]}
<1>9. now = old \cup new
  BY <1>5, <1>7
<1>10. PrefixFaults(S \cup {t}) = {Clash(tu[1], tu[2].name) : tu \in now}
  BY DEF PrefixFaults
<1> HIDE DEF old, new, now
<1>11. {Clash(tu[1], tu[2].name) : tu \in old \cup new}
       = {Clash(tu[1], tu[2].name) : tu \in old}
         \cup {Clash(tu[1], tu[2].name) : tu \in new}
  OBVIOUS
<1> QED
  BY <1>6, <1>8, <1>9, <1>10, <1>11 DEF old, new

-----------------------------------------------------------------------------
(* Sorting.  Below maps every place to the places that come before it in a *)
(* strict total order; how many there are is the rank of the place, and    *)
(* every rank up to the number of places is taken, by one of them.         *)

Ordering(below, n) ==
  /\ below \in [1..n -> SUBSET (1..n)]
  /\ \A i \in 1..n : i \notin below[i]
  /\ \A i, j \in 1..n : i \in below[j] => below[i] \subseteq below[j]
  /\ \A i, j \in 1..n : i # j => i \in below[j] \/ j \in below[i]

LEMMA Ranks ==
  ASSUME NEW n \in Nat, NEW below, Ordering(below, n)
  PROVE  /\ \A i \in 1..n : Cardinality(below[i]) \in 0..n - 1
         /\ \A i, j \in 1..n : i \in below[j] => Cardinality(below[i]) < Cardinality(below[j])
         /\ \A i, j \in 1..n : Cardinality(below[i]) = Cardinality(below[j]) => i = j
         /\ \A k \in 1..n : \E i \in 1..n : Cardinality(below[i]) = k - 1
<1> DEFINE P == 1..n
           rank == [i \in P |-> Cardinality(below[i]) + 1]
<1>1. IsFiniteSet(P) /\ Cardinality(P) = n
  <2>1. IsFiniteSet(P) /\ Cardinality(P) = IF 1 > n THEN 0 ELSE n - 1 + 1
    BY FS_Interval
  <2> QED
    BY <2>1
<1>2. ASSUME NEW i \in P
      PROVE  IsFiniteSet(below[i]) /\ Cardinality(below[i]) \in 0..n - 1
  <2>1. below[i] \in SUBSET P /\ i \notin below[i]
    BY DEF Ordering
  <2> HIDE DEF P
  <2>2. IsFiniteSet(below[i]) /\ Cardinality(below[i]) <= n /\ Cardinality(below[i]) # n
    BY <1>1, <1>2, <2>1, FS_Subset
  <2>3. Cardinality(below[i]) \in Nat
    BY <2>2, FS_CardinalityType
  <2> QED
    BY <2>2, <2>3
<1>3. ASSUME NEW i \in P, NEW j \in P, i \in below[j]
      PROVE  Cardinality(below[i]) < Cardinality(below[j])
  <2>1. below[i] \in SUBSET below[j] /\ below[i] # below[j]
    BY <1>3 DEF Ordering
  <2>2. Cardinality(below[i]) <= Cardinality(below[j]) /\ Cardinality(below[i]) # Cardinality(below[j])
    BY <1>2, <2>1, FS_Subset
  <2> QED
    BY <1>2, <2>2
<1>4. ASSUME NEW i \in P, NEW j \in P, Cardinality(below[i]) = Cardinality(below[j])
      PROVE  i = j
  <2> SUFFICES ASSUME i # j PROVE FALSE
    OBVIOUS
  <2>1. i \in below[j] \/ j \in below[i]
    BY DEF Ordering
  <2> QED
    BY <1>2, <1>3, <1>4, <2>1
<1>5. rank \in [P -> P] /\ \A i, j \in P : rank[i] = rank[j] => i = j
  BY <1>2, <1>4
<1>6. rank \in Injection(P, P)
  <2> HIDE DEF rank, P
  <2> QED
    BY <1>5 DEF Injection, IsInjective
<1>7. rank \in Surjection(P, P)
  <2> HIDE DEF rank, P
  <2> QED
    BY <1>1, <1>6, FS_Injection
<1>8. \A k \in P : \E i \in P : Cardinality(below[i]) = k - 1
  <2>1. \A k \in P : \E i \in P : rank[i] = k
    BY <1>7 DEF Surjection
  <2> SUFFICES ASSUME NEW k \in P PROVE \E i \in P : Cardinality(below[i]) = k - 1
    OBVIOUS
  <2>2. PICK i \in P : rank[i] = k
    BY <2>1
  <2>3. Cardinality(below[i]) + 1 = k /\ Cardinality(below[i]) \in Int
    BY <1>2, <2>2
  <2> QED
    BY <2>3
<1> QED
  BY <1>2, <1>3, <1>4, <1>8

(* Texts are ordered rune by rune, the shorter of two first.               *)
Parts(s, t, k) ==
  /\ k \in 1..Len(t) /\ k - 1 <= Len(s)
  /\ \A i \in 1..k - 1 : s[i] = t[i]
  /\ Len(s) < k \/ s[k] < t[k]

LEMMA SubSeqSame ==
  ASSUME NEW s \in Texts, NEW t \in Texts, NEW k \in Nat, k <= Len(s), k <= Len(t)
  PROVE  SubSeq(s, 1, k) = SubSeq(t, 1, k) <=> \A i \in 1..k : s[i] = t[i]
<1> DEFINE a == SubSeq(s, 1, k)
           b == SubSeq(t, 1, k)
<1>1. Len(s) \in Nat /\ Len(t) \in Nat
  BY LenProperties DEF Texts
<1>2. \A i \in 1..k : s[i] \in Int /\ t[i] \in Int
  BY <1>1, ElementOfSeq DEF Texts
<1>3. /\ a \in Seq(Int) /\ Len(a) = (IF 1 <= k THEN k - 1 + 1 ELSE 0)
      /\ \A i \in 1..k - 1 + 1 : a[i] = s[1 + i - 1]
  BY <1>2, SubSeqProperties
<1>4. /\ b \in Seq(Int) /\ Len(b) = (IF 1 <= k THEN k - 1 + 1 ELSE 0)
      /\ \A i \in 1..k - 1 + 1 : b[i] = t[1 + i - 1]
  BY <1>2, SubSeqProperties
<1> HIDE DEF a, b
<1>5. Len(a) = k /\ Len(b) = k /\ \A i \in 1..k : a[i] = s[i] /\ b[i] = t[i]
  BY <1>3, <1>4
<1>6. (\A i \in 1..k : a[i] = b[i]) => a = b
  BY <1>3, <1>4, <1>5, SeqEqual
<1> QED
  BY <1>5, <1>6 DEF a, b

LEMMA TextLessIs ==
  ASSUME NEW s \in Texts, NEW t \in Texts
  PROVE  TextLess(s, t) <=> \E k : Parts(s, t, k)
<1>1. Len(s) \in Nat /\ Len(t) \in Nat
  BY LenProperties DEF Texts
<1>2. ASSUME NEW k \in 1..Len(t), k - 1 <= Len(s)
      PROVE  SubSeq(s, 1, k - 1) = SubSeq(t, 1, k - 1) <=> \A i \in 1..k - 1 : s[i] = t[i]
  <2>1. k - 1 \in Nat /\ k - 1 <= Len(t)
    BY <1>1
  <2> QED
    BY <1>2, <2>1, SubSeqSame
<1> QED
  BY <1>2 DEF TextLess, Parts

LEMMA TextLessIrreflexive ==
  ASSUME NEW s \in Texts
  PROVE  ~TextLess(s, s)
<1>1. \A k \in 1..Len(s) : s[k] \in Int /\ Len(s) \in Nat
  BY ElementOfSeq, LenProperties DEF Texts
<1> QED
  BY <1>1, TextLessIs DEF Parts

LEMMA TextLessTransitive ==
  ASSUME NEW s \in Texts, NEW t \in Texts, NEW u \in Texts, TextLess(s, t), TextLess(t, u)
  PROVE  TextLess(s, u)
<1>1. PICK k : Parts(s, t, k)
  BY TextLessIs
<1>2. PICK l : Parts(t, u, l)
  BY TextLessIs
<1>3. Len(s) \in Nat /\ Len(t) \in Nat /\ Len(u) \in Nat /\ k \in Nat /\ l \in Nat
  BY <1>1, <1>2, LenProperties DEF Texts, Parts
<1>4. /\ \A i \in 1..Len(s) : s[i] \in Int
      /\ \A i \in 1..Len(t) : t[i] \in Int
      /\ \A i \in 1..Len(u) : u[i] \in Int
  BY ElementOfSeq DEF Texts
<1>5. CASE k <= l
  <2>1. k \in 1..Len(u) /\ k - 1 <= Len(s)
    BY <1>1, <1>2, <1>3, <1>5 DEF Parts
  <2>2. \A i \in 1..k - 1 : s[i] = u[i]
    BY <1>1, <1>2, <1>3, <1>5 DEF Parts
  <2>3. Len(s) < k \/ s[k] < u[k]
    <3>1. CASE k < l
      <4>1. t[k] = u[k]
        BY <1>1, <1>2, <1>3, <3>1 DEF Parts
      <4> QED
        BY <1>1, <4>1 DEF Parts
    <3>2. CASE k = l
      <4>1. t[k] < u[k] /\ (Len(s) < k \/ s[k] < t[k]) /\ k \in 1..Len(t) /\ k \in 1..Len(u)
        BY <1>1, <1>2, <1>3, <3>2 DEF Parts
      <4> QED
        BY <1>3, <1>4, <4>1
    <3> QED
      BY <1>3, <1>5, <3>1, <3>2
  <2>4. Parts(s, u, k)
    BY <2>1, <2>2, <2>3 DEF Parts
  <2> QED
    BY <2>4, TextLessIs
<1>6. CASE l < k
  <2>1. l \in 1..Len(u) /\ l - 1 <= Len(s)
    BY <1>1, <1>2, <1>3, <1>6 DEF Parts
  <2>2. \A i \in 1..l - 1 : s[i] = u[i]
    BY <1>1, <1>2, <1>3, <1>6 DEF Parts
  <2>3. s[l] = t[l] /\ t[l] < u[l]
    BY <1>1, <1>2, <1>3, <1>6 DEF Parts
  <2>4. Parts(s, u, l)
    BY <2>1, <2>2, <2>3 DEF Parts
  <2> QED
    BY <2>4, TextLessIs
<1> QED
  BY <1>3, <1>5, <1>6

LEMMA TextLessTotal ==
  ASSUME NEW s \in Texts, NEW t \in Texts, s # t
  PROVE  TextLess(s, t) \/ TextLess(t, s)
<1> DEFINE D == {k \in Nat : k # 0 /\ (k > Len(s) \/ k > Len(t) \/ s[k] # t[k])}
<1>1. Len(s) \in Nat /\ Len(t) \in Nat
  BY LenProperties DEF Texts
<1>2. Len(s) + 1 \in D
  BY <1>1
<1>3. PICK k \in D : \A m \in D : k <= m
  <2>1. D \in SUBSET Nat /\ D # {}
    BY <1>2
  <2> HIDE DEF D
  <2> QED
    BY <2>1, LeastNat
<1>4. k \in Nat \ {0} /\ (k > Len(s) \/ k > Len(t) \/ s[k] # t[k])
  OBVIOUS
<1>5. \A i \in 1..k - 1 : i <= Len(s) /\ i <= Len(t) /\ s[i] = t[i]
  <2> SUFFICES ASSUME NEW i \in 1..k - 1 PROVE i <= Len(s) /\ i <= Len(t) /\ s[i] = t[i]
    OBVIOUS
  <2>1. i \in Nat /\ i # 0 /\ ~(k <= i)
    BY <1>4
  <2>2. i \notin D
    BY <1>3, <2>1
  <2> QED
    BY <1>1, <2>1, <2>2
<1> HIDE DEF D
<1>6. k - 1 <= Len(s) /\ k - 1 <= Len(t)
  <2>1. CASE k = 1
    BY <1>1, <2>1
  <2>2. CASE k # 1
    <3>1. k - 1 \in 1..k - 1
      BY <1>4, <2>2
    <3> QED
      BY <1>5, <3>1
  <2> QED
    BY <2>1, <2>2
<1>7. CASE k > Len(s) /\ k > Len(t)
  <2>1. Len(s) = k - 1 /\ Len(t) = k - 1
    BY <1>1, <1>4, <1>6, <1>7
  <2>2. s = t
    BY <1>5, <2>1, SeqEqual DEF Texts
  <2> QED
    BY <2>2
<1>8. CASE k <= Len(s) /\ k > Len(t)
  <2>1. Parts(t, s, k)
    BY <1>1, <1>4, <1>5, <1>6, <1>8 DEF Parts
  <2> QED
    BY <2>1, TextLessIs
<1>9. CASE k > Len(s) /\ k <= Len(t)
  <2>1. Parts(s, t, k)
    BY <1>1, <1>4, <1>5, <1>6, <1>9 DEF Parts
  <2> QED
    BY <2>1, TextLessIs
<1>10. CASE k <= Len(s) /\ k <= Len(t)
  <2>1. s[k] # t[k] /\ s[k] \in Int /\ t[k] \in Int /\ k \in 1..Len(s) /\ k \in 1..Len(t)
    BY <1>1, <1>4, <1>10, ElementOfSeq DEF Texts
  <2>2. Parts(s, t, k) \/ Parts(t, s, k)
    BY <1>5, <1>6, <2>1 DEF Parts
  <2> QED
    BY <2>2, TextLessIs
<1> QED
  BY <1>1, <1>4, <1>7, <1>8, <1>9, <1>10

(* What comes first in a list of tools is a strict total order of its      *)
(* places: by name, among tools of one name by description, and by place   *)
(* among tools that tie.                                                   *)
Named(t) == t.name \in Int /\ t.description \in Texts

First(listed, i, j) ==
  \/ Before(listed[i], listed[j])
  \/ ~Before(listed[j], listed[i]) /\ i < j

LEMMA FirstIs ==
  ASSUME NEW listed, NEW i \in Int, NEW j \in Int, Named(listed[i]), Named(listed[j])
  PROVE  First(listed, i, j) <=>
           \/ listed[i].name < listed[j].name
           \/ /\ listed[i].name = listed[j].name
              /\ \/ TextLess(listed[i].description, listed[j].description)
                 \/ listed[i].description = listed[j].description /\ i < j
<1> DEFINE t == listed[i]
           u == listed[j]
<1>1. t.name \in Int /\ u.name \in Int /\ t.description \in Texts /\ u.description \in Texts
  BY DEF Named
<1>2. /\ TextLess(t.description, u.description) => ~TextLess(u.description, t.description)
      /\ t.description # u.description =>
           TextLess(t.description, u.description) \/ TextLess(u.description, t.description)
      /\ t.description = u.description =>
           ~TextLess(t.description, u.description) /\ ~TextLess(u.description, t.description)
  BY <1>1, TextLessIrreflexive, TextLessTransitive, TextLessTotal
<1>3. /\ Before(t, u) <=> t.name < u.name \/ (t.name = u.name /\ TextLess(t.description, u.description))
      /\ Before(u, t) <=> u.name < t.name \/ (u.name = t.name /\ TextLess(u.description, t.description))
  BY DEF Before
<1>4. First(listed, i, j) <=> Before(t, u) \/ (~Before(u, t) /\ i < j)
  BY DEF First
<1> HIDE DEF t, u
<1>5. CASE t.name < u.name
  BY <1>1, <1>3, <1>4, <1>5 DEF t, u
<1>6. CASE u.name < t.name
  BY <1>1, <1>3, <1>4, <1>6 DEF t, u
<1>7. CASE u.name = t.name
  <2>1. ~(t.name < u.name) /\ ~(u.name < t.name)
    BY <1>1, <1>7
  <2>2. First(listed, i, j) <=>
          \/ TextLess(t.description, u.description)
          \/ ~TextLess(u.description, t.description) /\ i < j
    BY <1>3, <1>4, <1>7, <2>1
  <2>3. First(listed, i, j) <=>
          \/ TextLess(t.description, u.description)
          \/ t.description = u.description /\ i < j
    BY <1>2, <2>2
  <2> QED
    BY <1>7, <2>1, <2>3 DEF t, u
<1> QED
  BY <1>1, <1>5, <1>6, <1>7

LEMMA FirstOrders ==
  ASSUME NEW n \in Nat, NEW listed, \A i \in 1..n : Named(listed[i])
  PROVE  Ordering([i \in 1..n |-> {j \in 1..n : First(listed, j, i)}], n)
<1> DEFINE below == [i \in 1..n |-> {j \in 1..n : First(listed, j, i)}]
           name(i) == listed[i].name
           text(i) == listed[i].description
<1>1. below \in [1..n -> SUBSET (1..n)] /\ \A i, j \in 1..n : j \in below[i] <=> First(listed, j, i)
  OBVIOUS
<1>2. \A i \in 1..n : name(i) \in Int /\ text(i) \in Texts /\ i \in Int
  BY DEF Named
<1>3. \A i, j \in 1..n : First(listed, i, j) <=>
        \/ name(i) < name(j)
        \/ name(i) = name(j) /\ (TextLess(text(i), text(j)) \/ (text(i) = text(j) /\ i < j))
  BY <1>2, FirstIs
<1> HIDE DEF below, name, text
<1>4. ASSUME NEW i \in 1..n
      PROVE  ~First(listed, i, i)
  <2>1. ~TextLess(text(i), text(i)) /\ ~(i < i) /\ ~(name(i) < name(i))
    BY <1>2, TextLessIrreflexive
  <2> QED
    BY <1>3, <2>1
<1>5. ASSUME NEW i \in 1..n, NEW j \in 1..n, NEW k \in 1..n, First(listed, k, i), First(listed, i, j)
      PROVE  First(listed, k, j)
  <2>1. CASE name(k) < name(i) \/ name(i) < name(j)
    <3>1. name(k) <= name(i) /\ name(i) <= name(j)
      BY <1>2, <1>3, <1>5
    <3>2. name(k) < name(j)
      BY <1>2, <2>1, <3>1
    <3> QED
      BY <1>3, <3>2
  <2>2. CASE ~(name(k) < name(i) \/ name(i) < name(j))
    <3>1. /\ name(k) = name(i) /\ name(i) = name(j)
          /\ TextLess(text(k), text(i)) \/ (text(k) = text(i) /\ k < i)
          /\ TextLess(text(i), text(j)) \/ (text(i) = text(j) /\ i < j)
      BY <1>3, <1>5, <2>2
    <3>2. CASE TextLess(text(k), text(i)) /\ TextLess(text(i), text(j))
      BY <1>2, <1>3, <3>1, <3>2, TextLessTransitive
    <3>3. CASE text(k) = text(i) /\ k < i /\ text(i) = text(j) /\ i < j
      <4>1. k < j /\ text(k) = text(j)
        BY <1>2, <3>3
      <4> QED
        BY <1>3, <3>1, <4>1
    <3>4. CASE text(k) = text(i) /\ TextLess(text(i), text(j))
      BY <1>3, <3>1, <3>4
    <3>5. CASE TextLess(text(k), text(i)) /\ text(i) = text(j)
      BY <1>3, <3>1, <3>5
    <3> QED
      BY <3>1, <3>2, <3>3, <3>4, <3>5
  <2> QED
    BY <2>1, <2>2
<1>6. ASSUME NEW i \in 1..n, NEW j \in 1..n, i # j
      PROVE  First(listed, i, j) \/ First(listed, j, i)
  <2>1. name(i) < name(j) \/ name(j) < name(i) \/ name(i) = name(j)
    BY <1>2
  <2>2. i < j \/ j < i
    BY <1>6
  <2>3. text(i) # text(j) => TextLess(text(i), text(j)) \/ TextLess(text(j), text(i))
    BY <1>2, TextLessTotal
  <2> QED
    BY <1>3, <2>1, <2>2, <2>3
<1>7. Ordering(below, n)
  BY <1>1, <1>4, <1>5, <1>6 DEF Ordering
<1> QED
  BY <1>7 DEF below

(* sortedByName is the list in another order: every place of it once, in   *)
(* the order of names, descriptions and places.                            *)
LEMMA Sorting ==
  ASSUME NEW S, NEW listed \in Seq(S), \A t \in S : Named(t)
  PROVE  \E order \in [1..Len(listed) -> 1..Len(listed)] :
           /\ sortedByName(listed) = [k \in 1..Len(listed) |-> listed[order[k]]]
           /\ \A k, l \in 1..Len(listed) : k < l => First(listed, order[k], order[l])
           /\ \A i \in 1..Len(listed) : \E k \in 1..Len(listed) : order[k] = i
<1> DEFINE n == Len(listed)
           below == [i \in 1..n |-> {j \in 1..n : First(listed, j, i)}]
           At(k) == CHOOSE i \in 1..n : Cardinality({j \in 1..n : First(listed, j, i)}) = k - 1
           order == [k \in 1..n |-> At(k)]
           s == sortedByName(listed)
<1>1. n \in Nat /\ \A i \in 1..n : Named(listed[i])
  BY ElementOfSeq, LenProperties
<1>2. s = [k \in 1..n |-> listed[At(k)]]
  BY DEF sortedByName, First
<1>3. \A i, j \in 1..n : j \in below[i] <=> First(listed, j, i)
  OBVIOUS
<1>4. \A k \in 1..n : At(k) = CHOOSE i \in 1..n : Cardinality(below[i]) = k - 1
  BY Zenon
<1>5. Ordering(below, n)
  <2> HIDE DEF n
  <2> QED
    BY <1>1, FirstOrders
<1> HIDE DEF below, n
<1>6. /\ \A i \in 1..n : Cardinality(below[i]) \in 0..n - 1
      /\ \A i, j \in 1..n : i \in below[j] => Cardinality(below[i]) < Cardinality(below[j])
      /\ \A i, j \in 1..n : Cardinality(below[i]) = Cardinality(below[j]) => i = j
      /\ \A k \in 1..n : \E i \in 1..n : Cardinality(below[i]) = k - 1
  BY <1>1, <1>5, Ranks
<1>7. \A k \in 1..n : At(k) \in 1..n /\ Cardinality(below[At(k)]) = k - 1
  BY <1>4, <1>6
<1> HIDE DEF At
<1>8. order \in [1..n -> 1..n] /\ \A k \in 1..n : order[k] = At(k) /\ order[k] \in 1..n
  BY <1>7
<1>9. s = [k \in 1..n |-> listed[order[k]]]
  BY <1>2
<1>10. ASSUME NEW k \in 1..n, NEW l \in 1..n, k < l
       PROVE  First(listed, order[k], order[l])
  <2>1. Cardinality(below[At(k)]) < Cardinality(below[At(l)])
    BY <1>7, <1>10
  <2>2. At(l) \notin below[At(k)] /\ At(l) # At(k)
    <3>1. /\ At(k) \in 1..n /\ At(l) \in 1..n
          /\ Cardinality(below[At(k)]) \in Int /\ Cardinality(below[At(l)]) \in Int
      BY <1>1, <1>7
    <3>2. ~(Cardinality(below[At(l)]) < Cardinality(below[At(k)])) /\ Cardinality(below[At(l)]) # Cardinality(below[At(k)])
      BY <2>1, <3>1
    <3> QED
      BY <1>6, <3>1, <3>2
  <2>3. At(k) \in below[At(l)]
    BY <1>5, <1>7, <2>2 DEF Ordering
  <2> QED
    BY <1>3, <1>7, <1>8, <2>3
<1>11. ASSUME NEW i \in 1..n
       PROVE  \E k \in 1..n : order[k] = i
  <2>0. Cardinality(below[i]) \in 0..n - 1
    BY <1>6
  <2> DEFINE k == Cardinality(below[i]) + 1
  <2>1. k \in 1..n /\ k - 1 = Cardinality(below[i])
    BY <1>1, <2>0
  <2> HIDE DEF k
  <2>2. At(k) = i
    <3>1. At(k) \in 1..n /\ Cardinality(below[At(k)]) = Cardinality(below[i])
      BY <1>7, <2>1
    <3> QED
      BY <1>6, <3>1
  <2> QED
    BY <1>8, <2>1, <2>2
<1> HIDE DEF s, order
<1> QED
  BY <1>8, <1>9, <1>10, <1>11 DEF s, n

LEMMA SortedByName ==
  ASSUME NEW S, NEW listed \in Seq(S), \A t \in S : Named(t)
  PROVE  LET s == sortedByName(listed)
         IN  /\ s \in Seq(S) /\ Len(s) = Len(listed)
             /\ \A i, j \in 1..Len(listed) : i < j => s[i].name <= s[j].name
             /\ (\A i, j \in 1..Len(listed) : i # j => listed[i].name # listed[j].name) =>
                  \A i, j \in 1..Len(listed) : i < j => s[i].name < s[j].name
             /\ \A i \in 1..Len(listed) : \E k \in 1..Len(listed) : s[k] = listed[i]
             /\ \A i \in 1..Len(listed) : s[i] \in S /\ \E k \in 1..Len(listed) : s[i] = listed[k]
<1> DEFINE n == Len(listed)
           s == sortedByName(listed)
<1>1. n \in Nat /\ \A i \in 1..n : listed[i] \in S /\ Named(listed[i])
  BY ElementOfSeq, LenProperties
<1>2. PICK order \in [1..n -> 1..n] :
           /\ s = [k \in 1..n |-> listed[order[k]]]
           /\ \A k, l \in 1..n : k < l => First(listed, order[k], order[l])
           /\ \A i \in 1..n : \E k \in 1..n : order[k] = i
  BY Sorting
<1> HIDE DEF n
<1>3. \A k \in 1..n : order[k] \in 1..n /\ s[k] = listed[order[k]] /\ listed[order[k]] \in S
  BY <1>1, <1>2
<1>4. s \in Seq(S) /\ Len(s) = n
  <2>1. s \in [1..n -> S]
    BY <1>2, <1>3
  <2> HIDE DEF s
  <2> QED
    BY <1>1, <2>1
<1> HIDE DEF s
<1>5. ASSUME NEW i \in 1..n, NEW j \in 1..n, i < j
      PROVE  /\ s[i].name <= s[j].name
             /\ (\A k, l \in 1..n : k # l => listed[k].name # listed[l].name) => s[i].name < s[j].name
  <2>1. order[i] \in 1..n /\ order[j] \in 1..n /\ order[i] \in Int /\ order[j] \in Int
    BY <1>3
  <2>2. First(listed, order[i], order[j])
    BY <1>2, <1>5
  <2>3. Named(listed[order[i]]) /\ Named(listed[order[j]])
    BY <1>1, <2>1
  <2>4. listed[order[i]].name < listed[order[j]].name \/ listed[order[i]].name = listed[order[j]].name
    BY <2>1, <2>2, <2>3, FirstIs
  <2>5. order[i] # order[j]
    <3>1. listed[order[i]].description \in Texts /\ ~(listed[order[i]].name < listed[order[i]].name)
      BY <2>3 DEF Named
    <3>2. ~TextLess(listed[order[i]].description, listed[order[i]].description)
      BY <3>1, TextLessIrreflexive
    <3>3. ~First(listed, order[i], order[i])
      BY <2>1, <2>3, <3>1, <3>2, FirstIs
    <3> QED
      BY <2>2, <3>3
  <2>6. s[i] = listed[order[i]] /\ s[j] = listed[order[j]]
    BY <1>3
  <2>7. s[i].name <= s[j].name
    BY <2>3, <2>4, <2>6 DEF Named
  <2>8. ASSUME \A k, l \in 1..n : k # l => listed[k].name # listed[l].name
        PROVE  s[i].name < s[j].name
    <3>1. listed[order[i]].name # listed[order[j]].name
      BY <2>1, <2>5, <2>8
    <3> QED
      BY <2>4, <2>6, <3>1
  <2> QED
    BY <2>7, <2>8
<1>6. \A i \in 1..n : \E k \in 1..n : s[k] = listed[i]
  BY <1>2, <1>3
<1>7. \A i \in 1..n : s[i] \in S /\ \E k \in 1..n : s[i] = listed[k]
  BY <1>3
<1> QED
  BY <1>4, <1>5, <1>6, <1>7 DEF s, n

(* However the server lists its tools, Check walks them by name.           *)
LEMMA Walk ==
  ASSUME IsFiniteSet(tools), \A t \in tools : Named(t),
         \A t, u \in tools : t.name = u.name => t = u,
         NEW listed \in SetToSeqs(tools)
  PROVE  LET s == sortedByName(listed)
         IN  /\ s \in Seq(tools) /\ Range(s) = tools
             /\ \A i, j \in 1..Len(s) : i < j => s[i].name < s[j].name
<1> DEFINE n == Cardinality(tools)
           P == 1..n
           s == sortedByName(listed)
<1>1. n \in Nat
  BY FS_CardinalityType
<1>2. listed \in [P -> tools] /\ \A i, j \in P : i # j => listed[i] # listed[j]
  BY DEF SetToSeqs
<1>3. IsFiniteSet(P) /\ Cardinality(P) = n
  <2>1. IsFiniteSet(P) /\ Cardinality(P) = IF 1 > n THEN 0 ELSE n - 1 + 1
    BY <1>1, FS_Interval
  <2> QED
    BY <1>1, <2>1
<1>4. listed \in Seq(tools) /\ Len(listed) = n
  BY <1>1, <1>2
<1>5. listed \in Injection(P, tools)
  <2> HIDE DEF P
  <2> QED
    BY <1>2 DEF Injection, IsInjective
<1>6. \A t \in tools : \E i \in P : listed[i] = t
  <2> HIDE DEF P
  <2>1. listed \in Surjection(P, tools)
    BY <1>3, <1>5, FS_Injection
  <2> QED
    BY <2>1 DEF Surjection
<1>7. \A i, j \in 1..Len(listed) : i # j => listed[i].name # listed[j].name
  BY <1>2, <1>4
<1> HIDE DEF n
<1>8. /\ s \in Seq(tools) /\ Len(s) = n
      /\ \A i, j \in 1..n : i < j => s[i].name < s[j].name
      /\ \A i \in 1..n : \E k \in 1..n : s[k] = listed[i]
  <2>1. /\ s \in Seq(tools) /\ Len(s) = Len(listed)
        /\ (\A i, j \in 1..Len(listed) : i # j => listed[i].name # listed[j].name) =>
             \A i, j \in 1..Len(listed) : i < j => s[i].name < s[j].name
        /\ \A i \in 1..Len(listed) : \E k \in 1..Len(listed) : s[k] = listed[i]
    BY <1>4, SortedByName
  <2> HIDE DEF s
  <2> QED
    BY <1>4, <1>7, <2>1
<1> HIDE DEF s
<1>9. Range(s) = tools
  <2>1. Range(s) = {s[i] : i \in 1..n} /\ \A i \in 1..n : s[i] \in tools
    BY <1>8, RangeOf, ElementOfSeq
  <2>2. ASSUME NEW t \in tools PROVE \E k \in 1..n : s[k] = t
    <3>1. PICK i \in 1..n : listed[i] = t
      BY <1>6
    <3>2. PICK k \in 1..n : s[k] = listed[i]
      BY <1>8
    <3> QED
      BY <3>1, <3>2
  <2> QED
    BY <2>1, <2>2
<1> QED
  BY <1>8, <1>9 DEF s

-----------------------------------------------------------------------------
(* The inductive invariant of Check.                                       *)

(* PrefixesInv of any map and any tools done.                              *)
Maps(map, D) ==
  /\ \A p \in DOMAIN map : \E u \in D :
       /\ p = Opening(u) /\ p # <<>> /\ map[p] = u.name
       /\ \A w \in D : Opening(w) = p => u.name <= w.name
  /\ \A u \in D : Opening(u) # <<>> => Opening(u) \in DOMAIN map

LEMMA MapsIs == PrefixesInv <=> Maps(prefixes, Done)
BY DEF PrefixesInv, Maps

OneNamed(S) == \A t, u \in S : t.name = u.name => t = u

(* The tools first with their opening, as OpenAlike knows them and as the  *)
(* map does.                                                               *)
LEMMA FirstAlikeIs ==
  ASSUME NEW D, \A u \in D : Named(u), budget.prefix \in Int,
         NEW u \in D, Opening(u) # <<>>
  PROVE  FirstAlike(D, u) <=> \A w \in D : Opening(w) = Opening(u) => u.name <= w.name
<1>1. \A w \in D : OpenAlike(budget, u, w) <=> Opening(u) = Opening(w)
  BY OpeningsMeet DEF Named
<1>2. FirstAlike(D, u) <=> \A w \in D : ~(w.name < u.name /\ OpenAlike(budget, u, w))
  <2>1. \A x : x \in AlikeIn(budget, D) <=> \E a, b \in D : x = <<a, b>> /\ b.name < a.name /\ OpenAlike(budget, a, b)
    BY DEF AlikeIn
  <2>2. ASSUME NEW w \in D, w.name < u.name, OpenAlike(budget, u, w)
        PROVE  ~FirstAlike(D, u)
    <3>1. <<u, w>> \in AlikeIn(budget, D) /\ <<u, w>>[1] = u
      BY <2>1, <2>2
    <3> QED
      BY <3>1 DEF FirstAlike
  <2>3. ASSUME NEW x \in AlikeIn(budget, D), x[1] = u
        PROVE  \E w \in D : w.name < u.name /\ OpenAlike(budget, u, w)
    <3>1. PICK a \in D, b \in D : x = <<a, b>> /\ b.name < a.name /\ OpenAlike(budget, a, b)
      BY <2>1
    <3>2. a = u
      BY <2>3, <3>1
    <3> QED
      BY <3>1, <3>2
  <2> QED
    BY <2>2, <2>3 DEF FirstAlike
<1>3. \A w \in D : ~(w.name < u.name) <=> u.name <= w.name
  BY DEF Named
<1> QED
  BY <1>1, <1>2, <1>3

(* The error PrefixErr gives for the next tool is the fault of it.         *)
LEMMA PrefixMeets ==
  ASSUME NEW D, Maps(prefixes, D), OneNamed(D), \A u \in D : Named(u),
         budget.prefix \in Int, NEW t, Named(t)
  PROVE  LET p == Opening(t)
         IN  {Clash(t, u.name) : u \in {u \in D : OpenAlike(budget, t, u) /\ FirstAlike(D, u)}}
             = IF p # <<>> /\ p \in DOMAIN prefixes THEN {Clash(t, prefixes[p])} ELSE {}
<1> DEFINE p == Opening(t)
           firsts == {u \in D : OpenAlike(budget, t, u) /\ FirstAlike(D, u)}
<1>1. \A u \in D : OpenAlike(budget, t, u) <=> p # <<>> /\ p = Opening(u)
  BY OpeningsMeet DEF Named
<1>2. \A u \in firsts : u \in D /\ p # <<>> /\ p = Opening(u) /\ p \in DOMAIN prefixes
  BY <1>1 DEF Maps
<1>3. CASE p # <<>> /\ p \in DOMAIN prefixes
  <2>1. PICK u \in D : /\ p = Opening(u) /\ prefixes[p] = u.name
                       /\ \A w \in D : Opening(w) = p => u.name <= w.name
    BY <1>3 DEF Maps
  <2>2. u \in firsts
    <3>1. Opening(u) # <<>> /\ \A w \in D : Opening(w) = Opening(u) => u.name <= w.name
      BY <1>3, <2>1
    <3> QED
      BY <1>1, <1>3, <2>1, <3>1, FirstAlikeIs
  <2>3. ASSUME NEW v \in firsts PROVE v = u
    <3>1. v \in D /\ Opening(v) = Opening(u) /\ FirstAlike(D, v)
      BY <1>2, <2>1
    <3>2. \A w \in D : Opening(w) = Opening(v) => v.name <= w.name
      BY <1>3, <2>1, <3>1, FirstAlikeIs
    <3>3. v.name <= u.name /\ u.name <= v.name
      BY <2>1, <3>1, <3>2
    <3>4. v.name = u.name
      BY <3>1, <3>3 DEF Named
    <3> QED
      BY <3>1, <3>4 DEF OneNamed
  <2>4. firsts = {u}
    BY <2>2, <2>3
  <2> HIDE DEF firsts
  <2>5. {Clash(t, v.name) : v \in firsts} = {Clash(t, u.name)}
    BY <2>4
  <2> QED
    BY <1>3, <2>1, <2>5 DEF firsts
<1>4. CASE ~(p # <<>> /\ p \in DOMAIN prefixes)
  <2>1. firsts = {}
    BY <1>2, <1>4
  <2> QED
    BY <1>4, <2>1
<1> QED
  BY <1>3, <1>4

(* Remember keeps the map the map of the tools done, with the next one.    *)
LEMMA MapsNext ==
  ASSUME NEW D, Maps(prefixes, D), \A u \in D : Named(u),
         NEW t, Named(t), \A u \in D : u.name < t.name
  PROVE  LET p == Opening(t)
         IN  Maps(IF p = <<>> THEN prefixes ELSE Remember(p, t.name), D \cup {t})
<1> DEFINE p == Opening(t)
           map == IF p = <<>> THEN prefixes ELSE Remember(p, t.name)
<1>1. /\ DOMAIN prefixes \subseteq DOMAIN map
      /\ \A q \in DOMAIN prefixes : map[q] = prefixes[q]
      /\ p # <<>> => p \in DOMAIN map
      /\ \A q \in DOMAIN map : q \notin DOMAIN prefixes => q = p /\ p # <<>> /\ map[q] = t.name
  <2>1. CASE p = <<>> \/ p \in DOMAIN prefixes
    BY <2>1 DEF Remember
  <2>2. CASE p # <<>> /\ p \notin DOMAIN prefixes
    BY <2>2 DEF Remember
  <2> QED
    BY <2>1, <2>2
<1>2. \A u \in D : u.name <= t.name /\ t.name <= t.name
  BY DEF Named
<1> HIDE DEF map
<1>3. ASSUME NEW q \in DOMAIN prefixes
      PROVE  \E u \in D \cup {t} :
               /\ q = Opening(u) /\ q # <<>> /\ map[q] = u.name
               /\ \A w \in D \cup {t} : Opening(w) = q => u.name <= w.name
  BY <1>1, <1>2 DEF Maps
<1>4. ASSUME NEW q \in DOMAIN map, q \notin DOMAIN prefixes
      PROVE  \E u \in D \cup {t} :
               /\ q = Opening(u) /\ q # <<>> /\ map[q] = u.name
               /\ \A w \in D \cup {t} : Opening(w) = q => u.name <= w.name
  <2>1. q = Opening(t) /\ q # <<>> /\ map[q] = t.name
    BY <1>1, <1>4
  <2>2. \A w \in D : Opening(w) # q
    BY <1>4, <2>1 DEF Maps
  <2>3. t.name <= t.name
    BY DEF Named
  <2> QED
    BY <2>1, <2>2, <2>3
<1>5. ASSUME NEW u \in D \cup {t}, Opening(u) # <<>>
      PROVE  Opening(u) \in DOMAIN map
  BY <1>1, <1>5 DEF Maps
<1>6. Maps(map, D \cup {t})
  BY <1>3, <1>4, <1>5 DEF Maps
<1> QED
  BY <1>6 DEF map

LEMMA FaultNames ==
  ASSUME NEW D, NEW x \in FaultsIn(budget, D)
  PROVE  \E u \in D : x.tool = u.name
<1>1. CASE x \in SummaryFaults(D)
  BY <1>1 DEF SummaryFaults, Fault
<1>2. CASE x \in DescriptionFaults(D)
  BY <1>2 DEF DescriptionFaults, Fault
<1>3. CASE x \in SchemaFaults(D)
  BY <1>3 DEF SchemaFaults, Fault
<1>4. CASE x \in ParamFaults(D)
  BY <1>4 DEF ParamFaults, ParamFaultsOf, Err
<1>5. CASE x \in PrefixFaults(D)
  BY <1>5 DEF PrefixFaults, AlikeIn, Clash, Err
<1> QED
  BY <1>1, <1>2, <1>3, <1>4, <1>5, FaultsAre

(* One tool of Check's loop reports the faults of it.                      *)
LEMMA ErrsNext ==
  ASSUME NEW D, errs \in Seq(FaultsIn(budget, D)), Range(errs) = FaultsIn(budget, D), Sorted(errs),
         Maps(prefixes, D), OneNamed(D), \A u \in D : Named(u),
         budget.prefix \in Int, budget.param \in Int,
         NEW t, Named(t), t.schema \in RawSchemas, \A u \in D : u.name < t.name
  PROVE  LET p == Opening(t)
             now == errs \o SummaryErr(t) \o DescriptionErr(t)
                         \o (IF p = <<>> THEN <<>> ELSE PrefixErr(t, p)) \o ParamErrs(t)
         IN  now \in Seq(FaultsIn(budget, D \cup {t})) /\ Range(now) = FaultsIn(budget, D \cup {t}) /\ Sorted(now)
<1> DEFINE p == Opening(t)
           n == Len(TrimSpace(FirstLine(t.description)))
           e1 == Err(t, "summary", <<>>)
           c1 == n = 0 \/ n > SummaryMax
           e2 == Err(t, "description", <<>>)
           c2 == budget.description > 0 /\ Len(t.description) > budget.description
           e3 == Clash(t, prefixes[p])
           c3 == p # <<>> /\ p \in DOMAIN prefixes
           e4 == Err(t, "schema", <<>>)
           c4 == budget.param > 0 /\ ~Decodes(t.schema)
           paths == checkSchema(t, budget.param)
           c5 == budget.param > 0 /\ Decodes(t.schema)
           r5 == IF c5 THEN [i \in DOMAIN paths |-> Err(t, "param", paths[i])] ELSE <<>>
           S == FaultsIn(budget, D) \cup {e1, e2, e3, e4} \cup Range(r5)
           s1 == errs \o Only(e1, c1)
           s2 == s1 \o Only(e2, c2)
           s3 == s2 \o Only(e3, c3)
           s4 == s3 \o Only(e4, c4)
           s5 == s4 \o r5
           now == errs \o SummaryErr(t) \o DescriptionErr(t)
                       \o (IF p = <<>> THEN <<>> ELSE PrefixErr(t, p)) \o ParamErrs(t)
<1>1. /\ r5 \in Seq(Range(r5))
      /\ Range(r5) = IF c5 THEN ParamFaultsOf(t) ELSE {}
  <2>1. CASE c5
    <3>1. paths \in Seq(Path)
      BY <2>1, CheckSchemaType
    <3> HIDE DEF paths, c5
    <3>2. PICK n5 \in Nat : DOMAIN paths = 1..n5 /\ Range(paths) = {paths[i] : i \in 1..n5}
      BY <3>1, LenProperties, RangeOf
    <3>3. r5 = [i \in 1..n5 |-> Err(t, "param", paths[i])]
      BY <2>1, <3>2
    <3> HIDE DEF r5
    <3>4. DOMAIN r5 = 1..n5 /\ Range(r5) = {Err(t, "param", paths[i]) : i \in 1..n5}
      BY <3>3 DEF Range
    <3>5. r5 = [i \in 1..n5 |-> r5[i]] /\ \A i \in 1..n5 : r5[i] \in Range(r5)
      BY <3>3, <3>4 DEF Range
    <3>6. r5 \in Seq(Range(r5))
      BY <3>5, FunctionIsSeq
    <3>7. ParamFaultsOf(t) = {Err(t, "param", paths[i]) : i \in 1..n5}
      BY <3>2 DEF ParamFaultsOf, paths
    <3> QED
      BY <2>1, <3>4, <3>6, <3>7
  <2>2. CASE ~c5
    BY <2>2 DEF Range
  <2> QED
    BY <2>1, <2>2
<1>2. /\ \A e \in {e1, e2, e3, e4} \cup Range(r5) : e.tool = t.name /\ t.name <= t.name
      /\ e1.kind = "summary" /\ e2.kind = "description" /\ e3.kind = "prefix" /\ e4.kind = "schema"
      /\ \A e \in Range(r5) : e.kind = "param"
  <2>1. \A e \in Range(r5) : e.tool = t.name /\ e.kind = "param"
    <3> HIDE DEF r5
    <3> QED
      BY <1>1 DEF ParamFaultsOf, Err
  <2> HIDE DEF r5
  <2> QED
    BY <2>1 DEF Err, Clash, Named
<1>3. \A x \in FaultsIn(budget, D) : \A e \in {e1, e2, e3, e4} \cup Range(r5) : x.tool <= e.tool /\ x # e
  <2>1. \A x \in FaultsIn(budget, D) : \E u \in D : x.tool = u.name
    BY FaultNames
  <2>2. \A u \in D : u.name \in Int /\ t.name \in Int /\ u.name <= t.name /\ u.name # t.name
    BY DEF Named
  <2> HIDE DEF e1, e2, e3, e4, r5
  <2> QED
    BY <1>2, <2>1, <2>2
<1>4. Len(TrimSpace(FirstLine(t.description))) \in Nat
  BY FirstLineType, TrimType, LenProperties DEF Named, Texts
<1>5. c1 <=> n \notin 1..SummaryMax
  BY <1>4, BudgetsAssumption
<1>6. /\ SummaryErr(t) = Only(e1, c1)
      /\ DescriptionErr(t) = Only(e2, c2)
  BY DEF SummaryErr, DescriptionErr
<1>7. (IF p = <<>> THEN <<>> ELSE PrefixErr(t, p)) = Only(e3, c3)
  BY DEF PrefixErr, Only, Clash
<1>8. errs \in Seq(S)
  BY SeqMonotonic
<1> HIDE DEF n, p, c1, c2, c3, c4, c5, e1, e2, e3, e4, r5, paths, S
<1>9. e1 \in S /\ e2 \in S /\ e3 \in S /\ e4 \in S /\ r5 \in Seq(S)
  <2>1. Range(r5) \subseteq S
    BY DEF S
  <2> QED
    BY <1>1, <2>1, SeqMonotonic DEF S
<1>10. /\ s1 \in Seq(S) /\ Sorted(s1)
       /\ Range(s1) = FaultsIn(budget, D) \cup (IF c1 THEN {e1} ELSE {})
  BY <1>3, <1>8, <1>9, SortedOnly
<1> HIDE DEF s1
<1>11. /\ s2 \in Seq(S) /\ Sorted(s2)
       /\ Range(s2) = Range(s1) \cup (IF c2 THEN {e2} ELSE {})
  <2>1. \A x \in Range(s1) : x.tool <= e2.tool /\ x # e2
    BY <1>2, <1>3, <1>10
  <2> QED
    BY <1>9, <1>10, <2>1, SortedOnly
<1> HIDE DEF s2
<1>12. /\ s3 \in Seq(S) /\ Sorted(s3)
       /\ Range(s3) = Range(s2) \cup (IF c3 THEN {e3} ELSE {})
  <2>1. \A x \in Range(s2) : x.tool <= e3.tool /\ x # e3
    BY <1>2, <1>3, <1>10, <1>11
  <2> QED
    BY <1>9, <1>11, <2>1, SortedOnly
<1> HIDE DEF s3
<1>13. /\ s4 \in Seq(S) /\ Sorted(s4)
       /\ Range(s4) = Range(s3) \cup (IF c4 THEN {e4} ELSE {})
  <2>1. \A x \in Range(s3) : x.tool <= e4.tool /\ x # e4
    BY <1>2, <1>3, <1>10, <1>11, <1>12
  <2>2. s3 \in Seq(S) /\ Sorted(s3) /\ e4 \in S
    BY <1>9, <1>12
  <2> QED
    BY <2>1, <2>2, SortedOnly
<1> HIDE DEF s4
<1>14. /\ s5 \in Seq(S) /\ Sorted(s5)
       /\ Range(s5) = Range(s4) \cup Range(r5)
  <2>1. \A x \in Range(s4) : \A y \in Range(r5) : x.tool <= y.tool /\ x # y
    BY <1>2, <1>3, <1>10, <1>11, <1>12, <1>13
  <2>2. \A y \in Range(r5) : y.kind = "param" /\ \A z \in Range(r5) : y.tool <= z.tool
    BY <1>2
  <2>3. s4 \in Seq(S) /\ Sorted(s4) /\ r5 \in Seq(S)
    BY <1>9, <1>13
  <2> QED
    BY <2>1, <2>2, <2>3, SortedParams
<1>15. now = s5
  <2>1. CASE c4
    <3>1. ParamErrs(t) = Only(e4, c4) /\ r5 = <<>>
      BY <2>1, BudgetsAssumption DEF ParamErrs, Only, e4, c4, c5, r5
    <3>2. s5 = s4
      <4>1. s5 = s4 \o <<>>
        BY <3>1
      <4> QED
        BY <1>13, <4>1, ConcatEmptySeq
    <3> QED
      BY <1>6, <1>7, <3>1, <3>2 DEF s1, s2, s3, s4
  <2>2. CASE ~c4
    <3>1. ParamErrs(t) = r5
      BY <2>2 DEF ParamErrs, r5, c4, c5, paths
    <3>2. s4 = s3
      <4>1. s4 = s3 \o <<>>
        BY <2>2 DEF Only, s4
      <4> QED
        BY <1>12, <4>1, ConcatEmptySeq
    <3> QED
      BY <1>6, <1>7, <3>1, <3>2 DEF s1, s2, s3
  <2> QED
    BY <2>1, <2>2
<1> HIDE DEF s5
<1>16. FaultsIn(budget, D \cup {t}) = Range(s5)
  <2>1. /\ SummaryFaults(D \cup {t}) = SummaryFaults(D) \cup (IF c1 THEN {e1} ELSE {})
        /\ DescriptionFaults(D \cup {t}) = DescriptionFaults(D) \cup (IF c2 THEN {e2} ELSE {})
        /\ SchemaFaults(D \cup {t}) = SchemaFaults(D) \cup (IF c4 THEN {e4} ELSE {})
        /\ ParamFaults(D \cup {t}) = ParamFaults(D) \cup Range(r5)
    <3>1. SummaryFaults(D \cup {t}) = SummaryFaults(D) \cup (IF n \notin 1..SummaryMax THEN {e1} ELSE {})
      BY FaultsOfOne DEF n, e1
    <3>2. DescriptionFaults(D \cup {t}) = DescriptionFaults(D) \cup (IF c2 THEN {e2} ELSE {})
      BY FaultsOfOne DEF c2, e2
    <3>3. SchemaFaults(D \cup {t}) = SchemaFaults(D) \cup (IF c4 THEN {e4} ELSE {})
      BY FaultsOfOne DEF c4, e4
    <3>4. ParamFaults(D \cup {t}) = ParamFaults(D) \cup Range(r5)
      <4>1. ParamFaults(D \cup {t}) = ParamFaults(D) \cup (IF c5 THEN ParamFaultsOf(t) ELSE {})
        BY FaultsOfOne DEF c5
      <4> QED
        BY <1>1, <4>1
    <3> QED
      BY <1>5, <3>1, <3>2, <3>3, <3>4
  <2>2. PrefixFaults(D \cup {t}) = PrefixFaults(D) \cup (IF c3 THEN {e3} ELSE {})
    <3>1. PrefixFaults(D \cup {t}) =
            PrefixFaults(D) \cup {Clash(t, u.name) : u \in {u \in D : OpenAlike(budget, t, u) /\ FirstAlike(D, u)}}
      BY PrefixFaultsOfOne DEF Named
    <3>2. {Clash(t, u.name) : u \in {u \in D : OpenAlike(budget, t, u) /\ FirstAlike(D, u)}}
          = IF c3 THEN {e3} ELSE {}
      BY PrefixMeets DEF c3, e3, p
    <3> QED
      BY <3>1, <3>2
  <2>3. /\ FaultsIn(budget, D) = SummaryFaults(D) \cup DescriptionFaults(D) \cup SchemaFaults(D)
                         \cup ParamFaults(D) \cup PrefixFaults(D)
        /\ FaultsIn(budget, D \cup {t}) = SummaryFaults(D \cup {t}) \cup DescriptionFaults(D \cup {t})
                         \cup SchemaFaults(D \cup {t}) \cup ParamFaults(D \cup {t}) \cup PrefixFaults(D \cup {t})
    BY FaultsAre
  <2> QED
    BY <1>10, <1>11, <1>12, <1>13, <1>14, <2>1, <2>2, <2>3
<1>17. s5 \in Seq(Range(s5))
  BY <1>14, LenProperties DEF Range
<1> QED
  BY <1>14, <1>15, <1>16, <1>17 DEF p

(* The tools before Check, as they are added.                              *)
LEMMA NamesAre ==
  ASSUME ToolsInv
  PROVE  \A t \in tools : Named(t)
BY NamesAssumption DEF ToolsInv, Named

LEMMA BudgetsAre ==
  ASSUME TypeOK
  PROVE  budget.description \in Int /\ budget.param \in Int /\ budget.prefix \in Int
BY BudgetsAssumption DEF TypeOK, NoBudget

\* A tool as ToolsInv wants it.
Fits(t) ==
  /\ t.name \in Names /\ t.description \in Texts /\ t.schema \in RawSchemas
  /\ t.summary # NoSummary =>
       \E summary \in Summaries, details \in Details :
          /\ t.summary = summary /\ ~Refused(summary)
          /\ t.description = Description(summary, details)

LEMMA AddToolStep ==
  ASSUME CheckInv, NEW tool, Fits(tool), AddTool(tool),
         UNCHANGED <<phase, budget, todo, prefixes, errs>>
  PROVE  CheckInv'
<1>1. phase = "building" /\ phase' = "building" /\ todo = <<>> /\ prefixes = <<>> /\ errs = <<>>
  BY DEF CheckInv, TodoInv, AddTool
<1>2. tools' = {t \in tools : t.name # tool.name} \cup {tool} /\ Cardinality(tools') <= MaxTools
  BY DEF AddTool
<1>3. IsFiniteSet(tools')
  <2> DEFINE S == {t \in tools : t.name # tool.name}
  <2>1. S \in SUBSET tools /\ IsFiniteSet(tools)
    BY DEF CheckInv, ToolsInv
  <2> HIDE DEF S
  <2>2. IsFiniteSet(S)
    BY <2>1, FS_Subset
  <2>3. IsFiniteSet(S \cup {tool})
    BY <2>2, FS_AddElement
  <2> QED
    BY <1>2, <2>3 DEF S
<1>4. \A t \in tools' : Fits(t)
  <2>1. \A t \in tools : Fits(t)
    BY DEF CheckInv, ToolsInv, Fits
  <2> QED
    BY <1>2, <2>1
<1>5. ToolsInv'
  BY <1>3, <1>4 DEF ToolsInv, Fits
<1>6. \A t, u \in tools' : t.name = u.name => u = t
  <2>1. \A t, u \in tools : t.name = u.name => u = t
    BY DEF CheckInv, TypeOK
  <2> QED
    BY <1>2, <2>1
<1>7. todo' = <<>> /\ prefixes' = <<>> /\ DOMAIN prefixes' = {} /\ errs' = <<>> /\ Range(errs') = {} /\ Len(todo') = 0
  BY <1>1 DEF Range
<1>8. TypeOK'
  <2>1. \A t \in tools' : t.name \in Names
    BY <1>4 DEF Fits
  <2>2. \A t \in tools' : t.name \in Names /\ \A u \in tools' : u.name = t.name => u = t
    BY <1>6, <2>1
  <2>3. budget' \in Budgets \cup {NoBudget}
    BY DEF CheckInv, TypeOK
  <2> QED
    BY <1>1, <1>2, <1>7, <2>2, <2>3 DEF TypeOK
<1>9. TodoInv'
  BY <1>1, <1>7 DEF TodoInv
<1> QED
  BY <1>1, <1>5, <1>8, <1>9 DEF CheckInv

LEMMA RawToolsFit ==
  ASSUME NEW name \in Names, NEW raw \in Addable
  PROVE  Fits([name |-> name, description |-> raw.description, schema |-> raw.schema,
               hints |-> raw.hints, summary |-> NoSummary])
BY TextsAssumption, RawToolsAssumption DEF Fits, Addable, PlainTools

LEMMA DescribedFits ==
  ASSUME NEW name \in Names, NEW summary \in Summaries, NEW details \in Details, ~Refused(summary)
  PROVE  Fits([name |-> name, description |-> Description(summary, details),
               schema |-> NoParams, hints |-> NoHints, summary |-> summary])
<1>1. summary \in Texts /\ details \in Texts
  BY TextsAssumption
<1>2. Description(summary, details) \in Texts
  BY <1>1, Describes
<1>3. NoParams \in RawSchemas
  BY DEF RawSchemas, Schemas
<1> QED
  BY <1>2, <1>3 DEF Fits

LEMMA CheckServerStep ==
  ASSUME CheckInv, NEW b \in Budgets, CheckServer(b)
  PROVE  CheckInv'
<1>1. /\ phase = "building" /\ phase' = "checking" /\ budget' = b
      /\ prefixes' = prefixes /\ errs' = errs /\ tools' = tools
  BY DEF CheckServer
<1>2. PICK listed \in SetToSeqs(tools) : todo' = sortedByName(listed)
  BY DEF CheckServer
<1>3. todo = <<>> /\ prefixes = <<>> /\ errs = <<>>
  BY <1>1 DEF CheckInv, TodoInv
<1>4. /\ todo' \in Seq(tools) /\ Range(todo') = tools
      /\ \A i, j \in 1..Len(todo') : i < j => todo'[i].name < todo'[j].name
  <2>1. IsFiniteSet(tools) /\ \A t, u \in tools : t.name = u.name => t = u
    BY DEF CheckInv, ToolsInv, TypeOK
  <2>2. \A t \in tools : Named(t)
    BY NamesAre DEF CheckInv
  <2> QED
    BY <1>2, <2>1, <2>2, Walk
<1>5. Done' = {}
  BY <1>1, <1>4 DEF Done
<1>6. Range(errs') = {} /\ errs' = <<>> /\ DOMAIN prefixes' = {} /\ Len(errs') = 0
  BY <1>1, <1>3 DEF Range
<1>7. FaultsIn(b, {}) = {}
  BY DEF FaultsIn, Fault, AlikeIn
<1>8. ErrsInv'
  <2>1. <<>> \in Seq(FaultsIn(b, {}))
    OBVIOUS
  <2> QED
    BY <1>1, <1>5, <1>6, <1>7, <2>1 DEF ErrsInv
<1>9. PrefixesInv'
  BY <1>5, <1>6 DEF PrefixesInv
<1>10. ToolsInv'
  BY <1>1 DEF CheckInv, ToolsInv
<1>11. TypeOK'
  <2>1. \A i \in 1..Len(todo') : todo'[i] \in tools'
    BY <1>1, <1>4, ElementOfSeq
  <2>2. /\ \A t \in tools : t.name \in Names /\ \A u \in tools : u.name = t.name => u = t
        /\ Cardinality(tools) <= MaxTools
    BY DEF CheckInv, TypeOK
  <2> QED
    BY <1>1, <1>6, <2>1, <2>2 DEF TypeOK
<1>12. TodoInv'
  BY <1>1, <1>4, <1>5 DEF TodoInv
<1> QED
  BY <1>8, <1>9, <1>10, <1>11, <1>12 DEF CheckInv

LEMMA FaultKinds ==
  ASSUME NEW D, NEW x \in FaultsIn(budget, D)
  PROVE  x.kind \in {"summary", "description", "prefix", "param", "schema"}
<1>1. CASE x \in SummaryFaults(D)
  BY <1>1 DEF SummaryFaults, Fault
<1>2. CASE x \in DescriptionFaults(D)
  BY <1>2 DEF DescriptionFaults, Fault
<1>3. CASE x \in SchemaFaults(D)
  BY <1>3 DEF SchemaFaults, Fault
<1>4. CASE x \in ParamFaults(D)
  BY <1>4 DEF ParamFaults, ParamFaultsOf, Err
<1>5. CASE x \in PrefixFaults(D)
  BY <1>5 DEF PrefixFaults, Clash, Err
<1> QED
  BY <1>1, <1>2, <1>3, <1>4, <1>5, FaultsAre

(* Head and tail of what is left to walk.                                  *)
LEMMA WalkOne ==
  ASSUME NEW S, NEW s \in Seq(S), s # <<>>, \A u \in S : u.name \in Int,
         \A i, j \in 1..Len(s) : i < j => s[i].name < s[j].name
  PROVE  /\ Head(s) \in S /\ Tail(s) \in Seq(S)
         /\ Head(s) \in Range(s) /\ Head(s) = s[1] /\ 1 \in 1..Len(s)
         /\ Range(s) = Range(Tail(s)) \cup {Head(s)} /\ Head(s) \notin Range(Tail(s))
         /\ \A i, j \in 1..Len(Tail(s)) : i < j => Tail(s)[i].name < Tail(s)[j].name
         /\ \A i \in 1..Len(Tail(s)) : Head(s).name < Tail(s)[i].name
         /\ \A i \in 1..Len(Tail(s)) : Tail(s)[i] \in Range(s) /\ \E j \in 1..Len(s) : Tail(s)[i] = s[j]
<1> DEFINE n == Len(s)
           r == Tail(s)
<1>1. n \in Nat \ {0} /\ Head(s) = s[1] /\ 1 \in 1..n
  BY EmptySeq, LenProperties
<1>2. r \in Seq(S) /\ Len(r) = n - 1 /\ \A i \in 1..n - 1 : r[i] = s[i + 1]
  BY HeadTailProperties
<1>3. \A i \in 1..n : s[i] \in S
  BY ElementOfSeq
<1>4. Range(s) = {s[i] : i \in 1..n} /\ Range(r) = {r[i] : i \in 1..n - 1}
  BY <1>2, RangeOf
<1> DEFINE h == Head(s)
<1> HIDE DEF r, n, h
<1>5. \A i \in 1..n - 1 : i + 1 \in 1..n /\ 1 < i + 1
  BY <1>1
<1>6. \A i, j \in 1..n : i < j => s[i].name < s[j].name
  BY DEF n
<1>7. \A i \in 1..n - 1 : s[1].name < r[i].name /\ r[i] \in Range(s) /\ \E j \in 1..n : r[i] = s[j]
  BY <1>1, <1>2, <1>4, <1>5, <1>6
<1>8. ASSUME NEW i \in 1..n - 1, NEW j \in 1..n - 1, i < j
      PROVE  r[i].name < r[j].name
  <2>1. i + 1 \in 1..n /\ j + 1 \in 1..n /\ i + 1 < j + 1
    BY <1>1, <1>8
  <2>2. r[i] = s[i + 1] /\ r[j] = s[j + 1]
    BY <1>2
  <2> QED
    BY <1>6, <2>1, <2>2
<1>9. s[1] \notin Range(r)
  <2>1. ~(s[1].name < s[1].name)
    BY <1>1, <1>3
  <2> QED
    BY <1>4, <1>7, <2>1
<1>10. ASSUME NEW i \in 1..n
       PROVE  s[i] \in Range(r) \cup {s[1]}
  <2>1. CASE i = 1
    BY <2>1
  <2>2. CASE i # 1
    <3>1. i - 1 \in 1..n - 1 /\ (i - 1) + 1 = i
      BY <1>1, <2>2
    <3>2. r[i - 1] = s[i]
      BY <1>2, <3>1
    <3> QED
      BY <1>4, <3>1, <3>2
  <2> QED
    BY <2>1, <2>2
<1>11. s[1] \in Range(s) /\ s[1] \in S
  BY <1>1, <1>3, <1>4
<1>12. Range(s) = Range(r) \cup {s[1]}
  <2>1. \A x \in Range(s) : x \in Range(r) \cup {s[1]}
    BY <1>4, <1>10
  <2>2. \A x \in Range(r) : x \in Range(s)
    BY <1>4, <1>7
  <2> QED
    BY <1>11, <2>1, <2>2
<1> QED
  BY <1>1, <1>2, <1>7, <1>8, <1>9, <1>11, <1>12 DEF n, r

LEMMA CheckToolStep ==
  ASSUME CheckInv, CheckTool
  PROVE  CheckInv'
<1> DEFINE t == Head(todo)
           p == Opening(t)
<1>1. /\ phase = "checking" /\ todo # <<>> /\ todo' = Tail(todo)
      /\ tools' = tools /\ phase' = phase /\ budget' = budget
      /\ errs' = errs \o SummaryErr(t) \o DescriptionErr(t)
                      \o (IF p = <<>> THEN <<>> ELSE PrefixErr(t, p)) \o ParamErrs(t)
      /\ prefixes' = IF p = <<>> THEN prefixes ELSE Remember(p, t.name)
  BY DEF CheckTool, Opening
<1>2. /\ todo \in Seq(tools)
      /\ \A i, j \in 1..Len(todo) : i < j => todo[i].name < todo[j].name
      /\ \A u \in Done : \A i \in 1..Len(todo) : u.name < todo[i].name
  BY DEF CheckInv, TodoInv
<1>3. \A u \in tools : Named(u)
  BY NamesAre DEF CheckInv
<1>4. /\ t \in tools /\ Tail(todo) \in Seq(tools)
      /\ t \in Range(todo) /\ t = todo[1] /\ 1 \in 1..Len(todo)
      /\ Range(todo) = Range(Tail(todo)) \cup {t} /\ t \notin Range(Tail(todo))
      /\ \A i, j \in 1..Len(Tail(todo)) : i < j => Tail(todo)[i].name < Tail(todo)[j].name
      /\ \A i \in 1..Len(Tail(todo)) : t.name < Tail(todo)[i].name
      /\ \A i \in 1..Len(Tail(todo)) : Tail(todo)[i] \in Range(todo) /\ \E j \in 1..Len(todo) : Tail(todo)[i] = todo[j]
  BY <1>1, <1>2, <1>3, WalkOne DEF Named
<1>5. /\ \A u \in Done : u.name < t.name /\ Named(u)
      /\ Named(t)
  BY <1>2, <1>3, <1>4 DEF Done
<1>6. Done' = Done \cup {t}
  BY <1>1, <1>4 DEF Done
<1>7. OneNamed(tools) /\ OneNamed(Done)
  BY DEF CheckInv, TypeOK, OneNamed, Done
<1>8. Maps(prefixes, Done) /\ ErrsInv
  BY <1>1, MapsIs DEF CheckInv
<1>9. budget.prefix \in Int /\ budget.param \in Int
  BY BudgetsAre DEF CheckInv
<1> HIDE DEF t
<1>10. PrefixesInv'
  <2>1. Maps(prefixes', Done \cup {t})
    BY <1>1, <1>5, <1>8, MapsNext
  <2>2. \A u : Opening(u)' = Opening(u)
    BY <1>1 DEF Opening
  <2> QED
    BY <1>6, <2>1, <2>2 DEF PrefixesInv, Maps
<1>11. errs' \in Seq(FaultsIn(budget, Done \cup {t})) /\ Range(errs') = FaultsIn(budget, Done \cup {t}) /\ Sorted(errs')
  <2>1. errs \in Seq(FaultsIn(budget, Done)) /\ Range(errs) = FaultsIn(budget, Done) /\ Sorted(errs)
    BY <1>8 DEF ErrsInv, Sorted
  <2>2. t.schema \in RawSchemas
    BY <1>4 DEF CheckInv, ToolsInv
  <2> QED
    BY <1>1, <1>5, <1>7, <1>8, <1>9, <2>1, <2>2, ErrsNext
<1>12. ErrsInv'
  <2>1. FaultsIn(budget, Done)' = FaultsIn(budget, Done \cup {t})
    BY <1>1, <1>6
  <2> QED
    BY <1>11, <2>1 DEF ErrsInv, Sorted
<1>13. ToolsInv'
  BY <1>1 DEF CheckInv, ToolsInv
<1>14. TypeOK'
  <2>1. \A i \in 1..Len(todo') : todo'[i] \in tools'
    BY <1>1, <1>4, ElementOfSeq
  <2>2. /\ \A u \in tools : u.name \in Names /\ \A v \in tools : v.name = u.name => v = u
        /\ Cardinality(tools) <= MaxTools /\ budget \in Budgets \cup {NoBudget}
    BY DEF CheckInv, TypeOK
  <2>3. \A x \in Range(errs') : x.kind \in {"summary", "description", "prefix", "param", "schema"}
    BY <1>11, FaultKinds
  <2>4. \A q \in DOMAIN prefixes' : q # <<>> /\ Len(q) <= budget.prefix /\ \E u \in tools : prefixes'[q] = u.name
    <3>1. Maps(prefixes', Done \cup {t})
      BY <1>1, <1>5, <1>8, MapsNext
    <3> TAKE q \in DOMAIN prefixes'
    <3>2. PICK u \in Done \cup {t} : q = Opening(u) /\ q # <<>> /\ prefixes'[q] = u.name
      BY <3>1 DEF Maps
    <3>3. u \in tools /\ Named(u)
      BY <1>4, <1>5, <3>2 DEF Done
    <3>4. Len(q) <= budget.prefix
      <4> DEFINE k == Cut(TrimSpace(u.description), budget.prefix)
      <4>1. /\ budget.prefix <= 0 => q = <<>>
            /\ budget.prefix > 0 => k \in Nat /\ Len(q) = k
        BY <1>9, <3>2, <3>3, OpeningIs DEF Named
      <4>2. k = IF budget.prefix < Len(TrimSpace(u.description)) THEN budget.prefix ELSE Len(TrimSpace(u.description))
        BY DEF Cut
      <4>3. Len(TrimSpace(u.description)) \in Nat
        BY <3>3, TrimType, LenProperties DEF Named, Texts
      <4> HIDE DEF k
      <4> QED
        BY <1>9, <3>2, <4>1, <4>2, <4>3
    <3> QED
      BY <3>2, <3>3, <3>4
  <2> QED
    BY <1>1, <2>1, <2>2, <2>3, <2>4 DEF TypeOK
<1>15. TodoInv'
  <2>1. \A u \in Done' : \A i \in 1..Len(todo') : u.name < todo'[i].name
    <3>1. \A u \in Done : \A i \in 1..Len(todo') : u.name < todo'[i].name
      BY <1>1, <1>2, <1>4
    <3> QED
      BY <1>1, <1>4, <1>6, <3>1
  <2> QED
    BY <1>1, <1>4, <2>1 DEF TodoInv
<1> QED
  BY <1>10, <1>12, <1>13, <1>14, <1>15 DEF CheckInv

LEMMA CheckReturnsStep ==
  ASSUME CheckInv, CheckReturns
  PROVE  CheckInv'
<1>1. /\ phase = "checking" /\ todo = <<>> /\ phase' = "done"
      /\ UNCHANGED <<tools, budget, todo, prefixes, errs>>
  BY DEF CheckReturns
<1>2. TypeOK'
  BY <1>1 DEF CheckInv, TypeOK
<1>3. ToolsInv'
  BY <1>1 DEF CheckInv, ToolsInv
<1>4. TodoInv'
  BY <1>1 DEF CheckInv, TodoInv, Done
<1>5. PrefixesInv'
  BY <1>1 DEF CheckInv, PrefixesInv, Done, Opening
<1>6. ErrsInv'
  BY <1>1 DEF CheckInv, ErrsInv, Done
<1> QED
  BY <1>1, <1>2, <1>3, <1>4, <1>5, <1>6 DEF CheckInv

LEMMA PanicStep ==
  ASSUME CheckInv, phase = "building", phase' = "panicked",
         UNCHANGED <<tools, budget, todo, prefixes, errs>>
  PROVE  CheckInv'
<1>1. TypeOK'
  BY DEF CheckInv, TypeOK
<1>2. ToolsInv'
  BY DEF CheckInv, ToolsInv
<1>3. TodoInv'
  BY DEF CheckInv, TodoInv, Done
<1> QED
  BY <1>1, <1>2, <1>3 DEF CheckInv

LEMMA CheckInvInit ==
  ASSUME Init
  PROVE  CheckInv
<1>1. IsFiniteSet({}) /\ Cardinality({}) = 0
  BY FS_EmptySet
<1>2. Range(errs) = {} /\ Len(todo) = 0
  BY DEF Init, Range
<1>3. TypeOK
  BY <1>1, <1>2, BudgetsAssumption DEF Init, TypeOK
<1>4. ToolsInv
  BY <1>1 DEF Init, ToolsInv
<1>5. TodoInv
  BY <1>2 DEF Init, TodoInv
<1> QED
  BY <1>3, <1>4, <1>5 DEF Init, CheckInv

LEMMA CheckInvNext ==
  ASSUME CheckInv, [Next]_vars
  PROVE  CheckInv'
<1>1. CASE UNCHANGED vars
  <2>1. TypeOK'
    BY <1>1 DEF CheckInv, TypeOK, vars
  <2>2. ToolsInv'
    BY <1>1 DEF CheckInv, ToolsInv, vars
  <2>3. TodoInv'
    BY <1>1 DEF CheckInv, TodoInv, Done, vars
  <2>4. phase \in {"checking", "done"} => PrefixesInv'
    BY <1>1 DEF CheckInv, PrefixesInv, Done, Opening, vars
  <2>5. phase \in {"checking", "done"} => ErrsInv'
    BY <1>1 DEF CheckInv, ErrsInv, Done, vars
  <2> QED
    BY <1>1, <2>1, <2>2, <2>3, <2>4, <2>5 DEF CheckInv, vars
<1>2. ASSUME NEW name \in Names, NEW raw \in Addable, AddRawTool(name, raw)
      PROVE  CheckInv'
  BY <1>2, RawToolsFit, AddToolStep DEF AddRawTool
<1>3. ASSUME NEW name \in Names, NEW summary \in Summaries, NEW details \in Details,
             Describe(name, summary, details)
      PROVE  CheckInv'
  <2>1. CASE Refused(summary)
    BY <1>3, <2>1, PanicStep DEF Describe
  <2>2. CASE ~Refused(summary)
    BY <1>3, <2>2, DescribedFits, AddToolStep DEF Describe
  <2> QED
    BY <2>1, <2>2
<1>4. ASSUME NEW b \in Budgets, CheckServer(b)
      PROVE  CheckInv'
  BY <1>4, CheckServerStep
<1>5. CASE CheckTool
  BY <1>5, CheckToolStep
<1>6. CASE CheckReturns
  BY <1>6, CheckReturnsStep
<1> QED
  BY <1>1, <1>2, <1>3, <1>4, <1>5, <1>6 DEF Next

LEMMA CheckInvProperties ==
  ASSUME CheckInv
  PROVE  TypeOK /\ ReportIsExact /\ DescribedToolsFit
<1>1. TypeOK
  BY DEF CheckInv
<1>2. ReportIsExact
  <2> SUFFICES ASSUME phase = "done"
               PROVE  /\ Range(errs) = FaultsIn(budget, tools)
                      /\ \A i, j \in 1..Len(errs) : i < j =>
                           errs[i].tool <= errs[j].tool /\ (errs[i].kind = "param" \/ errs[i] # errs[j])
    BY DEF ReportIsExact
  <2>1. todo = <<>> /\ ErrsInv
    BY DEF CheckInv, TodoInv
  <2>2. Done = tools
    BY <2>1 DEF Done, Range
  <2> QED
    BY <2>1, <2>2 DEF ErrsInv
<1>3. DescribedToolsFit
  <2> SUFFICES ASSUME NEW t \in tools, t.summary # NoSummary
               PROVE  /\ FirstLine(t.description) = TrimSpace(t.summary)
                      /\ Len(FirstLine(t.description)) \in 1..SummaryMax
                      /\ \A e \in Range(errs) : ~(e.tool = t.name /\ e.kind = "summary")
    BY DEF DescribedToolsFit
  <2>1. PICK summary \in Summaries, details \in Details :
           t.summary = summary /\ ~Refused(summary) /\ t.description = Description(summary, details)
    BY DEF CheckInv, ToolsInv
  <2>2. summary \in Texts /\ details \in Texts
    BY TextsAssumption
  <2>3. /\ FirstLine(t.description) = TrimSpace(summary)
        /\ TrimSpace(TrimSpace(summary)) = TrimSpace(summary)
        /\ Len(TrimSpace(summary)) \in 1..SummaryMax
    BY <2>1, <2>2, Describes
  <2>4. ASSUME NEW e \in Range(errs), e.tool = t.name, e.kind = "summary"
        PROVE  FALSE
    <3>1. phase \notin {"building", "panicked"}
      <4>1. errs # <<>>
        BY DEF Range
      <4> QED
        BY <4>1 DEF CheckInv, TodoInv
    <3>2. e \in FaultsIn(budget, Done)
      BY <1>1, <3>1 DEF CheckInv, TypeOK, ErrsInv
    <3>3. e \in SummaryFaults(Done)
      <4>1. /\ \A x \in DescriptionFaults(Done) : x.kind = "description"
            /\ \A x \in SchemaFaults(Done) : x.kind = "schema"
            /\ \A x \in ParamFaults(Done) : x.kind = "param"
            /\ \A x \in PrefixFaults(Done) : x.kind = "prefix"
        BY DEF DescriptionFaults, SchemaFaults, ParamFaults, ParamFaultsOf, PrefixFaults, Clash, Err, Fault
      <4> QED
        BY <2>4, <3>2, <4>1, FaultsAre
    <3>4. PICK u \in Done : e.tool = u.name /\ Len(TrimSpace(FirstLine(u.description))) \notin 1..SummaryMax
      BY <3>3 DEF SummaryFaults, Fault
    <3>5. u = t
      BY <1>1, <2>4, <3>4 DEF TypeOK, Done
    <3> QED
      BY <2>3, <3>4, <3>5
  <2> QED
    BY <2>1, <2>3, <2>4
<1> QED
  BY <1>1, <1>2, <1>3

(* For every set of tools, texts and budgets: Check's loop has reported    *)
(* the faults of the tools it is done with, and its map holds the first of *)
(* them with each opening (tooldesc.go:85-115).                            *)
THEOREM CheckInvariance == Spec => []CheckInv
<1>1. Init => CheckInv
  BY CheckInvInit
<1>2. CheckInv /\ [Next]_vars => CheckInv'
  BY CheckInvNext
<1> QED
  BY <1>1, <1>2, PTL DEF Spec

(* Names are one tool's each, and what the map holds for an opening is the *)
(* name of a tool on the server (tooldesc.go:85-109).                      *)
THEOREM TypeCorrect == Spec => []TypeOK
<1>1. CheckInv => TypeOK
  BY CheckInvProperties
<1> QED
  BY <1>1, CheckInvariance, PTL

(* Check reports the tools that break the budget and no others, in one     *)
(* order, however the server lists its tools (tooldesc.go:82-115).         *)
THEOREM ReportExact == Spec => []ReportIsExact
<1>1. CheckInv => ReportIsExact
  BY CheckInvProperties
<1> QED
  BY <1>1, CheckInvariance, PTL

(* What Describe lets through is shown whole and passes Check              *)
(* (tooldesc.go:19-28, 92-97).                                             *)
THEOREM DescribedFit == Spec => []DescribedToolsFit
<1>1. CheckInv => DescribedToolsFit
  BY CheckInvProperties
<1> QED
  BY <1>1, CheckInvariance, PTL

(* What Check reports of the parameters of one tool.                       *)
LEMMA ParamsReported ==
  ASSUME CheckInv, phase = "done", budget.param > 0, NEW t \in tools, Decodes(t.schema)
  PROVE  {e.at : e \in {e \in Range(errs) : e.kind = "param" /\ e.tool = t.name}}
           = Found(budget.param, inputSchema(t))
<1>1. Range(errs) = FaultsIn(budget, tools)
  BY CheckInvProperties DEF ReportIsExact
<1>2. OneNamed(tools)
  BY DEF CheckInv, TypeOK, OneNamed
<1>3. ParamFaultsOf(t) = {Err(t, "param", at) : at \in Found(budget.param, inputSchema(t))}
  BY DEF ParamFaultsOf, checkSchema, Found
<1>4. ASSUME NEW e \in Range(errs), e.kind = "param", e.tool = t.name
      PROVE  e \in ParamFaultsOf(t)
  <2>1. /\ \A x \in SummaryFaults(tools) : x.kind = "summary"
        /\ \A x \in DescriptionFaults(tools) : x.kind = "description"
        /\ \A x \in SchemaFaults(tools) : x.kind = "schema"
        /\ \A x \in PrefixFaults(tools) : x.kind = "prefix"
    BY DEF SummaryFaults, DescriptionFaults, SchemaFaults, PrefixFaults, Clash, Err, Fault
  <2>2. e \in ParamFaults(tools)
    BY <1>1, <1>4, <2>1, FaultsAre
  <2>3. PICK u \in tools : e \in ParamFaultsOf(u)
    BY <2>2 DEF ParamFaults
  <2>4. e.tool = u.name
    BY <2>3 DEF ParamFaultsOf, Err
  <2>5. u = t
    BY <1>2, <1>4, <2>4 DEF OneNamed
  <2> QED
    BY <2>3, <2>5
<1>5. ASSUME NEW e \in ParamFaultsOf(t)
      PROVE  e \in Range(errs) /\ e.kind = "param" /\ e.tool = t.name
  <2>1. e \in ParamFaults(tools)
    BY DEF ParamFaults
  <2>2. e \in Range(errs)
    BY <1>1, <2>1, FaultsAre
  <2> QED
    BY <2>2 DEF ParamFaultsOf, Err
<1>6. \A at : Err(t, "param", at).at = at
  BY DEF Err
<1>7. {e \in Range(errs) : e.kind = "param" /\ e.tool = t.name} = ParamFaultsOf(t)
  BY <1>4, <1>5
<1> QED
  BY <1>3, <1>6, <1>7

LEMMA CheckInvCaps ==
  ASSUME CheckInv, PlainDefs
  PROVE  EveryDescriptionCapped
<1> SUFFICES ASSUME phase = "done", budget.param > 0, NEW t \in tools, Decodes(t.schema)
             PROVE  LET reported == {e.at : e \in {e \in Range(errs) : e.kind = "param" /\ e.tool = t.name}}
                        described == {p.at : p \in Overlong(inputSchema(t), budget.param)}
                    IN  /\ described \subseteq reported
                        /\ \A at \in reported \ described :
                             \E u \in NoSchemasIn(inputSchema(t)) : IsPrefix(u, at)
  BY DEF EveryDescriptionCapped
<1> DEFINE v == inputSchema(t)
           found == Found(budget.param, v)
           described == {p.at : p \in Overlong(v, budget.param)}
<1>1. v \in Values
  BY InputSchemaIs DEF CheckInv, ToolsInv
<1>2. Finds(budget.param, v)
  BY <1>1, WalkFinds
<1>3. {e.at : e \in {e \in Range(errs) : e.kind = "param" /\ e.tool = t.name}} = found
  BY ParamsReported
<1> HIDE DEF v
<1>4. described \subseteq found
  BY <1>2 DEF Finds
<1>5. ASSUME NEW at \in found \ described
      PROVE  \E u \in NoSchemasIn(v) : IsPrefix(u, at)
  <2>1. ~\E p \in Overlong(v, budget.param) : at = p.at
    OBVIOUS
  <2>2. PICK u \in NoSchemasIn(v), w \in Path : u \in Path /\ at = Beneath(u, w)
    BY <1>2, <2>1 DEF Finds
  <2> QED
    BY <2>2, PrefixOf
<1> QED
  BY <1>3, <1>4, <1>5 DEF v

(* For every set of tools and any JSON for their schemas, of any nesting:  *)
(* Check reports each description over the budget, at its path, and        *)
(* nothing else but what is called "description" in no schema, a default   *)
(* or an example, say; while no definition bears the name of a keyword     *)
(* that the walk looks for (tooldesc.go:69-71, 133-192).                   *)
THEOREM DescriptionsCapped ==
  ASSUME PlainDefs
  PROVE  Spec => []EveryDescriptionCapped
<1>1. CheckInv => EveryDescriptionCapped
  BY CheckInvCaps
<1> QED
  BY <1>1, CheckInvariance, PTL

(* Asserting the page changes nothing on the server.                       *)
LEMMA DocIsServer == DocSpec => Spec
<1>1. DocInit => Init
  BY DEF DocInit
<1>2. [DocNext]_<<vars, docVars>> => [Next]_vars
  BY DEF DocNext, Building, AssertServerDoc, AssertDoc, assertDoc, vars, docVars
<1> QED
  BY <1>1, <1>2, PTL DEF DocSpec, Spec

-----------------------------------------------------------------------------
(* The page is a sequence of lines, and not an empty one.                  *)

Sequence(s) == s \in Seq(Range(s))

LEMMA SequenceOf ==
  ASSUME NEW S, NEW s \in Seq(S)
  PROVE  Sequence(s)
BY LenProperties DEF Sequence, Range

LEMMA SequenceMap ==
  ASSUME NEW f, NEW n \in Nat, NEW S, f \in [1..n -> S]
  PROVE  Sequence(f)
<1>1. f \in Seq(S)
  OBVIOUS
<1> QED
  BY <1>1, SequenceOf

LEMMA SequenceConcat ==
  ASSUME NEW s, NEW t, Sequence(s), Sequence(t)
  PROVE  /\ Sequence(s \o t) /\ Len(s \o t) = Len(s) + Len(t)
         /\ Len(s) \in Nat /\ Len(t) \in Nat
<1> DEFINE S == Range(s) \cup Range(t)
<1>1. s \in Seq(S) /\ t \in Seq(S)
  <2>1. Range(s) \subseteq S /\ Range(t) \subseteq S
    OBVIOUS
  <2> HIDE DEF S
  <2> QED
    BY <2>1, SeqMonotonic DEF Sequence
<1> HIDE DEF S
<1>2. s \o t \in Seq(S) /\ Len(s \o t) = Len(s) + Len(t)
  BY <1>1, ConcatProperties
<1> QED
  BY <1>1, <1>2, SequenceOf, LenProperties

LEMMA LinesType ==
  ASSUME NEW s \in Texts
  PROVE  Sequence(Lines(s))
<1> DEFINE ends == {i \in 1..Len(s) : s[i] = Newline} \cup {Len(s) + 1}
           End(k) == IF k = 0 THEN 0
                     ELSE CHOOSE i \in ends : Cardinality({j \in ends : j < i}) = k - 1
           line(k) == [text |-> SubSeq(s, End(k - 1) + 1, End(k) - 1)]
           n == Cardinality(ends)
<1>1. n \in Nat
  <2>1. Len(s) \in Nat
    BY LenProperties DEF Texts
  <2>2. IsFiniteSet(1..Len(s) + 1)
    BY <2>1, FS_Interval
  <2>3. ends \in SUBSET (1..Len(s) + 1)
    BY <2>1
  <2> HIDE DEF ends
  <2>4. IsFiniteSet(ends)
    BY <2>2, <2>3, FS_Subset
  <2> QED
    BY <2>4, FS_CardinalityType
<1>2. Lines(s) = [k \in 1..n |-> line(k)]
  BY DEF Lines
<1> HIDE DEF n, line
<1>3. [k \in 1..n |-> line(k)] \in [1..n -> {line(k) : k \in 1..n}]
  OBVIOUS
<1> QED
  BY <1>1, <1>2, <1>3, SequenceMap

LEMMA TrimRightType ==
  ASSUME NEW s \in Texts
  PROVE  TrimRight(s) \in Texts
<1> DEFINE I == {i \in 1..Len(s) : s[i] # Newline}
           last == IF I # {} THEN Max(I) ELSE 0
<1>1. TrimRight(s) = SubSeq(s, 1, last)
  BY DEF TrimRight, SelectLastInSeq
<1>2. Len(s) \in Nat
  BY LenProperties DEF Texts
<1>3. last \in 0..Len(s)
  <2>1. CASE I = {}
    BY <1>2, <2>1
  <2>2. CASE I # {}
    <3>1. I \in SUBSET Nat /\ \A i \in I : i <= Len(s)
      OBVIOUS
    <3>2. PICK m \in I : \A i \in I : i <= m
      BY <1>2, <2>2, <3>1, GreatestNat
    <3>3. \A i \in I : m >= i
      BY <3>1, <3>2
    <3>4. Max(I) \in I
      BY <3>3 DEF Max
    <3> QED
      BY <1>2, <2>2, <3>1, <3>4
  <2> QED
    BY <2>1, <2>2
<1> HIDE DEF last
<1>4. \A i \in 1..last : s[i] \in Int
  BY <1>2, <1>3, ElementOfSeq DEF Texts
<1>5. SubSeq(s, 1, last) \in Seq(Int)
  BY <1>2, <1>3, <1>4, SubSeqProperties
<1> QED
  BY <1>1, <1>5 DEF Texts

LEMMA SectionType ==
  ASSUME NEW t, t.description \in Texts
  PROVE  Sequence(Section(t))
<1> DEFINE n == FenceLength(t.description)
           a == <<Blank, [tool |-> t.name], Blank>>
           b == <<[open |-> n]>>
           c == Lines(t.description)
           e == <<[text |-> [i \in 1..n |-> Backtick]]>>
           g == <<Blank, [json |-> t.schema]>>
<1>1. Section(t) = a \o (b \o c \o e) \o g
  BY DEF Section, fenced
<1> HIDE DEF n
<1>2. \A x, y, z : /\ <<x>> \in Seq({x}) /\ <<x, y>> \in Seq({x, y}) /\ <<x, y, z>> \in Seq({x, y, z})
  OBVIOUS
<1>3. Sequence(a) /\ Sequence(b) /\ Sequence(e) /\ Sequence(g)
  BY <1>2, SequenceOf
<1>4. Sequence(c)
  BY LinesType
<1> HIDE DEF a, b, c, e, g
<1>5. Sequence(b \o c)
  BY <1>3, <1>4, SequenceConcat
<1>6. Sequence(b \o c \o e)
  BY <1>3, <1>5, SequenceConcat
<1>7. Sequence(a \o (b \o c \o e))
  BY <1>3, <1>6, SequenceConcat
<1> QED
  BY <1>1, <1>3, <1>7, SequenceConcat

LEMMA FlattenSequence ==
  ASSUME NEW n \in Nat, NEW f, DOMAIN f = 1..n, f = [i \in 1..n |-> f[i]], \A i \in 1..n : Sequence(f[i])
  PROVE  Sequence(FlattenSeq(f))
<1> DEFINE T == UNION {Range(f[i]) : i \in 1..n}
<1>1. \A i \in 1..n : f[i] \in Seq(T)
  <2> SUFFICES ASSUME NEW i \in 1..n PROVE f[i] \in Seq(T)
    OBVIOUS
  <2>1. Range(f[i]) \subseteq T
    OBVIOUS
  <2> HIDE DEF T
  <2> QED
    BY <2>1, SeqMonotonic DEF Sequence
<1> HIDE DEF T
<1>2. f \in Seq(Seq(T))
  BY <1>1
<1>3. FlattenSeq(f) \in Seq(T)
  BY <1>2, FlattenType
<1> QED
  BY <1>3, SequenceOf

LEMMA PageType ==
  ASSUME NEW S, NEW listed \in Seq(S), \A t \in S : Named(t)
  PROVE  Sequence(RenderDoc(listed, Header)) /\ Len(RenderDoc(listed, Header)) > 0
<1> DEFINE sorted == sortedByName(listed)
           n == Len(sorted)
           sections == [i \in 1..n |-> Section(sorted[i])]
           a == Lines(TrimRight(Header))
           b == TableHead
           c == [i \in 1..n |-> Row(sorted[i])]
           e == FlattenSeq(sections)
           g == <<Blank>>
<1>1. RenderDoc(listed, Header) = a \o b \o c \o e \o g
  BY DEF RenderDoc
<1>2. sorted \in Seq(S) /\ \A i \in 1..n : Named(sorted[i])
  <2>1. sorted \in Seq(S)
    BY SortedByName
  <2> QED
    BY <2>1, ElementOfSeq
<1>3. n \in Nat
  BY <1>2, LenProperties
<1> HIDE DEF sorted, n
<1>4. Sequence(a)
  BY HeaderAssumption, TrimRightType, LinesType
<1>5. Sequence(b)
  <2>1. \A x, y, z : <<x, y, z>> \in Seq({x, y, z})
    OBVIOUS
  <2> QED
    BY <2>1, SequenceOf DEF TableHead
<1>6. Sequence(c)
  <2>1. c \in [1..n -> {Row(sorted[i]) : i \in 1..n}]
    OBVIOUS
  <2> QED
    BY <1>3, <2>1, SequenceMap
<1>7. Sequence(e)
  <2>1. DOMAIN sections = 1..n /\ sections = [i \in 1..n |-> sections[i]]
    OBVIOUS
  <2>2. \A i \in 1..n : Sequence(sections[i])
    BY <1>2, SectionType DEF Named
  <2> HIDE DEF sections
  <2> QED
    BY <1>3, <2>1, <2>2, FlattenSequence
<1>8. Sequence(g) /\ Len(g) = 1
  <2>1. g \in Seq({Blank}) /\ Len(g) = 1
    OBVIOUS
  <2> QED
    BY <2>1, SequenceOf
<1> HIDE DEF a, b, c, e, g
<1>9. Sequence(a \o b)
  BY <1>4, <1>5, SequenceConcat
<1>10. Sequence(a \o b \o c)
  BY <1>6, <1>9, SequenceConcat
<1>11. Sequence(a \o b \o c \o e)
  BY <1>7, <1>10, SequenceConcat
<1>12. /\ Sequence(a \o b \o c \o e \o g)
       /\ Len(a \o b \o c \o e \o g) = Len(a \o b \o c \o e) + Len(g)
       /\ Len(a \o b \o c \o e) \in Nat
  BY <1>8, <1>11, SequenceConcat
<1> QED
  BY <1>1, <1>8, <1>12

-----------------------------------------------------------------------------
(* The assertion.                                                          *)

(* firstDiff is the first line where the two part, or the one after the    *)
(* end of the shorter.                                                     *)
LEMMA FirstDiff ==
  ASSUME NEW a, NEW b, Sequence(a), Sequence(b)
  PROVE  LET n == firstDiff(a, b) - 1
         IN  /\ n \in Nat /\ n + 1 = firstDiff(a, b)
             /\ n <= Len(a) /\ n <= Len(b)
             /\ SubSeq(a, 1, n) = SubSeq(b, 1, n)
             /\ n = Len(a) \/ n = Len(b) \/ a[n + 1] # b[n + 1]
<1> DEFINE differ == {i \in 1..Len(a) : i <= Len(b) /\ a[i] # b[i]}
           short == Min({Len(a), Len(b)})
           D == differ \cup {short + 1}
           m == firstDiff(a, b)
           n == m - 1
<1>1. Len(a) \in Nat /\ Len(b) \in Nat
  BY LenProperties DEF Sequence
<1>2. short \in Nat /\ short <= Len(a) /\ short <= Len(b) /\ (short = Len(a) \/ short = Len(b))
  <2>1. \E x \in {Len(a), Len(b)} : \A y \in {Len(a), Len(b)} : x <= y
    BY <1>1
  <2>2. short \in {Len(a), Len(b)} /\ \A y \in {Len(a), Len(b)} : short <= y
    BY <2>1 DEF Min
  <2> QED
    BY <1>1, <2>2
<1>3. m = Min(D)
  BY DEF firstDiff
<1> HIDE DEF m, short
<1>4. D \in SUBSET Nat /\ D # {} /\ 0 \notin D
  BY <1>2
<1>5. m \in D /\ \A i \in D : m <= i
  <2>1. \E i \in D : \A j \in D : i <= j
    <3> HIDE DEF D
    <3> QED
      BY <1>4, LeastNat
  <2> QED
    BY <1>3, <2>1 DEF Min
<1>6. m \in Nat \ {0} /\ n \in Nat /\ n + 1 = m
  BY <1>4, <1>5
<1>7. n <= short
  BY <1>2, <1>5, <1>6
<1>8. \A i \in 1..n : i \in 1..Len(a) /\ i \in 1..Len(b) /\ a[i] = b[i]
  <2> SUFFICES ASSUME NEW i \in 1..n PROVE i \in 1..Len(a) /\ i \in 1..Len(b) /\ a[i] = b[i]
    OBVIOUS
  <2>1. i \in 1..Len(a) /\ i \in 1..Len(b)
    BY <1>1, <1>2, <1>6, <1>7
  <2>2. ~(m <= i)
    BY <1>6
  <2>3. i \notin D
    BY <1>5, <2>2
  <2> QED
    BY <2>1, <2>3
<1>9. n = Len(a) \/ n = Len(b) \/ a[m] # b[m]
  BY <1>2, <1>5, <1>6
<1>10. SubSeq(a, 1, n) = SubSeq(b, 1, n)
  <2> DEFINE u == SubSeq(a, 1, n)
             v == SubSeq(b, 1, n)
             S == Range(a)
  <2>1. \A i \in 1..n : a[i] \in S /\ b[i] \in S
    BY <1>8, LenProperties DEF Range, Sequence
  <2> HIDE DEF S
  <2>2. /\ u \in Seq(S) /\ Len(u) = (IF 1 <= n THEN n - 1 + 1 ELSE 0)
        /\ \A i \in 1..n - 1 + 1 : u[i] = a[1 + i - 1]
    BY <1>6, <2>1, SubSeqProperties
  <2>3. /\ v \in Seq(S) /\ Len(v) = (IF 1 <= n THEN n - 1 + 1 ELSE 0)
        /\ \A i \in 1..n - 1 + 1 : v[i] = b[1 + i - 1]
    BY <1>6, <2>1, SubSeqProperties
  <2> HIDE DEF u, v, n
  <2>4. Len(u) = n /\ \A i \in 1..n : u[i] = a[i] /\ v[i] = b[i]
    BY <1>6, <2>2, <2>3
  <2>5. u = v
    BY <1>8, <2>2, <2>3, <2>4, SeqEqual
  <2> QED
    BY <2>5 DEF u, v
<1>11. n <= Len(a) /\ n <= Len(b)
  BY <1>1, <1>2, <1>6, <1>7
<1> QED
  BY <1>6, <1>9, <1>10, <1>11 DEF m

(* What Compared says of a file is true of it.                             *)
Says(f, v) ==
  /\ v.says = "current" <=> f.is = "text" /\ f.lines = v.page
  /\ v.says # "unwritten"
  /\ v.says = "stale" =>
       LET n == v.at - 1
       IN  /\ n <= Len(f.lines) /\ n <= Len(v.page)
           /\ SubSeq(f.lines, 1, n) = SubSeq(v.page, 1, n)
           /\ \/ n = Len(f.lines) \/ n = Len(v.page)
              \/ f.lines[v.at] # v.page[v.at]

Stored(f) ==
  /\ f.is \in {"text", "missing", "unreadable"}
  /\ Sequence(f.lines)
  /\ f.is # "text" => f.lines = <<>>

LEMMA ComparedSays ==
  ASSUME NEW f, Stored(f), NEW listed, NEW page, Sequence(page)
  PROVE  Says(f, Compared(f, listed, page)) /\ Compared(f, listed, page).listed = listed
<1> DEFINE v == Compared(f, listed, page)
<1>1. CASE f.is # "text"
  <2>1. v = Verdict(f.is, 0, listed, page)
    BY <1>1 DEF Compared
  <2>2. v.says = f.is /\ v.listed = listed /\ f.is \in {"missing", "unreadable"}
    BY <1>1, <2>1 DEF Verdict, Stored
  <2> HIDE DEF v
  <2>3. Says(f, v)
    BY <2>2 DEF Says
  <2> QED
    BY <2>2, <2>3 DEF v
<1>2. CASE f.is = "text" /\ f.lines = page
  <2>1. v = Verdict("current", 0, listed, page)
    BY <1>2 DEF Compared
  <2>2. v.says = "current" /\ v.page = page /\ v.listed = listed
    BY <2>1 DEF Verdict
  <2> HIDE DEF v
  <2>3. Says(f, v)
    BY <1>2, <2>2 DEF Says
  <2> QED
    BY <2>2, <2>3 DEF v
<1>3. CASE f.is = "text" /\ f.lines # page
  <2>1. v = Verdict("stale", firstDiff(f.lines, page), listed, page)
    BY <1>3 DEF Compared
  <2>2. v.says = "stale" /\ v.page = page /\ v.at = firstDiff(f.lines, page) /\ v.listed = listed
    BY <2>1 DEF Verdict
  <2> HIDE DEF v
  <2>3. Sequence(f.lines)
    BY DEF Stored
  <2> DEFINE n == firstDiff(f.lines, page) - 1
  <2>4. /\ n + 1 = firstDiff(f.lines, page)
        /\ n <= Len(f.lines) /\ n <= Len(page)
        /\ SubSeq(f.lines, 1, n) = SubSeq(page, 1, n)
        /\ n = Len(f.lines) \/ n = Len(page) \/ f.lines[n + 1] # page[n + 1]
    BY <2>3, FirstDiff
  <2>5. v.at - 1 = n /\ v.at = n + 1
    BY <2>2, <2>4
  <2> HIDE DEF n
  <2>6. Says(f, v)
    BY <1>3, <2>2, <2>4, <2>5 DEF Says
  <2> QED
    BY <2>2, <2>6 DEF v
<1> QED
  BY <1>1, <1>2, <1>3

LEMMA Written ==
  ASSUME FileInv, NEW page, Sequence(page), NEW w \in WriteFile(page)
  PROVE  Stored(w.file)
<1>1. Stored(file)
  BY DEF FileInv, Stored, Sequence
<1>2. Stored(Text(page))
  BY DEF Stored, Text
<1>3. Stored(Text(<<Blank>>))
  <2>1. <<Blank>> \in Seq({Blank})
    OBVIOUS
  <2>2. Sequence(<<Blank>>)
    BY <2>1, SequenceOf
  <2> QED
    BY <2>2 DEF Stored, Text
<1>4. Stored(Text(Front(page)))
  <2> DEFINE S == Range(page)
  <2>1. Len(page) \in Nat /\ \A i \in 1..Len(page) : page[i] \in S
    BY LenProperties DEF Sequence, Range
  <2> HIDE DEF S
  <2>2. Front(page) \in Seq(S)
    <3>1. Len(page) - 1 \in Int /\ \A i \in 1..Len(page) - 1 : page[i] \in S
      BY <2>1
    <3>2. SubSeq(page, 1, Len(page) - 1) \in Seq(S)
      BY <3>1, SubSeqProperties
    <3> QED
      BY <3>2 DEF Front
  <2>3. Sequence(Front(page))
    BY <2>2, SequenceOf
  <2> QED
    BY <2>3 DEF Stored, Text
<1> QED
  BY <1>1, <1>2, <1>3, <1>4 DEF WriteFile

DocInv == FileInv /\ AssertIsExact

(* How an assertion ends: what it listed, the file and the verdict then,   *)
(* and what became of the write.                                           *)
Ends(listed, f, v, w) ==
  /\ Stored(f) /\ v.listed = listed
  /\ \/ RenderFails(listed) /\ w = "nothing" /\ v.says = "unrendered"
     \/ ~RenderFails(listed) /\ w \in {"nothing", "page"} /\ Says(f, v)
     \/ ~RenderFails(listed) /\ w = "failed" /\ v.says = "unwritten"

LEMMA AssertEnds ==
  ASSUME FileInv, NEW S, NEW listed \in Seq(S), \A t \in S : Named(t), assertDoc(listed)
  PROVE  Ends(listed, file', verdict', wrote')
<1> DEFINE page == RenderDoc(listed, Header)
<1>1. Sequence(page)
  BY PageType
<1>2. RenderError(listed) \/ Compare(listed, page) \/ Update(listed, page)
  BY DEF assertDoc
<1> HIDE DEF page
<1>3. Stored(file)
  BY DEF FileInv, Stored, Sequence
<1>4. CASE RenderError(listed)
  BY <1>3, <1>4 DEF RenderError, Verdict, Ends
<1>5. CASE Compare(listed, page)
  <2>1. verdict' = Compared(file, listed, page) /\ file' = file /\ wrote' = "nothing" /\ ~RenderFails(listed)
    BY <1>5 DEF Compare
  <2>2. Says(file, Compared(file, listed, page)) /\ Compared(file, listed, page).listed = listed
    BY <1>1, <1>3, ComparedSays
  <2> QED
    BY <1>3, <2>1, <2>2 DEF Ends
<1>6. CASE Update(listed, page)
  <2>1. PICK w \in WriteFile(page) :
           /\ file' = w.file /\ wrote' = Wrote(w)
           /\ verdict' = IF w.failed THEN Verdict("unwritten", 0, listed, page)
                         ELSE Compared(w.file, listed, page)
    BY <1>6 DEF Update
  <2>2. Stored(w.file) /\ ~RenderFails(listed)
    BY <1>1, <1>6, Written DEF Update
  <2>3. CASE w.failed
    BY <2>1, <2>2, <2>3 DEF Verdict, Wrote, Ends
  <2>4. CASE ~w.failed
    <3>1. Says(w.file, Compared(w.file, listed, page)) /\ Compared(w.file, listed, page).listed = listed
      BY <1>1, <2>2, ComparedSays
    <3> QED
      BY <2>1, <2>2, <2>4, <3>1 DEF Wrote, Ends
  <2> QED
    BY <2>3, <2>4
<1> QED
  BY <1>2, <1>4, <1>5, <1>6

LEMMA AssertDocStep ==
  ASSUME FileInv, NEW S, NEW listed \in Seq(S), \A t \in S : Named(t), assertDoc(listed)
  PROVE  DocInv'
<1>1. Ends(listed, file', verdict', wrote')
  BY AssertEnds
<1>2. FileInv'
  BY <1>1 DEF Ends, Stored, Sequence, FileInv
<1>3. AssertIsExact'
  BY <1>1 DEF Ends, Says, AssertIsExact
<1> QED
  BY <1>2, <1>3 DEF DocInv

(* What an assertion lists: the server's tools in some order, or a list of *)
(* the caller's own.                                                       *)
LEMMA ServerLists ==
  ASSUME CheckInv, AssertServerDoc
  PROVE  \E listed \in Seq(tools) : assertDoc(listed) /\ \A t \in tools : Named(t)
<1>1. PICK listed \in SetToSeqs(tools) : assertDoc(listed)
  BY DEF AssertServerDoc
<1>2. listed \in Seq(tools)
  <2>1. Cardinality(tools) \in Nat
    BY FS_CardinalityType DEF CheckInv, ToolsInv
  <2>2. listed \in [1..Cardinality(tools) -> tools]
    BY DEF SetToSeqs
  <2> QED
    BY <2>1, <2>2
<1>3. \A t \in tools : Named(t)
  BY NamesAre DEF CheckInv
<1> QED
  BY <1>1, <1>2, <1>3

LEMMA CallerLists ==
  ASSUME CheckInv, AssertDoc
  PROVE  \E S : \E listed \in Seq(S) : assertDoc(listed) /\ \A t \in S : Named(t)
<1>1. PICK t \in tools, raw \in PlainTools :
         LET session == [name |-> t.name, description |-> raw.description, schema |-> raw.schema,
                         hints |-> raw.hints, summary |-> NoSummary]
         IN  assertDoc(<<t, session>>) \/ assertDoc(<<session, t>>)
  BY DEF AssertDoc
<1> DEFINE session == [name |-> t.name, description |-> raw.description, schema |-> raw.schema,
                       hints |-> raw.hints, summary |-> NoSummary]
           S == {t, session}
<1>2. \A x \in tools : Named(x)
  BY NamesAre DEF CheckInv
<1>3. Named(t) /\ Named(session)
  BY <1>2, TextsAssumption DEF Named, PlainTools
<1>4. assertDoc(<<t, session>>) \/ assertDoc(<<session, t>>)
  BY <1>1
<1> HIDE DEF session
<1>5. <<t, session>> \in Seq(S) /\ <<session, t>> \in Seq(S) /\ \A x \in S : Named(x)
  BY <1>3
<1> HIDE DEF S
<1> QED
  BY <1>4, <1>5

LEMMA DocInvNext ==
  ASSUME CheckInv, DocInv, [DocNext]_<<vars, docVars>>
  PROVE  DocInv'
<1>1. CASE UNCHANGED <<vars, docVars>>
  BY <1>1 DEF DocInv, FileInv, AssertIsExact, docVars
<1>2. CASE Building
  BY <1>2 DEF Building, DocInv, FileInv, AssertIsExact
<1>3. FileInv
  BY DEF DocInv
<1>4. CASE AssertServerDoc
  <2>1. PICK listed \in Seq(tools) : assertDoc(listed) /\ \A t \in tools : Named(t)
    BY <1>4, ServerLists
  <2> QED
    BY <1>3, <2>1, AssertDocStep
<1>5. CASE AssertDoc
  <2>1. PICK S : \E listed \in Seq(S) : assertDoc(listed) /\ \A t \in S : Named(t)
    BY <1>5, CallerLists
  <2>2. PICK listed \in Seq(S) : assertDoc(listed) /\ \A t \in S : Named(t)
    BY <2>1
  <2> QED
    BY <1>3, <2>2, AssertDocStep
<1> QED
  BY <1>1, <1>2, <1>4, <1>5 DEF DocNext

LEMMA DocInvInit ==
  ASSUME DocInit
  PROVE  DocInv
<1>1. AssertIsExact
  BY DEF DocInit, AssertIsExact
<1>2. Sequence(Lines(Header)) /\ Sequence(<<>>)
  <2>1. <<>> \in Seq(Range(<<>>))
    OBVIOUS
  <2> QED
    BY <2>1, HeaderAssumption, LinesType DEF Sequence
<1>3. FileInv
  <2>1. Stored(Missing) /\ Stored(Unreadable)
    BY <1>2 DEF Stored, Missing, Unreadable
  <2>2. Stored(Text(Lines(Header)))
    BY <1>2 DEF Stored, Text
  <2>3. Stored(file)
    BY <2>1, <2>2 DEF DocInit
  <2> QED
    BY <2>3 DEF Stored, FileInv, Sequence
<1> QED
  BY <1>1, <1>3 DEF DocInv

(* An assertion passes exactly when its page was rendered, the file holds  *)
(* it and no write of it failed, also when the file held the page all      *)
(* along, and a stale file is reported at the first line where the two     *)
(* part, whatever tools are listed and however a write fails               *)
(* (tooldesctest.go:47-82).                                                *)
THEOREM AssertExact == DocSpec => []AssertIsExact
<1>1. DocSpec => []CheckInv
  BY DocIsServer, CheckInvariance, PTL
<1>2. DocInit => DocInv
  BY DocInvInit
<1>3. CheckInv /\ DocInv /\ [DocNext]_<<vars, docVars>> => DocInv'
  BY DocInvNext
<1>4. DocInv => AssertIsExact
  BY DEF DocInv
<1> QED
  BY <1>1, <1>2, <1>3, <1>4, PTL DEF DocSpec

-----------------------------------------------------------------------------
(* The reader of a page.                                                   *)

LEMMA MinIs ==
  ASSUME NEW S \in SUBSET Nat, S # {}
  PROVE  Min(S) \in S /\ \A i \in S : Min(S) <= i
<1>1. \E n \in S : \A i \in S : n <= i
  BY LeastNat
<1> QED
  BY <1>1 DEF Min

(* Where a description that opens at place i of the page may end. *)
Closing(p, i) == {j \in i + 4..Len(p) - 3 : Closes(p[j], p[i + 3].open)}

(* What is read at one place of the page, given what f reads after it. *)
Read(f, p, i) ==
  IF i = Len(p) /\ p[i] = Blank THEN <<>>
  ELSE IF Len(p) < i + 6 \/ DOMAIN p[i + 1] # {"tool"} \/ DOMAIN p[i + 3] # {"open"} THEN Unreadably
  ELSE IF Closing(p, i) = {} \/ DOMAIN p[Min(Closing(p, i)) + 2] # {"json"} THEN Unreadably
  ELSE <<[name |-> p[i + 1].tool, description |-> SubSeq(p, i + 4, Min(Closing(p, i)) - 1),
          schema |-> p[Min(Closing(p, i)) + 2].json]>>
       \o f[Min(Closing(p, i)) + 3]

(* f reads the page from place m on. *)
Reads(f, p, m) == f = [i \in m..Len(p) |-> Read(f, p, i)]

(* What is read at a place depends on what is read after it, no more. *)
LEMMA ReadLocally ==
  ASSUME NEW p, Len(p) \in Nat, NEW i \in Nat \ {0}, NEW f, NEW g,
         \A j \in i + 1..Len(p) : f[j] = g[j]
  PROVE  Read(f, p, i) = Read(g, p, i)
<1> DEFINE C == Closing(p, i)
<1>1. C # {} => Min(C) + 3 \in i + 1..Len(p)
  <2> SUFFICES ASSUME C # {} PROVE Min(C) + 3 \in i + 1..Len(p)
    OBVIOUS
  <2>1. C \in SUBSET (i + 4..Len(p) - 3) /\ C \in SUBSET Nat
    BY DEF Closing
  <2> HIDE DEF C
  <2>2. Min(C) \in C
    BY <2>1, MinIs
  <2>3. Min(C) \in i + 4..Len(p) - 3
    BY <2>1, <2>2
  <2> QED
    BY <2>3
<1>2. C # {} => f[Min(C) + 3] = g[Min(C) + 3]
  <2> HIDE DEF C
  <2> QED
    BY <1>1
<1> QED
  BY <1>2 DEF Read

(* So there is a function that reads the page: a place is added to one     *)
(* that reads all later places.                                            *)
LEMMA ReadsExists ==
  ASSUME NEW p, Len(p) \in Nat
  PROVE  \E f : Reads(f, p, 1)
<1> DEFINE n == Len(p)
           T == {k \in Nat : k <= n /\ ~ \E f : Reads(f, p, n + 1 - k)}
<1>1. n \in Nat
  OBVIOUS
<1>2. ASSUME T # {} PROVE FALSE
  <2>1. PICK k \in T : \A j \in T : k <= j
    BY <1>2, LeastNat
  <2>2. CASE k = 0
    <3>1. n + 1 - k = n + 1 /\ (n + 1)..n = {}
      BY <1>1, <2>2
    <3> DEFINE e == [i \in {} |-> <<>>]
    <3>2. e = [i \in (n + 1)..n |-> Read(e, p, i)]
      BY <3>1
    <3> QED
      BY <2>1, <3>1, <3>2 DEF Reads
  <2>3. CASE k # 0
    <3>1. k \in Nat /\ k <= n /\ k - 1 \in Nat /\ k - 1 <= n /\ ~(k <= k - 1)
      BY <1>1, <2>3
    <3>2. k - 1 \notin T
      BY <2>1, <3>1
    <3> DEFINE m == n + 1 - k
    <3>3. m \in Nat \ {0} /\ m <= n /\ n + 1 - (k - 1) = m + 1
      BY <1>1, <3>1
    <3>4. PICK f : Reads(f, p, m + 1)
      BY <3>1, <3>2, <3>3
    <3> HIDE DEF m, T
    <3> DEFINE g == [i \in m..n |-> IF i = m THEN Read(f, p, i) ELSE f[i]]
    <3>5. \A i \in m + 1..n : i \in m..n /\ i # m /\ i \in Nat \ {0} /\ g[i] = f[i] /\ f[i] = Read(f, p, i)
      BY <1>1, <3>3, <3>4 DEF Reads
    <3>6. ASSUME NEW i \in m..n PROVE g[i] = Read(g, p, i)
      <4>1. i \in Nat \ {0} /\ \A j \in i + 1..n : j \in m + 1..n
        BY <1>1, <3>3
      <4>2. \A j \in i + 1..n : f[j] = g[j]
        BY <3>5, <4>1
      <4>3. Read(f, p, i) = Read(g, p, i)
        BY <1>1, <4>1, <4>2, ReadLocally
      <4>4. g[i] = Read(f, p, i)
        <5>1. CASE i = m
          BY <5>1
        <5>2. CASE i # m
          <6>1. i \in m + 1..n
            BY <1>1, <3>3, <5>2
          <6> QED
            BY <3>5, <6>1
        <5> QED
          BY <5>1, <5>2
      <4> QED
        BY <4>3, <4>4
    <3>7. g = [i \in m..n |-> g[i]]
      OBVIOUS
    <3>8. Reads(g, p, m)
      <4> HIDE DEF g
      <4> QED
        BY <3>6, <3>7 DEF Reads
    <3>9. k \notin T
      BY <3>8 DEF T, m
    <3> QED
      BY <2>1, <3>9
  <2> QED
    BY <2>2, <2>3
<1>3. n \notin T /\ n + 1 - n = 1
  BY <1>1, <1>2
<1> QED
  BY <1>1, <1>3

LEMMA ReadSectionsIs ==
  ASSUME NEW p, Len(p) \in Nat \ {0}
  PROVE  \E f : /\ ReadSections(p) = f[1]
                /\ \A i \in 1..Len(p) : f[i] = Read(f, p, i)
<1> DEFINE F == CHOOSE f : Reads(f, p, 1)
<1>1. Reads(F, p, 1)
  BY ReadsExists
<1>2. ReadSections(p) = F[1]
  BY DEF ReadSections, Reads, Read, Closing
<1> HIDE DEF F
<1>3. \A i \in 1..Len(p) : F[i] = Read(F, p, i)
  BY <1>1 DEF Reads
<1> QED
  BY <1>2, <1>3

-----------------------------------------------------------------------------
(* The lines of a text, and the fence around them.                         *)

(* Of a bounded set of naturals, one has k - 1 others before it.           *)
LEMMA PlaceTaken ==
  ASSUME NEW N \in Nat, NEW E \in SUBSET (0..N), NEW k \in 1..Cardinality(E)
  PROVE  \E i \in E : Cardinality({j \in E : j < i}) = k - 1
<1> DEFINE Good(D) == \A m \in 1..Cardinality(D) : \E i \in D : Cardinality({j \in D : j < i}) = m - 1
           T == {n \in Nat : \E D \in SUBSET (0..N) : Cardinality(D) = n /\ ~Good(D)}
<1>0. ASSUME NEW D \in SUBSET (0..N) PROVE IsFiniteSet(D) /\ Cardinality(D) \in Nat
  <2>1. IsFiniteSet(0..N)
    BY FS_Interval
  <2> QED
    BY <2>1, FS_Subset, FS_CardinalityType
<1>1. ASSUME T # {} PROVE FALSE
  <2>1. PICK n \in T : \A m \in T : n <= m
    BY <1>1, LeastNat
  <2>2. PICK D \in SUBSET (0..N) : Cardinality(D) = n /\ ~Good(D)
    BY <2>1
  <2>3. PICK m \in 1..Cardinality(D) : \A i \in D : Cardinality({j \in D : j < i}) # m - 1
    BY <2>2
  <2>4. n \in Nat \ {0} /\ D # {}
    BY <1>0, <2>2, <2>3, FS_EmptySet
  <2>5. PICK b \in D : \A i \in D : i <= b
    <3>1. D \in SUBSET Nat /\ \A i \in D : i <= N
      OBVIOUS
    <3> QED
      BY <2>4, <3>1, GreatestNat
  <2> DEFINE R == D \ {b}
  <2>6. Cardinality(R) = n - 1 /\ R \in SUBSET (0..N)
    BY <1>0, <2>2, <2>5, FS_RemoveElement
  <2>7. {j \in D : j < b} = R
    <3>1. b \in Int /\ \A j \in D : j \in Int
      OBVIOUS
    <3>2. \A j \in D : j < b <=> j # b
      BY <2>5, <3>1
    <3> QED
      BY <3>2
  <2>8. CASE m = n
    BY <2>3, <2>5, <2>6, <2>7, <2>8
  <2>9. CASE m # n
    <3>1. n - 1 \in Nat /\ n - 1 < n /\ m \in 1..n - 1
      BY <2>2, <2>4, <2>9
    <3>2. n - 1 \notin T
      <4> HIDE DEF T
      <4> QED
        BY <2>1, <2>4, <3>1
    <3>3. Good(R)
      BY <2>6, <3>1, <3>2
    <3>4. PICK i \in R : Cardinality({j \in R : j < i}) = m - 1
      BY <2>6, <3>1, <3>3
    <3>5. {j \in D : j < i} = {j \in R : j < i}
      BY <2>5
    <3> QED
      BY <2>3, <3>4, <3>5
  <2> QED
    BY <2>8, <2>9
<1>2. Cardinality(E) \in Nat
  BY <1>0
<1>3. Good(E)
  <2> HIDE DEF Good
  <2> QED
    BY <1>1, <1>2
<1> QED
  BY <1>3

(* A line of s is what lies between two ends of lines.                     *)
LEMMA LinesAre ==
  ASSUME NEW s \in Texts, NEW k \in 1..Len(Lines(s))
  PROVE  \E a \in Nat, b \in 0..Len(s) : Lines(s)[k] = [text |-> SubSeq(s, a + 1, b)]
<1> DEFINE ends == {i \in 1..Len(s) : s[i] = Newline} \cup {Len(s) + 1}
           End(m) == IF m = 0 THEN 0
                     ELSE CHOOSE i \in ends : Cardinality({j \in ends : j < i}) = m - 1
           n == Cardinality(ends)
           line(m) == [text |-> SubSeq(s, End(m - 1) + 1, End(m) - 1)]
<1>1. Len(s) \in Nat
  BY LenProperties DEF Texts
<1>2. IsFiniteSet(ends) /\ ends \in SUBSET (1..Len(s) + 1) /\ ends \in SUBSET (0..Len(s) + 1)
  <2>1. IsFiniteSet(1..Len(s) + 1)
    BY <1>1, FS_Interval
  <2>2. ends \in SUBSET (1..Len(s) + 1)
    BY <1>1
  <2>3. 1..Len(s) + 1 \subseteq 0..Len(s) + 1
    BY <1>1
  <2> HIDE DEF ends
  <2> QED
    BY <2>1, <2>2, <2>3, FS_Subset
<1>3. n \in Nat
  <2> HIDE DEF ends
  <2> QED
    BY <1>2, FS_CardinalityType
<1>4. Lines(s) = [m \in 1..n |-> line(m)]
  BY DEF Lines
<1>5. ASSUME NEW m \in 1..n PROVE End(m) \in 1..Len(s) + 1
  <2>1. \E i \in ends : Cardinality({j \in ends : j < i}) = m - 1
    <3> HIDE DEF ends
    <3> QED
      <4>1. Len(s) + 1 \in Nat
        BY <1>1
      <4> QED
        BY <1>2, <1>5, <4>1, PlaceTaken
  <2>2. m # 0
    BY <1>3
  <2>3. End(m) \in ends
    <3> HIDE DEF ends
    <3> QED
      BY <2>1, <2>2
  <2> HIDE DEF ends, End
  <2> QED
    BY <1>2, <2>3
<1>6. End(0) = 0
  OBVIOUS
<1> HIDE DEF ends, End, n
<1>7. k \in 1..n /\ Lines(s)[k] = [text |-> SubSeq(s, End(k - 1) + 1, End(k) - 1)]
  <2>1. Len(Lines(s)) = n
    BY <1>3, <1>4
  <2> QED
    BY <1>4, <2>1
<1>8. End(k) - 1 \in 0..Len(s)
  BY <1>1, <1>5, <1>7
<1>9. End(k - 1) \in Nat
  <2>1. CASE k = 1
    BY <1>6, <2>1
  <2>2. CASE k # 1
    <3>1. k - 1 \in 1..n
      BY <1>3, <1>7, <2>2
    <3> QED
      BY <1>1, <1>5, <3>1
  <2> QED
    BY <2>1, <2>2
<1> QED
  BY <1>7, <1>8, <1>9

LEMMA LongestIs ==
  ASSUME NEW s \in Texts
  PROVE  /\ Longest(s) \in Nat
         /\ \A a, b \in 1..Len(s) : (\A j \in a..b : s[j] = Backtick) => b - a + 1 <= Longest(s)
<1> DEFINE runs == {i \in (1..Len(s)) \X (1..Len(s)) : \A j \in i[1]..i[2] : s[j] = Backtick}
           L == {0} \cup {i[2] - i[1] + 1 : i \in runs}
           P == L \cap Nat
<1>1. Len(s) \in Nat
  BY LenProperties DEF Texts
<1>2. \A n \in L : n \in Int /\ n <= Len(s)
  BY <1>1
<1>3. PICK m \in P : \A n \in P : n <= m
  <2>1. P \in SUBSET Nat /\ P # {} /\ \A n \in P : n <= Len(s)
    BY <1>2
  <2> HIDE DEF P
  <2> QED
    BY <1>1, <2>1, GreatestNat
<1>4. m \in Nat /\ m \in L
  OBVIOUS
<1>5. \A n \in L : m >= n
  <2> SUFFICES ASSUME NEW n \in L PROVE m >= n
    OBVIOUS
  <2>1. CASE n \in Nat
    BY <1>3, <1>4, <2>1
  <2>2. CASE n \notin Nat
    BY <1>2, <1>4, <2>2
  <2> QED
    BY <2>1, <2>2
<1>6. Longest(s) = Max(L)
  BY DEF Longest
<1>7. Max(L) \in L /\ \A n \in L : Max(L) >= n
  <2> HIDE DEF L
  <2> QED
    BY <1>4, <1>5 DEF Max
<1>8. Max(L) = m
  <2> HIDE DEF L
  <2>1. Max(L) >= m /\ m >= Max(L) /\ Max(L) \in Int
    BY <1>2, <1>4, <1>5, <1>7
  <2> QED
    BY <1>4, <2>1
<1>9. ASSUME NEW a \in 1..Len(s), NEW b \in 1..Len(s), \A j \in a..b : s[j] = Backtick
      PROVE  b - a + 1 <= m
  <2>1. <<a, b>> \in runs
    BY <1>9
  <2>2. b - a + 1 \in L
    BY <2>1
  <2> HIDE DEF L
  <2> QED
    BY <1>2, <1>4, <1>5, <2>2
<1> QED
  BY <1>4, <1>6, <1>8, <1>9

LEMMA FenceIsLonger ==
  ASSUME NEW s \in Texts
  PROVE  FenceLength(s) \in Nat /\ FenceLength(s) >= 3 /\ FenceLength(s) > Longest(s)
<1> DEFINE l == Longest(s) + 1
           F == {3, l}
<1>1. l \in Nat /\ Longest(s) \in Nat
  BY LongestIs
<1>2. FenceLength(s) = Max(F)
  BY DEF FenceLength
<1> HIDE DEF l
<1>3. \E x \in F : \A y \in F : x >= y
  BY <1>1
<1>4. Max(F) \in F /\ \A y \in F : Max(F) >= y
  BY <1>3 DEF Max
<1>5. FenceLength(s) \in Nat /\ FenceLength(s) >= 3 /\ FenceLength(s) >= l
  BY <1>1, <1>2, <1>4
<1> QED
  BY <1>1, <1>5 DEF l

(* A line of a description is never taken for the end of its fence: one of *)
(* as many backticks would be a longer run than the longest.               *)
LEMMA NoLineCloses ==
  ASSUME NEW s \in Texts, NEW k \in 1..Len(Lines(s))
  PROVE  ~Closes(Lines(s)[k], FenceLength(s))
<1> DEFINE n == FenceLength(s)
<1>1. PICK a \in Nat, b \in 0..Len(s) : Lines(s)[k] = [text |-> SubSeq(s, a + 1, b)]
  BY LinesAre
<1> DEFINE t == SubSeq(s, a + 1, b)
<1>2. Len(s) \in Nat /\ \A i \in 1..Len(s) : s[i] \in Int
  BY LenProperties, ElementOfSeq DEF Texts
<1>3. n \in Nat /\ n >= 3 /\ n > Longest(s) /\ Longest(s) \in Nat
  BY FenceIsLonger, LongestIs
<1> HIDE DEF n
<1>4. ASSUME Closes(Lines(s)[k], n) PROVE FALSE
  <2>1. Lines(s)[k].text = t
    BY <1>1
  <2>2. Len(t) >= n /\ \A i \in 1..Len(t) : t[i] = Backtick
    BY <1>4, <2>1 DEF Closes
  <2>3. /\ Len(t) = IF a + 1 <= b THEN b - (a + 1) + 1 ELSE 0
        /\ \A i \in 1..b - (a + 1) + 1 : t[i] = s[a + 1 + i - 1]
    <3>1. \A i \in a + 1..b : s[i] \in Int
      BY <1>2
    <3> QED
      BY <1>2, <3>1, SubSeqProperties
  <2> HIDE DEF t
  <2>4. a + 1 <= b /\ Len(t) = b - a
    BY <1>2, <1>3, <2>2, <2>3
  <2>5. a + 1 \in 1..Len(s) /\ b \in 1..Len(s)
    BY <1>2, <2>4
  <2>6. ASSUME NEW j \in a + 1..b PROVE s[j] = Backtick
    <3>1. j - a \in 1..Len(t) /\ j - a \in 1..b - (a + 1) + 1 /\ a + 1 + (j - a) - 1 = j
      BY <1>2, <2>4
    <3> QED
      BY <2>2, <2>3, <3>1
  <2>7. b - (a + 1) + 1 <= Longest(s)
    BY <2>5, <2>6, LongestIs
  <2> QED
    BY <1>2, <1>3, <2>2, <2>4, <2>7
<1> QED
  BY <1>4 DEF n

LEMMA FenceCloses ==
  ASSUME NEW n \in Nat
  PROVE  Closes([text |-> [i \in 1..n |-> Backtick]], n)
BY DEF Closes

-----------------------------------------------------------------------------
(* The page, section by section.                                           *)

LEMMA ConcatAt ==
  ASSUME NEW s, NEW t, Sequence(s), Sequence(t)
  PROVE  /\ \A i \in 1..Len(s) : (s \o t)[i] = s[i]
         /\ \A i \in 1..Len(t) : (s \o t)[Len(s) + i] = t[i]
<1> DEFINE S == Range(s) \cup Range(t)
<1>1. s \in Seq(S) /\ t \in Seq(S)
  <2>1. Range(s) \subseteq S /\ Range(t) \subseteq S
    OBVIOUS
  <2> HIDE DEF S
  <2> QED
    BY <2>1, SeqMonotonic DEF Sequence
<1> HIDE DEF S
<1>2. Len(s) \in Nat /\ Len(t) \in Nat
  BY <1>1, LenProperties
<1>3. \A i \in 1..Len(s) + Len(t) : (s \o t)[i] = IF i <= Len(s) THEN s[i] ELSE t[i - Len(s)]
  BY <1>1, ConcatProperties
<1>4. ASSUME NEW i \in 1..Len(s) PROVE (s \o t)[i] = s[i]
  BY <1>2, <1>3
<1>5. ASSUME NEW i \in 1..Len(t) PROVE (s \o t)[Len(s) + i] = t[i]
  <2>1. Len(s) + i \in 1..Len(s) + Len(t) /\ ~(Len(s) + i <= Len(s)) /\ Len(s) + i - Len(s) = i
    BY <1>2
  <2> QED
    BY <1>3, <2>1
<1> QED
  BY <1>4, <1>5

LEMMA Singles ==
  ASSUME NEW x, NEW y, NEW z
  PROVE  /\ Sequence(<<x>>) /\ Len(<<x>>) = 1 /\ <<x>>[1] = x
         /\ Sequence(<<x, y>>) /\ Len(<<x, y>>) = 2 /\ <<x, y>>[1] = x /\ <<x, y>>[2] = y
         /\ Sequence(<<x, y, z>>) /\ Len(<<x, y, z>>) = 3
         /\ <<x, y, z>>[1] = x /\ <<x, y, z>>[2] = y /\ <<x, y, z>>[3] = z
<1>1. <<x>> \in Seq({x}) /\ <<x, y>> \in Seq({x, y}) /\ <<x, y, z>> \in Seq({x, y, z})
  OBVIOUS
<1> QED
  BY <1>1, SequenceOf

Enclosed(a, d, e) == <<a>> \o d \o <<e>>

LEMMA Fencing ==
  ASSUME NEW d, Sequence(d), NEW a, NEW e
  PROVE  LET f == Enclosed(a, d, e)
         IN  /\ Sequence(f) /\ Len(d) \in Nat /\ Len(f) = Len(d) + 2
             /\ f[1] = a /\ f[Len(d) + 2] = e /\ \A k \in 1..Len(d) : f[1 + k] = d[k]
<1>1. PICK u : u = <<a>>
  OBVIOUS
<1>2. PICK v : v = <<e>>
  OBVIOUS
<1>3. Sequence(u) /\ Len(u) = 1 /\ u[1] = a /\ Sequence(v) /\ Len(v) = 1 /\ v[1] = e
  BY <1>1, <1>2, Singles
<1>4. PICK g : g = u \o d
  OBVIOUS
<1>5. PICK f : f = g \o v
  OBVIOUS
<1>6. f = Enclosed(a, d, e)
  BY <1>1, <1>2, <1>4, <1>5 DEF Enclosed
<1>7. /\ Sequence(g) /\ Len(g) = Len(u) + Len(d) /\ Len(u) \in Nat /\ Len(d) \in Nat
      /\ \A i \in 1..Len(u) : g[i] = u[i]
      /\ \A i \in 1..Len(d) : g[Len(u) + i] = d[i]
  <2>1. Sequence(u) /\ Sequence(d)
    BY <1>3
  <2>2. Sequence(g) /\ Len(g) = Len(u) + Len(d)
    BY <1>4, <2>1, SequenceConcat
  <2>3. Len(u) \in Nat /\ Len(d) \in Nat
    BY <2>1, SequenceConcat
  <2>4. \A i \in 1..Len(u) : g[i] = u[i]
    BY <1>4, <2>1, ConcatAt
  <2>5. \A i \in 1..Len(d) : g[Len(u) + i] = d[i]
    BY <1>4, <2>1, ConcatAt
  <2> QED
    BY <2>2, <2>3, <2>4, <2>5
<1>8. /\ Sequence(f) /\ Len(f) = Len(g) + Len(v) /\ Len(g) \in Nat /\ Len(v) \in Nat
      /\ \A i \in 1..Len(g) : f[i] = g[i]
      /\ \A i \in 1..Len(v) : f[Len(g) + i] = v[i]
  <2>1. Sequence(g) /\ Sequence(v)
    BY <1>3, <1>7
  <2>2. Sequence(f) /\ Len(f) = Len(g) + Len(v)
    BY <1>5, <2>1, SequenceConcat
  <2>3. Len(g) \in Nat /\ Len(v) \in Nat
    BY <2>1, SequenceConcat
  <2>4. \A i \in 1..Len(g) : f[i] = g[i]
    BY <1>5, <2>1, ConcatAt
  <2>5. \A i \in 1..Len(v) : f[Len(g) + i] = v[i]
    BY <1>5, <2>1, ConcatAt
  <2> QED
    BY <2>2, <2>3, <2>4, <2>5
<1>9. Len(g) = Len(d) + 1 /\ Len(f) = Len(d) + 2
  BY <1>3, <1>7, <1>8
<1>10. f[1] = a
  <2>1. 1 \in 1..Len(g) /\ 1 \in 1..Len(u)
    BY <1>3, <1>7, <1>9
  <2> QED
    BY <1>3, <1>7, <1>8, <2>1
<1>11. f[Len(d) + 2] = e
  <2>1. Len(g) + 1 = Len(d) + 2 /\ 1 \in 1..Len(v)
    BY <1>3, <1>7, <1>9
  <2>2. f[Len(g) + 1] = v[1]
    BY <1>8, <2>1
  <2> QED
    BY <1>3, <2>1, <2>2
<1>12. ASSUME NEW k \in 1..Len(d) PROVE f[1 + k] = d[k]
  <2>1. 1 + k \in 1..Len(g) /\ Len(u) + k = 1 + k
    BY <1>3, <1>7, <1>9
  <2> QED
    BY <1>7, <1>8, <2>1
<1> QED
  BY <1>6, <1>7, <1>8, <1>9, <1>10, <1>11, <1>12

Headed(a, h, d, e) == <<a, h, a>> \o d \o <<a, e>>

LEMMA Heading ==
  ASSUME NEW d, Sequence(d), NEW a, NEW h, NEW e
  PROVE  LET f == Headed(a, h, d, e)
         IN  /\ Sequence(f) /\ Len(d) \in Nat /\ Len(f) = Len(d) + 5
             /\ f[2] = h /\ f[Len(d) + 5] = e /\ \A k \in 1..Len(d) : f[3 + k] = d[k]
<1>1. PICK u : u = <<a, h, a>>
  OBVIOUS
<1>2. PICK v : v = <<a, e>>
  OBVIOUS
<1>3. Sequence(u) /\ Len(u) = 3 /\ u[2] = h /\ Sequence(v) /\ Len(v) = 2 /\ v[2] = e
  BY <1>1, <1>2, Singles
<1>4. PICK g : g = u \o d
  OBVIOUS
<1>5. PICK f : f = g \o v
  OBVIOUS
<1>6. f = Headed(a, h, d, e)
  BY <1>1, <1>2, <1>4, <1>5 DEF Headed
<1>7. /\ Sequence(g) /\ Len(g) = Len(u) + Len(d) /\ Len(u) \in Nat /\ Len(d) \in Nat
      /\ \A i \in 1..Len(u) : g[i] = u[i]
      /\ \A i \in 1..Len(d) : g[Len(u) + i] = d[i]
  <2>1. Sequence(u) /\ Sequence(d)
    BY <1>3
  <2>2. Sequence(g) /\ Len(g) = Len(u) + Len(d)
    BY <1>4, <2>1, SequenceConcat
  <2>3. Len(u) \in Nat /\ Len(d) \in Nat
    BY <2>1, SequenceConcat
  <2>4. \A i \in 1..Len(u) : g[i] = u[i]
    BY <1>4, <2>1, ConcatAt
  <2>5. \A i \in 1..Len(d) : g[Len(u) + i] = d[i]
    BY <1>4, <2>1, ConcatAt
  <2> QED
    BY <2>2, <2>3, <2>4, <2>5
<1>8. /\ Sequence(f) /\ Len(f) = Len(g) + Len(v) /\ Len(g) \in Nat /\ Len(v) \in Nat
      /\ \A i \in 1..Len(g) : f[i] = g[i]
      /\ \A i \in 1..Len(v) : f[Len(g) + i] = v[i]
  <2>1. Sequence(g) /\ Sequence(v)
    BY <1>3, <1>7
  <2>2. Sequence(f) /\ Len(f) = Len(g) + Len(v)
    BY <1>5, <2>1, SequenceConcat
  <2>3. Len(g) \in Nat /\ Len(v) \in Nat
    BY <2>1, SequenceConcat
  <2>4. \A i \in 1..Len(g) : f[i] = g[i]
    BY <1>5, <2>1, ConcatAt
  <2>5. \A i \in 1..Len(v) : f[Len(g) + i] = v[i]
    BY <1>5, <2>1, ConcatAt
  <2> QED
    BY <2>2, <2>3, <2>4, <2>5
<1>9. Len(g) = Len(d) + 3 /\ Len(f) = Len(d) + 5
  BY <1>3, <1>7, <1>8
<1>10. f[2] = h
  <2>1. 2 \in 1..Len(g) /\ 2 \in 1..Len(u)
    BY <1>3, <1>7, <1>9
  <2> QED
    BY <1>3, <1>7, <1>8, <2>1
<1>11. f[Len(d) + 5] = e
  <2>1. Len(g) + 2 = Len(d) + 5 /\ 2 \in 1..Len(v)
    BY <1>3, <1>7, <1>9
  <2>2. f[Len(g) + 2] = v[2]
    BY <1>8, <2>1
  <2> QED
    BY <1>3, <2>1, <2>2
<1>12. ASSUME NEW k \in 1..Len(d) PROVE f[3 + k] = d[k]
  <2>1. 3 + k \in 1..Len(g) /\ Len(u) + k = 3 + k
    BY <1>3, <1>7, <1>9
  <2> QED
    BY <1>7, <1>8, <2>1
<1> QED
  BY <1>6, <1>7, <1>8, <1>9, <1>10, <1>11, <1>12

(* A section holds the name, the fenced lines and the schema, in places    *)
(* that depend on the number of lines only.                                *)
LEMMA SectionIs ==
  ASSUME NEW t, t.description \in Texts
  PROVE  LET s == Section(t)
             d == Lines(t.description)
             n == FenceLength(t.description)
         IN  /\ Sequence(s) /\ Sequence(d) /\ Len(d) \in Nat /\ Len(s) = Len(d) + 7
             /\ s[2] = [tool |-> t.name] /\ s[4] = [open |-> n]
             /\ \A k \in 1..Len(d) : s[4 + k] = d[k]
             /\ s[5 + Len(d)] = [text |-> [i \in 1..n |-> Backtick]]
             /\ s[7 + Len(d)] = [json |-> t.schema]
<1>1. PICK d : d = Lines(t.description)
  OBVIOUS
<1>2. PICK n : n = FenceLength(t.description)
  OBVIOUS
<1>3. PICK a : a = [open |-> n]
  OBVIOUS
<1>4. PICK e : e = [text |-> [i \in 1..n |-> Backtick]]
  OBVIOUS
<1>5. PICK h : h = [tool |-> t.name]
  OBVIOUS
<1>6. PICK j : j = [json |-> t.schema]
  OBVIOUS
<1>7. PICK f : f = <<a>> \o d \o <<e>>
  OBVIOUS
<1>8. PICK s : s = <<Blank, h, Blank>> \o f \o <<Blank, j>>
  OBVIOUS
<1>9. f = fenced(t.description)
  BY <1>1, <1>2, <1>3, <1>4, <1>7 DEF fenced
<1>10. s = Section(t)
  BY <1>5, <1>6, <1>8, <1>9 DEF Section
<1>11. Sequence(d)
  BY <1>1, LinesType
<1>12. /\ Sequence(f) /\ Len(d) \in Nat /\ Len(f) = Len(d) + 2
       /\ f[1] = a /\ f[Len(d) + 2] = e /\ \A k \in 1..Len(d) : f[1 + k] = d[k]
  <2>0. f = Enclosed(a, d, e)
    BY <1>7 DEF Enclosed
  <2>1. Sequence(f) /\ Len(d) \in Nat /\ Len(f) = Len(d) + 2
    BY <1>11, <2>0, Fencing
  <2>2. f[1] = a /\ f[Len(d) + 2] = e
    BY <1>11, <2>0, Fencing
  <2>3. \A k \in 1..Len(d) : f[1 + k] = d[k]
    BY <1>11, <2>0, Fencing
  <2> QED
    BY <2>1, <2>2, <2>3
<1>13. /\ Sequence(s) /\ Len(s) = Len(f) + 5
       /\ s[2] = h /\ s[Len(f) + 5] = j /\ \A k \in 1..Len(f) : s[3 + k] = f[k]
  <2>0. Sequence(f) /\ s = Headed(Blank, h, f, j)
    BY <1>8, <1>12 DEF Headed
  <2>1. Sequence(s) /\ Len(s) = Len(f) + 5
    BY <2>0, Heading
  <2>2. s[2] = h /\ s[Len(f) + 5] = j
    BY <2>0, Heading
  <2>3. \A k \in 1..Len(f) : s[3 + k] = f[k]
    BY <2>0, Heading
  <2> QED
    BY <2>1, <2>2, <2>3
<1>14. s[4] = a
  <2>1. 1 \in 1..Len(f) /\ 3 + 1 = 4
    BY <1>12
  <2> QED
    BY <1>12, <1>13, <2>1
<1>15. s[5 + Len(d)] = e
  <2>1. Len(d) + 2 \in 1..Len(f) /\ 3 + (Len(d) + 2) = 5 + Len(d)
    BY <1>12
  <2> QED
    BY <1>12, <1>13, <2>1
<1>16. s[7 + Len(d)] = j /\ Len(s) = Len(d) + 7
  <2>1. Len(f) + 5 = 7 + Len(d) /\ Len(f) + 5 = Len(d) + 7
    BY <1>12
  <2> QED
    BY <1>13, <2>1
<1>17. ASSUME NEW k \in 1..Len(d) PROVE s[4 + k] = d[k]
  <2>1. 1 + k \in 1..Len(f) /\ 3 + (1 + k) = 4 + k
    BY <1>12
  <2> QED
    BY <1>12, <1>13, <2>1
<1>18. Len(d) \in Nat
  BY <1>12
<1> QED
  BY <1>1, <1>2, <1>3, <1>4, <1>5, <1>6, <1>10, <1>11, <1>13, <1>14, <1>15, <1>16, <1>17, <1>18

(* A section that follows place i - 1 of a page is read as its tool.       *)
LEMMA ReadOne ==
  ASSUME NEW p, Sequence(p), NEW f, \A i \in 1..Len(p) : f[i] = Read(f, p, i),
         NEW t, t.description \in Texts,
         NEW i \in Nat \ {0}, i + Len(Section(t)) <= Len(p),
         \A k \in 1..Len(Section(t)) : p[i - 1 + k] = Section(t)[k]
  PROVE  f[i] = <<Listed(t)>> \o f[i + Len(Section(t))]
<1> DEFINE s == Section(t)
           d == Lines(t.description)
           m == Len(d)
           n == FenceLength(t.description)
           N == Len(p)
           C == Closing(p, i)
<1>1. /\ Sequence(d) /\ m \in Nat /\ Len(s) = m + 7
      /\ s[2] = [tool |-> t.name] /\ s[4] = [open |-> n]
      /\ \A k \in 1..m : s[4 + k] = d[k]
      /\ s[5 + m] = [text |-> [j \in 1..n |-> Backtick]]
      /\ s[7 + m] = [json |-> t.schema]
  BY SectionIs
<1>0. m \in Nat
  BY <1>1
<1>2. N \in Nat /\ i + m + 7 <= N /\ n \in Nat
  BY <1>1, LenProperties, FenceIsLonger DEF Sequence
<1>3. \A k \in 1..m + 7 : p[i - 1 + k] = s[k]
  BY <1>1
<1>4. /\ p[i + 1] = [tool |-> t.name] /\ p[i + 3] = [open |-> n]
      /\ p[i + 4 + m] = [text |-> [j \in 1..n |-> Backtick]]
      /\ p[i + 6 + m] = [json |-> t.schema]
      /\ \A k \in 1..m : p[i + 3 + k] = d[k]
  <2> HIDE DEF s, d, m, n
  <2>1. /\ i - 1 + 2 = i + 1 /\ i - 1 + 4 = i + 3 /\ i - 1 + (5 + m) = i + 4 + m /\ i - 1 + (7 + m) = i + 6 + m
        /\ 2 \in 1..m + 7 /\ 4 \in 1..m + 7 /\ 5 + m \in 1..m + 7 /\ 7 + m \in 1..m + 7
    BY <1>0
  <2>2. ASSUME NEW k \in 1..m PROVE p[i + 3 + k] = d[k]
    <3>1. 4 + k \in 1..m + 7 /\ i - 1 + (4 + k) = i + 3 + k
      BY <1>0
    <3> QED
      BY <1>1, <1>3, <3>1
  <2> QED
    BY <1>1, <1>3, <2>1, <2>2
<1>5. p[i + 3].open = n
  BY <1>4
<1>6. Closes(p[i + 4 + m], n)
  BY <1>2, <1>4, FenceCloses
<1>7. \A k \in 1..m : ~Closes(p[i + 3 + k], n)
  BY <1>4, NoLineCloses
<1> HIDE DEF s, d, m, n
<1>8. C = {j \in i + 4..N - 3 : Closes(p[j], n)}
  BY <1>5 DEF Closing
<1> HIDE DEF C
<1>9. i + 4 + m \in C
  BY <1>1, <1>2, <1>6, <1>8
<1>10. \A j \in C : i + 4 + m <= j
  <2> SUFFICES ASSUME NEW j \in C, ~(i + 4 + m <= j) PROVE FALSE
    OBVIOUS
  <2>1. j \in i + 4..N - 3 /\ Closes(p[j], n)
    BY <1>8
  <2>2. j - i - 3 \in 1..m /\ i + 3 + (j - i - 3) = j
    BY <1>1, <1>2, <2>1
  <2> QED
    BY <1>7, <2>1, <2>2
<1>11. Min(C) = i + 4 + m
  <2>1. C \in SUBSET Nat /\ C # {}
    BY <1>2, <1>8, <1>9
  <2>2. Min(C) \in C /\ Min(C) \in Nat /\ Min(C) <= i + 4 + m
    BY <1>9, <2>1, MinIs
  <2>3. i + 4 + m <= Min(C)
    BY <1>10, <2>2
  <2> DEFINE c == Min(C)
  <2>4. c \in Nat /\ c <= i + 4 + m /\ i + 4 + m <= c
    BY <2>2, <2>3
  <2> HIDE DEF c
  <2>5. c = i + 4 + m
    BY <1>0, <2>4
  <2> QED
    BY <2>5 DEF c
<1>12. SubSeq(p, i + 4, i + 4 + m - 1) = d
  <2> DEFINE S == Range(p)
             v == SubSeq(p, i + 4, i + 4 + m - 1)
  <2>1. \A j \in 1..N : p[j] \in S
    BY LenProperties DEF Sequence, Range
  <2>2. \A j \in i + 4..i + 4 + m - 1 : p[j] \in S
    <3>1. \A j \in i + 4..i + 4 + m - 1 : j \in 1..N
      BY <1>0, <1>2
    <3> HIDE DEF S
    <3> QED
      BY <2>1, <3>1
  <2> HIDE DEF S
  <2>3. /\ v \in Seq(S) /\ Len(v) = (IF i + 4 <= i + 4 + m - 1 THEN i + 4 + m - 1 - (i + 4) + 1 ELSE 0)
        /\ \A j \in 1..i + 4 + m - 1 - (i + 4) + 1 : v[j] = p[i + 4 + j - 1]
    BY <1>1, <2>2, SubSeqProperties
  <2> HIDE DEF v
  <2>4. Len(v) = m
    BY <1>1, <2>3
  <2>5. ASSUME NEW j \in 1..m PROVE v[j] = d[j]
    <3>1. j \in 1..i + 4 + m - 1 - (i + 4) + 1 /\ i + 4 + j - 1 = i + 3 + j
      BY <1>0
    <3> QED
      BY <1>4, <2>3, <3>1
  <2>6. v \in Seq(Range(v)) /\ d \in Seq(Range(d)) /\ Len(d) = m
    <3>1. Sequence(v)
      BY <2>3, SequenceOf
    <3> QED
      BY <1>1, <3>1 DEF Sequence, m
  <2>7. v = d
    BY <2>4, <2>5, <2>6, SeqEqual
  <2> QED
    BY <2>7 DEF v
<1>13. f[i] = Read(f, p, i)
  BY <1>1, <1>2
<1>14. ~(i = N) /\ ~(N < i + 6) /\ C # {}
  BY <1>1, <1>2, <1>9
<1>15. DOMAIN p[i + 1] = {"tool"} /\ DOMAIN p[i + 3] = {"open"} /\ DOMAIN p[i + 6 + m] = {"json"}
  BY <1>4
<1>16. Min(C) + 2 = i + 6 + m /\ Min(C) - 1 = i + 4 + m - 1 /\ Min(C) + 3 = i + Len(s)
  <2> DEFINE c == Min(C)
             l == Len(s)
  <2>1. c = i + 4 + m /\ l = m + 7
    BY <1>1, <1>11
  <2> HIDE DEF c, l
  <2>2. c + 2 = i + 6 + m /\ c - 1 = i + 4 + m - 1 /\ c + 3 = i + l
    <3>1. \A x, y \in Nat : x + 4 + y + 2 = x + 6 + y /\ x + 4 + y + 3 = x + (y + 7)
      OBVIOUS
    <3>2. i \in Nat
      OBVIOUS
    <3> QED
      BY <1>0, <2>1, <3>1, <3>2
  <2> QED
    BY <2>2 DEF c, l
<1>17. f[i] = <<[name |-> p[i + 1].tool, description |-> d, schema |-> p[i + 6 + m].json]>> \o f[i + Len(s)]
  BY <1>12, <1>13, <1>14, <1>15, <1>16 DEF Read, C
<1>18. [name |-> p[i + 1].tool, description |-> d, schema |-> p[i + 6 + m].json] = Listed(t)
  BY <1>4 DEF Listed, d
<1> QED
  BY <1>17, <1>18 DEF s

(* Where each part of FlattenSeq(s) begins: part k lies after place        *)
(* off[k - 1].                                                             *)
Offsets(off, s, flat) ==
  /\ off \in [0..Len(s) -> Nat]
  /\ off[0] = 0 /\ off[Len(s)] = Len(flat)
  /\ \A k \in 1..Len(s) : off[k] = off[k - 1] + Len(s[k])
  /\ \A k \in 0..Len(s) : off[k] <= Len(flat)
  /\ \A k \in 1..Len(s) : \A j \in 1..Len(s[k]) : flat[off[k - 1] + j] = s[k][j]

LEMMA OffsetsOfOneMore ==
  ASSUME NEW S, NEW r \in Seq(Seq(S)), NEW x \in Seq(S), NEW off, Offsets(off, r, FlattenSeq(r))
  PROVE  \E o : Offsets(o, Append(r, x), FlattenSeq(Append(r, x)))
<1> DEFINE n == Len(r)
           s == Append(r, x)
           flat == FlattenSeq(r)
           o == [k \in 0..n + 1 |-> IF k = n + 1 THEN Len(flat) + Len(x) ELSE off[k]]
<1>1. n \in Nat /\ Len(s) = n + 1 /\ s[n + 1] = x /\ \A k \in 1..n : s[k] = r[k] /\ Len(r[k]) \in Nat
  BY LenProperties, AppendProperties, ElementOfSeq
<1>2. FlattenSeq(s) = flat \o x
  BY FlattenStep
<1>3. flat \in Seq(S)
  BY FlattenType
<1>4. /\ off \in [0..n -> Nat] /\ off[0] = 0 /\ off[n] = Len(flat)
      /\ \A k \in 1..n : off[k] = off[k - 1] + Len(r[k])
      /\ \A k \in 0..n : off[k] <= Len(flat)
      /\ \A k \in 1..n : \A j \in 1..Len(r[k]) : flat[off[k - 1] + j] = r[k][j]
  BY DEF Offsets
<1>5. Len(flat) \in Nat /\ Len(x) \in Nat /\ Len(flat \o x) = Len(flat) + Len(x)
  BY <1>3, LenProperties, ConcatProperties
<1>6. Sequence(flat) /\ Sequence(x)
  BY <1>3, SequenceOf
<1>7. /\ \A i \in 1..Len(flat) : (flat \o x)[i] = flat[i]
      /\ \A i \in 1..Len(x) : (flat \o x)[Len(flat) + i] = x[i]
  BY <1>6, ConcatAt
<1> HIDE DEF s, flat, n
<1>8. \A k \in 0..n : off[k] \in Nat /\ k # n + 1 /\ k \in 0..n + 1 /\ o[k] = off[k]
  BY <1>1, <1>4
<1>9. o[n + 1] = Len(flat) + Len(x)
  BY <1>1
<1>10. o \in [0..n + 1 -> Nat]
  <2>1. \A k \in 0..n + 1 : k = n + 1 \/ k \in 0..n
    BY <1>1
  <2>2. o = [k \in 0..n + 1 |-> o[k]]
    OBVIOUS
  <2> HIDE DEF o
  <2>3. \A k \in 0..n + 1 : o[k] \in Nat
    BY <1>5, <1>8, <1>9, <2>1
  <2> QED
    BY <2>2, <2>3
<1> HIDE DEF o
<1>11. o[0] = 0
  <2>1. 0 \in 0..n
    BY <1>1
  <2> QED
    BY <1>4, <1>8, <2>1
<1>12. ASSUME NEW k \in 1..n + 1 PROVE o[k] = o[k - 1] + Len(s[k])
  <2>1. CASE k = n + 1
    <3>1. k - 1 = n /\ n \in 0..n
      BY <1>1, <2>1
    <3>2. o[k - 1] = Len(flat)
      BY <1>4, <1>8, <3>1
    <3> QED
      BY <1>1, <1>9, <2>1, <3>2
  <2>2. CASE k # n + 1
    <3>1. k \in 1..n /\ k \in 0..n /\ k - 1 \in 0..n
      BY <1>1, <2>2
    <3> QED
      BY <1>1, <1>4, <1>8, <3>1
  <2> QED
    BY <2>1, <2>2
<1>13. ASSUME NEW k \in 0..n + 1 PROVE o[k] <= Len(flat) + Len(x)
  <2>1. CASE k = n + 1
    BY <1>5, <1>9, <2>1
  <2>2. CASE k # n + 1
    <3>1. k \in 0..n
      BY <1>1, <2>2
    <3>2. off[k] <= Len(flat) /\ off[k] \in Nat /\ o[k] = off[k]
      BY <1>4, <1>8, <3>1
    <3> QED
      BY <1>5, <3>2
  <2> QED
    BY <2>1, <2>2
<1>14. ASSUME NEW k \in 1..n + 1, NEW j \in 1..Len(s[k])
       PROVE  (flat \o x)[o[k - 1] + j] = s[k][j]
  <2>1. CASE k = n + 1
    <3>1. k - 1 = n /\ n \in 0..n
      BY <1>1, <2>1
    <3>2. o[k - 1] = Len(flat)
      BY <1>4, <1>8, <3>1
    <3>3. s[k] = x
      BY <1>1, <2>1
    <3> QED
      BY <1>7, <3>2, <3>3
  <2>2. CASE k # n + 1
    <3>1. k \in 1..n /\ k \in 0..n /\ k - 1 \in 0..n
      BY <1>1, <2>2
    <3>2. s[k] = r[k] /\ Len(r[k]) \in Nat /\ o[k - 1] = off[k - 1] /\ off[k - 1] \in Nat
      BY <1>1, <1>8, <3>1
    <3>3. flat[off[k - 1] + j] = r[k][j]
      BY <1>4, <3>1, <3>2
    <3>4. off[k - 1] + j \in 1..Len(flat)
      <4>1. off[k] = off[k - 1] + Len(r[k]) /\ off[k] <= Len(flat) /\ j \in 1..Len(r[k])
        BY <1>4, <3>1, <3>2
      <4> HIDE <1>12, <1>13, <1>14
      <4> QED
        BY <1>5, <3>2, <4>1
    <3> QED
      BY <1>7, <3>2, <3>3, <3>4
  <2> QED
    BY <2>1, <2>2
<1>15. o \in [0..Len(s) -> Nat] /\ o[0] = 0 /\ o[Len(s)] = Len(FlattenSeq(s))
  BY <1>1, <1>2, <1>5, <1>9, <1>10, <1>11
<1>16. /\ \A k \in 1..Len(s) : o[k] = o[k - 1] + Len(s[k])
       /\ \A k \in 0..Len(s) : o[k] <= Len(FlattenSeq(s))
       /\ \A k \in 1..Len(s) : \A j \in 1..Len(s[k]) : FlattenSeq(s)[o[k - 1] + j] = s[k][j]
  BY <1>1, <1>2, <1>5, <1>12, <1>13, <1>14
<1>17. Offsets(o, s, FlattenSeq(s))
  BY <1>15, <1>16 DEF Offsets
<1> QED
  BY <1>17 DEF s

LEMMA OffsetsExist ==
  ASSUME NEW S, NEW s \in Seq(Seq(S))
  PROVE  \E off : Offsets(off, s, FlattenSeq(s))
<1> DEFINE Good(u) == \E off : Offsets(off, u, FlattenSeq(u))
           T == {n \in Nat : \E u \in Seq(Seq(S)) : Len(u) = n /\ ~Good(u)}
<1>1. ASSUME T # {} PROVE FALSE
  <2>1. PICK n \in T : \A m \in T : n <= m
    BY <1>1, LeastNat
  <2>2. PICK u \in Seq(Seq(S)) : Len(u) = n /\ ~Good(u)
    BY <2>1
  <2>3. CASE u = <<>>
    <3> DEFINE o == [k \in 0..0 |-> 0]
    <3>1. Offsets(o, <<>>, <<>>)
      BY DEF Offsets
    <3>2. Good(u)
      BY <2>3, <3>1, FlattenEmpty
    <3> QED
      BY <2>2, <3>2
  <2>4. CASE u # <<>>
    <3>1. PICK r \in Seq(Seq(S)), x \in Seq(S) : u = Append(r, x)
      BY <2>4, SequenceEmptyOrAppend
    <3>2. Len(r) \in Nat /\ n = Len(r) + 1
      BY <2>2, <3>1, AppendProperties
    <3>3. Len(r) \notin T
      <4> HIDE DEF T
      <4> QED
        BY <2>1, <3>2
    <3>4. Good(r)
      BY <3>2, <3>3
    <3>5. Good(u)
      BY <3>1, <3>4, OffsetsOfOneMore
    <3> QED
      BY <2>2, <3>5
  <2> QED
    BY <2>3, <2>4
<1>2. Len(s) \in Nat
  BY LenProperties
<1> QED
  BY <1>1, <1>2

LEMMA OneMoreListed ==
  ASSUME NEW w, NEW n \in Nat, NEW k \in 1..n, NEW L,
         L = <<Listed(w[k])>> \o [i \in 1..n - k |-> Listed(w[k + i])]
  PROVE  L = [i \in 1..n - (k - 1) |-> Listed(w[k - 1 + i])]
<1> DEFINE x == Listed(w[k])
           a == <<x>>
           b == [i \in 1..n - k |-> Listed(w[k + i])]
           c == [i \in 1..n - (k - 1) |-> Listed(w[k - 1 + i])]
           S == {Listed(w[i]) : i \in 1..n}
<1>1. Listed(w[k]) \in S /\ n - k \in Nat /\ n - (k - 1) \in Nat /\ n - (k - 1) = n - k + 1
  OBVIOUS
<1>2. \A i \in 1..n - k : Listed(w[k + i]) \in S
  <2>1. \A i \in 1..n - k : k + i \in 1..n
    OBVIOUS
  <2> QED
    BY <2>1
<1>3. \A i \in 1..n - (k - 1) : Listed(w[k - 1 + i]) \in S
  <2>1. \A i \in 1..n - (k - 1) : k - 1 + i \in 1..n
    OBVIOUS
  <2> QED
    BY <2>1
<1> HIDE DEF S
<1>4. b \in Seq(S) /\ Len(b) = n - k /\ \A i \in 1..n - k : b[i] = Listed(w[k + i])
  <2>1. b \in [1..n - k -> S]
    BY <1>2
  <2>2. Len(b) = n - k /\ \A i \in 1..n - k : b[i] = Listed(w[k + i])
    BY <1>1
  <2> HIDE DEF b
  <2>3. b \in Seq(S)
    BY <1>1, <2>1
  <2> QED
    BY <2>2, <2>3
<1>5. c \in Seq(S) /\ Len(c) = n - (k - 1) /\ \A i \in 1..n - (k - 1) : c[i] = Listed(w[k - 1 + i])
  <2>1. c \in [1..n - (k - 1) -> S]
    BY <1>3
  <2>2. Len(c) = n - (k - 1) /\ \A i \in 1..n - (k - 1) : c[i] = Listed(w[k - 1 + i])
    BY <1>1
  <2> HIDE DEF c
  <2>3. c \in Seq(S)
    BY <1>1, <2>1
  <2> QED
    BY <2>2, <2>3
<1> HIDE DEF b, c
<1>6. a \in Seq(S) /\ Len(a) = 1 /\ a[1] = Listed(w[k])
  BY <1>1
<1> HIDE DEF a, x
<1>7. /\ a \o b \in Seq(S) /\ Len(a \o b) = Len(a) + Len(b)
      /\ \A i \in 1..Len(a) + Len(b) : (a \o b)[i] = IF i <= Len(a) THEN a[i] ELSE b[i - Len(a)]
  BY <1>4, <1>6, ConcatProperties
<1>8. Len(a \o b) = Len(c)
  BY <1>1, <1>4, <1>5, <1>6, <1>7
<1>9. ASSUME NEW i \in 1..Len(a \o b) PROVE (a \o b)[i] = c[i]
  <2>0. i \in 1..n - k + 1
    BY <1>4, <1>6, <1>7
  <2>1. CASE i = 1
    <3>1. (a \o b)[1] = a[1] /\ c[1] = Listed(w[k - 1 + 1]) /\ k - 1 + 1 = k
      BY <1>1, <1>4, <1>5, <1>6, <1>7
    <3> QED
      BY <1>6, <2>1, <3>1
  <2>2. CASE i # 1
    <3>1. i - 1 \in 1..n - k /\ k + (i - 1) = k - 1 + i /\ ~(i <= 1) /\ i \in 1..n - (k - 1)
      BY <1>1, <2>0, <2>2
    <3>2. (a \o b)[i] = b[i - 1]
      BY <1>4, <1>6, <1>7, <2>0, <3>1
    <3> QED
      BY <1>4, <1>5, <3>1, <3>2
  <2> QED
    BY <2>1, <2>2
<1>10. a \o b = c
  BY <1>5, <1>7, <1>8, <1>9, SeqEqual
<1>11. L = a \o b
  BY DEF a, b, x
<1> QED
  BY <1>10, <1>11 DEF c

(* What is read from the sections of tools, and the line after them, are   *)
(* these tools.                                                            *)
LEMMA ReadAll ==
  ASSUME NEW n \in Nat, NEW w, \A i \in 1..n : w[i].description \in Texts
  PROVE  ReadSections(FlattenSeq([i \in 1..n |-> Section(w[i])]) \o <<Blank>>) = [i \in 1..n |-> Listed(w[i])]
<1> DEFINE s == [i \in 1..n |-> Section(w[i])]
           S == UNION {Range(s[i]) : i \in 1..n}
           flat == FlattenSeq(s)
           p == flat \o <<Blank>>
<1>1. \A i \in 1..n : s[i] \in Seq(S)
  <2> SUFFICES ASSUME NEW i \in 1..n PROVE s[i] \in Seq(S)
    OBVIOUS
  <2>1. Range(s[i]) \subseteq S
    OBVIOUS
  <2>2. Sequence(s[i])
    BY SectionType
  <2> HIDE DEF S, s
  <2> QED
    BY <2>1, <2>2, SeqMonotonic DEF Sequence
<1> HIDE DEF S
<1>2. s \in Seq(Seq(S)) /\ Len(s) = n /\ \A i \in 1..n : s[i] = Section(w[i])
  <2>1. Len(s) = n /\ \A i \in 1..n : s[i] = Section(w[i])
    OBVIOUS
  <2>2. s = [i \in 1..n |-> s[i]]
    OBVIOUS
  <2> HIDE DEF s
  <2>3. s \in [1..n -> Seq(S)]
    BY <1>1, <2>2
  <2> QED
    BY <2>1, <2>3
<1> HIDE DEF s
<1>3. flat \in Seq(S)
  BY <1>2, FlattenType
<1>4. Sequence(flat) /\ Len(flat) \in Nat
  BY <1>3, SequenceOf, LenProperties
<1>5. PICK off : Offsets(off, s, flat)
  BY <1>2, OffsetsExist
<1>6. /\ off \in [0..n -> Nat] /\ off[0] = 0 /\ off[n] = Len(flat)
      /\ \A k \in 1..n : off[k] = off[k - 1] + Len(s[k])
      /\ \A k \in 0..n : off[k] <= Len(flat)
      /\ \A k \in 1..n : \A j \in 1..Len(s[k]) : flat[off[k - 1] + j] = s[k][j]
  BY <1>2, <1>5 DEF Offsets
<1> HIDE DEF flat
<1>7. /\ Sequence(p) /\ Len(p) = Len(flat) + 1
      /\ \A i \in 1..Len(flat) : p[i] = flat[i]
      /\ p[Len(flat) + 1] = Blank
  <2>1. PICK v : v = <<Blank>>
    OBVIOUS
  <2>2. Sequence(v) /\ Len(v) = 1 /\ v[1] = Blank
    BY <2>1, Singles
  <2>3. p = flat \o v
    BY <2>1
  <2> HIDE DEF p
  <2>4. Sequence(p) /\ Len(p) = Len(flat) + Len(v)
    BY <1>4, <2>2, <2>3, SequenceConcat
  <2>0. Sequence(flat) /\ Sequence(v)
    BY <1>4, <2>2
  <2>5. \A i \in 1..Len(flat) : p[i] = flat[i]
    BY <2>0, <2>3, ConcatAt
  <2>6. \A i \in 1..Len(v) : p[Len(flat) + i] = v[i]
    BY <2>0, <2>3, ConcatAt
  <2> QED
    BY <2>2, <2>4, <2>5, <2>6
<1> HIDE DEF p
<1>8. PICK f : ReadSections(p) = f[1] /\ \A i \in 1..Len(p) : f[i] = Read(f, p, i)
  <2>1. Len(p) \in Nat \ {0}
    BY <1>4, <1>7
  <2> QED
    BY <2>1, ReadSectionsIs
<1> DEFINE Rest(k) == [i \in 1..n - k |-> Listed(w[k + i])]
           T == {m \in 0..n : f[off[n - m] + 1] # Rest(n - m)}
<1>9. ASSUME T # {} PROVE FALSE
  <2>1. T \in SUBSET Nat
    OBVIOUS
  <2>2. PICK m \in T : \A l \in T : m <= l
    <3> HIDE DEF T
    <3> QED
      BY <1>9, <2>1, LeastNat
  <2>3. m \in 0..n /\ f[off[n - m] + 1] # Rest(n - m)
    OBVIOUS
  <2>4. \A l \in 0..n : ~(m <= l) => f[off[n - l] + 1] = Rest(n - l)
    BY <2>2
  <2> HIDE DEF T, Rest
  <2>5. CASE m = 0
    <3>1. off[n - m] + 1 = Len(flat) + 1 /\ n - m = n
      BY <1>6, <2>5
    <3>2. f[Len(flat) + 1] = Read(f, p, Len(flat) + 1)
      BY <1>4, <1>7, <1>8
    <3>3. Read(f, p, Len(flat) + 1) = <<>>
      BY <1>7 DEF Read
    <3>4. Rest(n) = <<>>
      BY DEF Rest
    <3> QED
      BY <2>3, <3>1, <3>2, <3>3, <3>4
  <2>6. CASE m # 0
    <3> DEFINE k == n - m + 1
    <3>1. k \in 1..n /\ k \in 0..n /\ k - 1 \in 0..n /\ n - m = k - 1 /\ m - 1 \in 0..n /\ ~(m <= m - 1) /\ n - (m - 1) = k
      BY <2>3, <2>6
    <3> HIDE DEF k
    <3>2. f[off[k] + 1] = Rest(k)
      BY <2>4, <3>1
    <3> DEFINE t == w[k]
               i == off[k - 1] + 1
    <3>3. t.description \in Texts /\ s[k] = Section(t)
      BY <1>2, <3>1
    <3>4. Sequence(Section(t)) /\ Len(Section(t)) \in Nat
      <4>1. Sequence(Section(t))
        BY <3>3, SectionType
      <4> QED
        BY <4>1, LenProperties DEF Sequence
    <3>5. off[k - 1] \in Nat /\ off[k] \in Nat /\ off[k] = off[k - 1] + Len(Section(t)) /\ off[k] <= Len(flat)
      BY <1>6, <3>1, <3>3
    <3>6. \A j \in 1..Len(Section(t)) : flat[off[k - 1] + j] = Section(t)[j]
      BY <1>6, <3>1, <3>3
    <3> HIDE DEF t
    <3>7. i \in Nat \ {0} /\ i + Len(Section(t)) = off[k] + 1 /\ i + Len(Section(t)) <= Len(p)
      BY <1>4, <1>7, <3>4, <3>5
    <3>8. ASSUME NEW j \in 1..Len(Section(t)) PROVE p[i - 1 + j] = Section(t)[j]
      <4>1. i - 1 + j = off[k - 1] + j /\ off[k - 1] + j \in 1..Len(flat)
        BY <1>4, <3>4, <3>5
      <4> QED
        BY <1>7, <3>6, <4>1
    <3> HIDE DEF i
    <3>9. f[i] = <<Listed(t)>> \o f[i + Len(Section(t))]
      <4>1. Sequence(p) /\ t.description \in Texts
        BY <1>7, <3>3
      <4>2. \A j \in 1..Len(p) : f[j] = Read(f, p, j)
        BY <1>8
      <4> QED
        BY <4>1, <4>2, <3>7, <3>8, ReadOne
    <3>10. f[i] = <<Listed(w[k])>> \o Rest(k)
      BY <3>2, <3>7, <3>9 DEF t
    <3>11. f[i] = Rest(k - 1)
      <4>1. PICK L : L = f[i]
        OBVIOUS
      <4>2. L = <<Listed(w[k])>> \o [j \in 1..n - k |-> Listed(w[k + j])]
        BY <3>10, <4>1 DEF Rest
      <4>3. L = [j \in 1..n - (k - 1) |-> Listed(w[k - 1 + j])]
        BY <3>1, <4>2, OneMoreListed
      <4> QED
        BY <4>1, <4>3 DEF Rest
    <3> QED
      BY <2>3, <3>1, <3>11 DEF i
  <2> QED
    BY <2>5, <2>6
<1>10. n \notin T
  <2> HIDE DEF T
  <2> QED
    BY <1>9
<1>11. f[off[0] + 1] = Rest(0)
  <2>1. n \in 0..n /\ n - n = 0
    OBVIOUS
  <2> HIDE DEF Rest
  <2> QED
    BY <1>10, <2>1
<1>12. Rest(0) = [i \in 1..n |-> Listed(w[i])]
  OBVIOUS
<1>13. ReadSections(p) = Rest(0)
  BY <1>6, <1>8, <1>11
<1> QED
  BY <1>12, <1>13 DEF p, flat, s

LEMMA SequenceAssociates ==
  \A s, t, u : Sequence(s) /\ Sequence(t) /\ Sequence(u) => (s \o t) \o u = s \o (t \o u)
<1> SUFFICES ASSUME NEW s, NEW t, NEW u, Sequence(s), Sequence(t), Sequence(u)
             PROVE  (s \o t) \o u = s \o (t \o u)
  OBVIOUS
<1> DEFINE S == Range(s) \cup Range(t) \cup Range(u)
<1>1. Range(s) \subseteq S /\ Range(t) \subseteq S /\ Range(u) \subseteq S
  OBVIOUS
<1> HIDE DEF S
<1>2. s \in Seq(S) /\ t \in Seq(S) /\ u \in Seq(S)
  BY <1>1, SeqMonotonic DEF Sequence
<1> QED
  BY <1>2, Associates

(* What follows s in s \o t is t.                                          *)
LEMMA AfterIs ==
  ASSUME NEW s, NEW t, Sequence(s), Sequence(t), NEW n, n = Len(s) + 1
  PROVE  SubSeq(s \o t, n, Len(s \o t)) = t
<1>1. PICK p : p = s \o t
  OBVIOUS
<1>2. Sequence(p) /\ Len(p) = Len(s) + Len(t)
  BY <1>1, SequenceConcat
<1>3. Len(s) \in Nat /\ Len(t) \in Nat
  BY SequenceConcat
<1>4. \A i \in 1..Len(t) : p[Len(s) + i] = t[i]
  BY <1>1, ConcatAt
<1> DEFINE S == Range(p)
           v == SubSeq(p, n, Len(p))
<1>5. \A j \in 1..Len(p) : p[j] \in S
  BY <1>2, LenProperties DEF Sequence, Range
<1>6. n \in Nat /\ Len(p) \in Nat /\ \A j \in n..Len(p) : p[j] \in S
  <2>1. \A j \in n..Len(p) : j \in 1..Len(p)
    BY <1>2, <1>3
  <2> HIDE DEF S
  <2> QED
    BY <1>2, <1>3, <1>5, <2>1
<1> HIDE DEF S
<1>7. /\ v \in Seq(S) /\ Len(v) = (IF n <= Len(p) THEN Len(p) - n + 1 ELSE 0)
      /\ \A j \in 1..Len(p) - n + 1 : v[j] = p[n + j - 1]
  BY <1>6, SubSeqProperties
<1> HIDE DEF v
<1>8. Len(v) = Len(t)
  BY <1>2, <1>3, <1>7
<1>9. ASSUME NEW j \in 1..Len(t) PROVE v[j] = t[j]
  <2>1. j \in 1..Len(p) - n + 1 /\ n + j - 1 = Len(s) + j
    BY <1>2, <1>3
  <2> QED
    BY <1>4, <1>7, <2>1
<1>10. Sequence(v)
  BY <1>7, SequenceOf
<1>11. v \in Seq(Range(v)) /\ t \in Seq(Range(t))
  BY <1>10 DEF Sequence
<1>12. v = t
  BY <1>8, <1>9, <1>11, SeqEqual
<1> QED
  BY <1>1, <1>12 DEF v

(* A page is the header and the head of the table, a row for each tool,    *)
(* the sections, and a line that ends the file.                            *)
Joined(a, b, c, e, g) == a \o b \o c \o e \o g

LEMMA Parted ==
  ASSUME NEW a, NEW b, NEW c, NEW e, NEW g,
         Sequence(a), Sequence(b), Sequence(c), Sequence(e), Sequence(g)
  PROVE  LET page == Joined(a, b, c, e, g)
             start == Len(a) + Len(b) + Len(c)
         IN  /\ SubSeq(page, start + 1, Len(page)) = e \o g
             /\ \A i \in 1..Len(c) : page[start - Len(c) + i] = c[i]
<1>1. PICK h : h = a \o b
  OBVIOUS
<1>2. PICK k : k = h \o c
  OBVIOUS
<1>3. PICK r : r = e \o g
  OBVIOUS
<1>4. PICK page : page = k \o e \o g
  OBVIOUS
<1>5. Sequence(h) /\ Len(h) = Len(a) + Len(b)
  BY <1>1, SequenceConcat
<1>6. Sequence(k) /\ Len(k) = Len(h) + Len(c)
  BY <1>2, <1>5, SequenceConcat
<1>7. Sequence(r)
  BY <1>3, SequenceConcat
<1>8. Len(a) \in Nat /\ Len(b) \in Nat
  BY SequenceConcat
<1>9. Len(c) \in Nat
  BY SequenceConcat
<1>10. page = k \o r
  <2>1. (k \o e) \o g = k \o (e \o g)
    <3>1. Sequence(k)
      BY <1>6
    <3> QED
      BY <3>1, SequenceAssociates
  <2> QED
    BY <1>3, <1>4, <2>1
<1>11. SubSeq(page, Len(k) + 1, Len(page)) = r
  BY <1>6, <1>7, <1>10, AfterIs
<1>12. ASSUME NEW i \in 1..Len(c) PROVE page[Len(k) - Len(c) + i] = c[i]
  <2>1. k[Len(h) + i] = c[i]
    BY <1>2, <1>5, ConcatAt
  <2>2. Len(h) + i \in 1..Len(k) /\ Len(k) - Len(c) + i = Len(h) + i
    BY <1>5, <1>6, <1>8, <1>9
  <2>3. page[Len(h) + i] = k[Len(h) + i]
    BY <1>6, <1>7, <1>10, <2>2, ConcatAt
  <2> QED
    BY <2>1, <2>2, <2>3
<1>13. Len(k) = Len(a) + Len(b) + Len(c) /\ page = Joined(a, b, c, e, g)
  BY <1>1, <1>2, <1>4, <1>5, <1>6 DEF Joined
<1> QED
  BY <1>3, <1>11, <1>12, <1>13

LEMMA PageIs ==
  ASSUME NEW S, NEW listed \in Seq(S), \A t \in S : Named(t)
  PROVE  LET page == RenderDoc(listed, Header)
             sorted == sortedByName(listed)
             n == Len(listed)
             start == Len(Lines(TrimRight(Header))) + Len(TableHead) + n
         IN  /\ SubSeq(page, start + 1, Len(page)) = FlattenSeq([i \in 1..n |-> Section(sorted[i])]) \o <<Blank>>
             /\ \A i \in 1..n : page[start - n + i] = Row(sorted[i])
<1> DEFINE sorted == sortedByName(listed)
           n == Len(sorted)
           sections == [i \in 1..n |-> Section(sorted[i])]
           a == Lines(TrimRight(Header))
           b == TableHead
           c == [i \in 1..n |-> Row(sorted[i])]
           e == FlattenSeq(sections)
           g == <<Blank>>
<1>1. RenderDoc(listed, Header) = Joined(a, b, c, e, g)
  BY DEF RenderDoc, Joined
<1>2. sorted \in Seq(S) /\ n = Len(listed) /\ \A i \in 1..n : Named(sorted[i])
  <2>1. sorted \in Seq(S) /\ n = Len(listed)
    BY SortedByName
  <2> QED
    BY <2>1, ElementOfSeq
<1>3. n \in Nat
  BY <1>2, LenProperties
<1> HIDE DEF sorted, n
<1>4. Sequence(a)
  BY HeaderAssumption, TrimRightType, LinesType
<1>5. Sequence(b)
  BY Singles DEF TableHead
<1>6. Sequence(c) /\ Len(c) = n /\ \A i \in 1..n : c[i] = Row(sorted[i])
  <2>1. c \in [1..n -> {Row(sorted[i]) : i \in 1..n}]
    OBVIOUS
  <2>2. Len(c) = n /\ \A i \in 1..n : c[i] = Row(sorted[i])
    BY <1>3
  <2> QED
    BY <1>3, <2>1, <2>2, SequenceMap
<1>7. Sequence(e)
  <2>1. DOMAIN sections = 1..n /\ sections = [i \in 1..n |-> sections[i]]
    OBVIOUS
  <2>2. \A i \in 1..n : Sequence(sections[i])
    BY <1>2, SectionType DEF Named
  <2> HIDE DEF sections
  <2> QED
    BY <1>3, <2>1, <2>2, FlattenSequence
<1>8. Sequence(g)
  BY Singles
<1> HIDE DEF a, b, c, e, g
<1> DEFINE page == RenderDoc(listed, Header)
           start == Len(a) + Len(b) + n
<1>9. /\ SubSeq(page, start + 1, Len(page)) = e \o g
      /\ \A i \in 1..n : page[start - n + i] = c[i]
  <2> DEFINE q == Joined(a, b, c, e, g)
  <2>1. Sequence(a) /\ Sequence(b) /\ Sequence(c) /\ Sequence(e) /\ Sequence(g)
    BY <1>4, <1>5, <1>6, <1>7, <1>8
  <2>2. SubSeq(q, Len(a) + Len(b) + Len(c) + 1, Len(q)) = e \o g
    BY <2>1, Parted
  <2>3. \A i \in 1..Len(c) : q[Len(a) + Len(b) + Len(c) - Len(c) + i] = c[i]
    BY <2>1, Parted
  <2> HIDE DEF page, q
  <2>4. page = q /\ Len(c) = n
    BY <1>1, <1>6 DEF page, q
  <2>5. SubSeq(page, start + 1, Len(page)) = e \o g
    BY <2>2, <2>4
  <2>6. \A i \in 1..n : page[start - n + i] = c[i]
    BY <2>3, <2>4
  <2> QED
    BY <2>5, <2>6
<1>10. \A i \in 1..n : page[start - n + i] = Row(sorted[i])
  BY <1>6, <1>9
<1> QED
  BY <1>2, <1>9, <1>10 DEF a, b, e, g, sorted, n

LEMMA RowKind ==
  ASSUME NEW t
  PROVE  /\ Row(t).row = t.name
         /\ (Row(t).kind = "read-only") = (t.hints.readOnly = "true")
         /\ Row(t).kind = "write" => t.hints.destructive = "false"
<1>1. Row(t).row = t.name /\ Row(t).kind = kind(t.hints)
  BY DEF Row
<1>2. CASE t.hints.readOnly = "true"
  <2>1. kind(t.hints) = "read-only"
    BY <1>2 DEF kind
  <2> QED
    BY <1>1, <1>2, <2>1
<1>3. CASE t.hints.readOnly # "true" /\ t.hints.destructive # "false"
  <2>1. kind(t.hints) = "write, destructive"
    BY <1>3 DEF kind
  <2> QED
    BY <1>1, <1>3, <2>1
<1>4. CASE t.hints.readOnly # "true" /\ t.hints.destructive = "false"
  <2>1. kind(t.hints) = "write"
    BY <1>4 DEF kind
  <2> QED
    BY <1>1, <1>4, <2>1
<1> QED
  BY <1>2, <1>3, <1>4

(* Of two tools on the page, the first is not after the second by name,    *)
(* description or, when both tie, by its place in the list.                *)
LEMMA FirstMeans ==
  ASSUME NEW listed, NEW i \in Int, NEW j \in Int, Named(listed[i]), Named(listed[j]), First(listed, i, j)
  PROVE  /\ listed[i].name <= listed[j].name
         /\ listed[i].name = listed[j].name => ~TextLess(listed[j].description, listed[i].description)
         /\ Tie(listed[i], listed[j]) => i < j
<1> DEFINE t == listed[i]
           u == listed[j]
<1>1. t.name \in Int /\ u.name \in Int /\ t.description \in Texts /\ u.description \in Texts
  BY DEF Named
<1>2. \/ t.name < u.name
      \/ /\ t.name = u.name
         /\ TextLess(t.description, u.description) \/ (t.description = u.description /\ i < j)
  BY FirstIs
<1> HIDE DEF t, u
<1>3. t.name <= u.name /\ (t.name = u.name => ~(t.name < u.name))
  BY <1>1, <1>2
<1>4. ASSUME t.name = u.name PROVE ~TextLess(u.description, t.description)
  <2>1. TextLess(t.description, u.description) \/ t.description = u.description
    BY <1>2, <1>3, <1>4
  <2> QED
    BY <1>1, <2>1, TextLessIrreflexive, TextLessTransitive
<1>5. ASSUME Tie(t, u) PROVE i < j
  <2>1. t.name = u.name /\ t.description = u.description
    BY <1>5 DEF Tie
  <2> QED
    BY <1>1, <1>2, <1>3, <2>1, TextLessIrreflexive
<1> QED
  BY <1>3, <1>4, <1>5 DEF t, u

LEMMA PageInvReads ==
  ASSUME PageInv
  PROVE  PageReadsBack
<1> SUFFICES ASSUME verdict.page # <<>> PROVE PageReadsBack
  BY DEF PageReadsBack
<1> DEFINE listed == verdict.listed
           n == Len(listed)
           page == verdict.page
           sorted == sortedByName(listed)
           start == Len(Lines(TrimRight(Header))) + Len(TableHead) + n
           read == ReadSections(SubSeq(page, start + 1, Len(page)))
           S == Range(listed)
<1>1. listed \in Seq(S) /\ page = RenderDoc(listed, Header) /\ \A t \in S : Named(t)
  BY DEF PageInv, Named
<1>2. n \in Nat /\ \A i \in 1..n : listed[i] \in S /\ Named(listed[i])
  <2> HIDE DEF S, listed
  <2> QED
    BY <1>1, LenProperties, ElementOfSeq
<1> HIDE DEF listed, page, S
<1>3. PICK order \in [1..n -> 1..n] :
         /\ sorted = [k \in 1..n |-> listed[order[k]]]
         /\ \A k, l \in 1..n : k < l => First(listed, order[k], order[l])
         /\ \A i \in 1..n : \E k \in 1..n : order[k] = i
  BY <1>1, Sorting
<1>4. /\ SubSeq(page, start + 1, Len(page)) = FlattenSeq([i \in 1..n |-> Section(sorted[i])]) \o <<Blank>>
      /\ \A i \in 1..n : page[start - n + i] = Row(sorted[i])
  BY <1>1, PageIs
<1> HIDE DEF n, sorted
<1>5. \A k \in 1..n : order[k] \in 1..n /\ order[k] \in Int /\ sorted[k] = listed[order[k]]
  BY <1>3
<1>6. \A i \in 1..n : sorted[i].description \in Texts
  BY <1>2, <1>5 DEF Named
<1>7. read = [i \in 1..n |-> Listed(sorted[i])]
  <2>1. ReadSections(FlattenSeq([i \in 1..n |-> Section(sorted[i])]) \o <<Blank>>) = [i \in 1..n |-> Listed(sorted[i])]
    BY <1>2, <1>6, ReadAll
  <2> HIDE DEF start
  <2> QED
    BY <1>4, <2>1
<1> HIDE DEF start, read
<1>8. Len(read) = n /\ \A i \in 1..n : read[i] = Listed(listed[order[i]])
  <2>1. Len(read) = n
    BY <1>2, <1>7
  <2> QED
    BY <1>5, <1>7, <2>1
<1>9. Range(order) = 1..n
  <2>1. Range(order) = {order[k] : k \in 1..n}
    BY DEF Range
  <2> QED
    BY <1>3, <1>5, <2>1
<1>10. ASSUME NEW i \in 1..n, NEW j \in 1..n, i < j
       PROVE  LET t == listed[order[i]]  u == listed[order[j]]
              IN  /\ t.name <= u.name
                  /\ t.name = u.name => ~TextLess(u.description, t.description)
                  /\ Tie(t, u) => order[i] < order[j]
  <2>1. First(listed, order[i], order[j])
    BY <1>3, <1>10
  <2>2. order[i] \in Int /\ order[j] \in Int /\ Named(listed[order[i]]) /\ Named(listed[order[j]])
    BY <1>2, <1>5
  <2> QED
    BY <2>1, <2>2, FirstMeans
<1>11. ASSUME NEW i \in 1..n
       PROVE  LET row == page[start - n + i]
              IN  \E t \in S :
                    /\ row.row = t.name /\ t.name = read[i].name
                    /\ (row.kind = "read-only") = (t.hints.readOnly = "true")
                    /\ row.kind = "write" => t.hints.destructive = "false"
  <2> DEFINE t == listed[order[i]]
             row == page[start - n + i]
  <2>1. t \in S
    BY <1>2, <1>5
  <2>2. row = Row(t)
    BY <1>4, <1>5
  <2>3. read[i].name = t.name
    BY <1>8 DEF Listed
  <2> HIDE DEF t, row
  <2>4. /\ row.row = t.name
        /\ (row.kind = "read-only") = (t.hints.readOnly = "true")
        /\ row.kind = "write" => t.hints.destructive = "false"
    BY <2>2, RowKind
  <2>5. \E x \in S :
          /\ row.row = x.name /\ x.name = read[i].name
          /\ (row.kind = "read-only") = (x.hints.readOnly = "true")
          /\ row.kind = "write" => x.hints.destructive = "false"
    BY <2>1, <2>3, <2>4
  <2> QED
    BY <2>5 DEF row
<1>12. /\ Len(read) = n
       /\ \E o \in [1..n -> 1..n] :
            /\ Range(o) = 1..n
            /\ \A i \in 1..n : read[i] = Listed(listed[o[i]])
            /\ \A i, j \in 1..n :
                 LET t == listed[o[i]]  u == listed[o[j]]
                 IN  i < j => /\ t.name <= u.name
                              /\ t.name = u.name => ~TextLess(u.description, t.description)
                              /\ Tie(t, u) => o[i] < o[j]
  <2>1. \A i, j \in 1..n :
          LET t == listed[order[i]]  u == listed[order[j]]
          IN  i < j => /\ t.name <= u.name
                       /\ t.name = u.name => ~TextLess(u.description, t.description)
                       /\ Tie(t, u) => order[i] < order[j]
    BY <1>10
  <2> QED
    BY <1>3, <1>8, <1>9, <2>1
<1> QED
  BY <1>11, <1>12 DEF PageReadsBack, read, start, n, listed, page, S

-----------------------------------------------------------------------------
(* The page an assertion rendered.                                         *)

PageOf(v) ==
  v.page # <<>> =>
    /\ v.listed \in Seq(Range(v.listed))
    /\ \A t \in Range(v.listed) : t.name \in Int /\ t.description \in Texts
    /\ v.page = RenderDoc(v.listed, Header)

LEMMA PageOfIs == PageInv <=> PageOf(verdict)
  BY DEF PageInv, PageOf

LEMMA RenderedPage ==
  ASSUME NEW S, NEW listed \in Seq(S), \A t \in S : Named(t), NEW says, NEW at
  PROVE  PageOf(Verdict(says, at, listed, RenderDoc(listed, Header)))
<1>1. listed \in Seq(Range(listed))
  BY SequenceOf DEF Sequence
<1>2. \A t \in Range(listed) : Named(t)
  <2>1. \A i \in 1..Len(listed) : listed[i] \in S
    BY ElementOfSeq
  <2>2. Range(listed) = {listed[i] : i \in 1..Len(listed)}
    BY RangeOf
  <2> QED
    BY <2>1, <2>2
<1> DEFINE v == Verdict(says, at, listed, RenderDoc(listed, Header))
<1>3. v.listed = listed /\ v.page = RenderDoc(listed, Header)
  BY DEF Verdict
<1> HIDE DEF v
<1>4. PageOf(v)
  BY <1>1, <1>2, <1>3 DEF PageOf, Named
<1> QED
  BY <1>4 DEF v

LEMMA AssertRenders ==
  ASSUME NEW S, NEW listed \in Seq(S), \A t \in S : Named(t), assertDoc(listed)
  PROVE  PageInv'
<1> DEFINE page == RenderDoc(listed, Header)
<1>1. RenderError(listed) \/ Compare(listed, page) \/ Update(listed, page)
  BY DEF assertDoc
<1>2. \A says, at : PageOf(Verdict(says, at, listed, page))
  BY RenderedPage
<1>3. \A says, at : PageOf(Verdict(says, at, listed, <<>>))
  BY DEF PageOf, Verdict
<1> HIDE DEF page
<1>4. \A f : PageOf(Compared(f, listed, page))
  BY <1>2 DEF Compared
<1>5. CASE RenderError(listed)
  BY <1>3, <1>5 DEF RenderError, PageInv, PageOf
<1>6. CASE Compare(listed, page)
  <2>1. PageOf(verdict')
    BY <1>4, <1>6 DEF Compare
  <2> QED
    BY <2>1 DEF PageInv, PageOf
<1>7. CASE Update(listed, page)
  <2>1. PageOf(verdict')
    BY <1>2, <1>4, <1>7 DEF Update
  <2> QED
    BY <2>1 DEF PageInv, PageOf
<1> QED
  BY <1>1, <1>5, <1>6, <1>7

LEMMA PageInvNext ==
  ASSUME CheckInv, PageInv, [DocNext]_<<vars, docVars>>
  PROVE  PageInv'
<1>1. CASE UNCHANGED <<vars, docVars>>
  BY <1>1 DEF PageInv, docVars
<1>2. CASE Building
  <2>1. verdict'.page = <<>>
    BY <1>2 DEF Building, NoVerdict, Verdict
  <2> QED
    BY <2>1 DEF PageInv
<1>3. CASE AssertServerDoc
  <2>1. PICK listed \in Seq(tools) : assertDoc(listed) /\ \A t \in tools : Named(t)
    BY <1>3, ServerLists
  <2> QED
    BY <2>1, AssertRenders
<1>4. CASE AssertDoc
  <2>1. PICK S : \E listed \in Seq(S) : assertDoc(listed) /\ \A t \in S : Named(t)
    BY <1>4, CallerLists
  <2>2. PICK listed \in Seq(S) : assertDoc(listed) /\ \A t \in S : Named(t)
    BY <2>1
  <2> QED
    BY <2>2, AssertRenders
<1> QED
  BY <1>1, <1>2, <1>3, <1>4 DEF DocNext

(* A reader of the page finds every tool that was listed, with its         *)
(* description and schema to the letter, and no other, in the order of     *)
(* names and descriptions, whatever backticks and newlines are in them     *)
(* (render.go:14-111).                                                     *)
THEOREM PageReads == DocSpec => []PageReadsBack
<1>1. DocSpec => []CheckInv
  BY DocIsServer, CheckInvariance, PTL
<1>2. DocInit => PageInv
  BY DEF DocInit, PageInv, NoVerdict, Verdict
<1>3. CheckInv /\ PageInv /\ [DocNext]_<<vars, docVars>> => PageInv'
  BY PageInvNext
<1>4. PageInv => PageReadsBack
  BY PageInvReads
<1> QED
  BY <1>1, <1>2, <1>3, <1>4, PTL DEF DocSpec


-----------------------------------------------------------------------------
(* A page does not depend on the order its tools are listed in.            *)

LEMMA BeforeStrict ==
  ASSUME NEW t, NEW u, Named(t), Named(u)
  PROVE  ~Before(t, t) /\ ~(Before(t, u) /\ Before(u, t))
<1>1. t.name \in Int /\ u.name \in Int /\ t.description \in Texts /\ u.description \in Texts
  BY DEF Named
<1>2. /\ ~TextLess(t.description, t.description)
      /\ ~(TextLess(t.description, u.description) /\ TextLess(u.description, t.description))
  BY <1>1, TextLessIrreflexive, TextLessTransitive
<1>3. ~(t.name < t.name) /\ ~(t.name < u.name /\ u.name < t.name) /\ (t.name = u.name => ~(t.name < u.name))
  BY <1>1
<1> QED
  BY <1>2, <1>3 DEF Before

LEMMA StrictlyGrows ==
  ASSUME NEW n \in Nat, NEW m \in Nat, NEW f \in [1..n -> 1..m],
         \A k, l \in 1..n : k < l => f[k] < f[l]
  PROVE  \A k \in 1..n : k <= f[k]
<1> DEFINE D == {k \in 1..n : f[k] < k}
<1> SUFFICES ASSUME D # {} PROVE FALSE
  OBVIOUS
<1>1. D \in SUBSET Nat
  OBVIOUS
<1>2. PICK d \in D : \A k \in D : d <= k
  BY <1>1, LeastNat
<1>3. d - 1 \in 1..n /\ d \in 1..n /\ d - 1 < d /\ f[d] \in 1..m /\ f[d] < d
  BY <1>2
<1>4. f[d - 1] < f[d] /\ f[d - 1] \in 1..m
  BY <1>3
<1>5. f[d - 1] < d - 1
  BY <1>3, <1>4
<1> QED
  BY <1>2, <1>3, <1>5

(* Two lists of the same tools, each strictly sorted, are one.             *)
StrictlyBefore(n, a) ==
  /\ n \in Nat
  /\ \A k \in 1..n : Named(a[k])
  /\ \A k, l \in 1..n : k < l => Before(a[k], a[l])

SameTools(n, a, m, b) ==
  /\ \A k \in 1..n : \E l \in 1..m : b[l] = a[k]
  /\ \A l \in 1..m : \E k \in 1..n : a[k] = b[l]

LEMMA OneSorted ==
  ASSUME NEW n, NEW a, NEW m, NEW b, StrictlyBefore(n, a), StrictlyBefore(m, b), SameTools(n, a, m, b)
  PROVE  n = m /\ \A k \in 1..n : a[k] = b[k]
<1> USE DEF StrictlyBefore, SameTools
<1>1. PICK f \in [1..n -> 1..m] : \A k \in 1..n : b[f[k]] = a[k]
  <2> DEFINE g == [k \in 1..n |-> CHOOSE l \in 1..m : b[l] = a[k]]
  <2>1. \A k \in 1..n : g[k] \in 1..m /\ b[g[k]] = a[k]
    OBVIOUS
  <2>2. g \in [1..n -> 1..m]
    BY <2>1
  <2> QED
    BY <2>1, <2>2
<1>2. PICK g \in [1..m -> 1..n] : \A l \in 1..m : a[g[l]] = b[l]
  <2> DEFINE h == [l \in 1..m |-> CHOOSE k \in 1..n : a[k] = b[l]]
  <2>1. \A l \in 1..m : h[l] \in 1..n /\ a[h[l]] = b[l]
    OBVIOUS
  <2>2. h \in [1..m -> 1..n]
    BY <2>1
  <2> QED
    BY <2>1, <2>2
<1>3. ASSUME NEW k \in 1..n, NEW l \in 1..n, k < l PROVE f[k] < f[l]
  <2>1. Before(b[f[k]], b[f[l]]) /\ f[k] \in 1..m /\ f[l] \in 1..m
    BY <1>1, <1>3
  <2>2. f[k] # f[l] /\ ~(f[l] < f[k])
    BY <2>1, BeforeStrict
  <2> QED
    BY <2>1, <2>2
<1>4. ASSUME NEW k \in 1..m, NEW l \in 1..m, k < l PROVE g[k] < g[l]
  <2>1. Before(a[g[k]], a[g[l]]) /\ g[k] \in 1..n /\ g[l] \in 1..n
    BY <1>2, <1>4
  <2>2. g[k] # g[l] /\ ~(g[l] < g[k])
    BY <2>1, BeforeStrict
  <2> QED
    BY <2>1, <2>2
<1>5. \A k \in 1..n : k <= f[k]
  BY <1>1, <1>3, StrictlyGrows
<1>6. \A l \in 1..m : l <= g[l]
  BY <1>2, <1>4, StrictlyGrows
<1>7. ASSUME NEW k \in 1..n PROVE f[k] = k
  <2>1. f[k] \in 1..m /\ g[f[k]] \in 1..n /\ a[g[f[k]]] = a[k]
    BY <1>1, <1>2
  <2>2. ~(k < g[f[k]]) /\ ~(g[f[k]] < k)
    BY <2>1, BeforeStrict
  <2>3. k <= f[k] /\ f[k] <= g[f[k]]
    BY <1>5, <1>6, <2>1
  <2> DEFINE y == f[k]
             z == g[y]
  <2>4. y \in Int /\ z \in Int /\ ~(k < z) /\ ~(z < k) /\ k <= y /\ y <= z
    BY <2>1, <2>2, <2>3
  <2> HIDE DEF y, z
  <2>5. y = k
    BY <2>4
  <2> QED
    BY <2>5 DEF y
<1>8. ASSUME NEW l \in 1..m PROVE g[l] = l
  <2>1. g[l] \in 1..n /\ b[l] = a[g[l]] /\ a[g[l]] = b[g[l]]
    <3>1. g[l] \in 1..n /\ b[l] = a[g[l]]
      BY <1>2
    <3>2. b[f[g[l]]] = a[g[l]] /\ f[g[l]] = g[l]
      BY <1>1, <1>7, <3>1
    <3> QED
      BY <3>1, <3>2
  <2>2. g[l] \in 1..m
    BY <1>1, <1>7, <2>1
  <2>3. ~(l < g[l]) /\ ~(g[l] < l)
    BY <2>1, <2>2, BeforeStrict
  <2> QED
    BY <2>2, <2>3
<1>9. \A k \in 1..n : k \in 1..m
  BY <1>1, <1>7
<1>10. \A l \in 1..m : l \in 1..n
  BY <1>2, <1>8
<1>11. n = m
  <2>1. n <= m
    <3> SUFFICES ASSUME n # 0 PROVE n <= m
      OBVIOUS
    <3>1. n \in 1..n
      OBVIOUS
    <3>2. n \in 1..m
      BY <1>9, <3>1
    <3> QED
      BY <3>2
  <2>2. m <= n
    <3> SUFFICES ASSUME m # 0 PROVE m <= n
      OBVIOUS
    <3>1. m \in 1..m
      OBVIOUS
    <3>2. m \in 1..n
      BY <1>10, <3>1
    <3> QED
      BY <3>2
  <2> QED
    BY <2>1, <2>2
<1>12. \A k \in 1..n : a[k] = b[k]
  BY <1>1, <1>7
<1> QED
  BY <1>11, <1>12

(* None of the tools listed twice.                                         *)
Once(listed) == \A i, j \in 1..Len(listed) : Tie(listed[i], listed[j]) => i = j

LEMMA StrictlySorted ==
  ASSUME NEW S, NEW listed \in Seq(S), \A t \in S : Named(t), Once(listed)
  PROVE  LET s == sortedByName(listed)
             n == Len(listed)
         IN  /\ n \in Nat /\ s \in Seq(S) /\ Len(s) = n
             /\ \A k \in 1..n : Named(s[k]) /\ \E i \in 1..n : s[k] = listed[i]
             /\ \A i \in 1..n : \E k \in 1..n : s[k] = listed[i]
             /\ \A k, l \in 1..n : k < l => Before(s[k], s[l])
<1> DEFINE s == sortedByName(listed)
           n == Len(listed)
<1>1. n \in Nat /\ s \in Seq(S) /\ Len(s) = n
  BY SortedByName, LenProperties
<1>2. PICK order \in [1..n -> 1..n] :
         /\ s = [k \in 1..n |-> listed[order[k]]]
         /\ \A k, l \in 1..n : k < l => First(listed, order[k], order[l])
         /\ \A i \in 1..n : \E k \in 1..n : order[k] = i
  BY Sorting
<1>3. \A i \in 1..n : Named(listed[i])
  BY ElementOfSeq
<1> HIDE DEF s
<1>4. \A k \in 1..n : order[k] \in 1..n /\ s[k] = listed[order[k]]
  BY <1>2
<1>5. ASSUME NEW k \in 1..n, NEW l \in 1..n, k < l PROVE Before(s[k], s[l])
  <2> DEFINE i == order[k]
             j == order[l]
             t == listed[i]
             u == listed[j]
  <2>1. i \in 1..n /\ j \in 1..n /\ First(listed, i, j) /\ Named(t) /\ Named(u)
    BY <1>2, <1>3, <1>4, <1>5
  <2>2. i \in Int /\ j \in Int
    BY <1>1, <2>1
  <2>3. \/ t.name < u.name
        \/ t.name = u.name /\ (TextLess(t.description, u.description) \/ (t.description = u.description /\ i < j))
    BY <2>1, <2>2, FirstIs
  <2>4. ~(t.name = u.name /\ t.description = u.description /\ i < j)
    <3>1. Tie(t, u) => i = j
      BY <2>1 DEF Once
    <3> HIDE DEF t, u
    <3> QED
      BY <2>2, <3>1 DEF Tie
  <2>5. Before(t, u)
    BY <2>3, <2>4 DEF Before
  <2> QED
    BY <1>4, <2>5
<1>6. \A k \in 1..n : Named(s[k]) /\ \E i \in 1..n : s[k] = listed[i]
  BY <1>3, <1>4
<1>7. \A i \in 1..n : \E k \in 1..n : s[k] = listed[i]
  BY <1>2, <1>4
<1> QED
  BY <1>1, <1>5, <1>6, <1>7 DEF s

LEMMA SamePage ==
  ASSUME NEW S, NEW one \in Seq(S), \A t \in S : Named(t),
         NEW R, NEW other \in Seq(R), \A t \in R : Named(t),
         Relisted(one, other)
  PROVE  RenderFails(one) = RenderFails(other) /\ RenderDoc(one, Header) = RenderDoc(other, Header)
<1> DEFINE a == sortedByName(one)
           b == sortedByName(other)
           n == Len(one)
           m == Len(other)
<1>1. Once(one) /\ Once(other) /\ Range(one) = Range(other)
  BY DEF Relisted, Once
<1>2. Range(one) = {one[i] : i \in 1..n} /\ Range(other) = {other[i] : i \in 1..m}
  BY RangeOf
<1>3. /\ n \in Nat /\ a \in Seq(S) /\ Len(a) = n
      /\ \A k \in 1..n : Named(a[k]) /\ \E i \in 1..n : a[k] = one[i]
      /\ \A i \in 1..n : \E k \in 1..n : a[k] = one[i]
      /\ \A k, l \in 1..n : k < l => Before(a[k], a[l])
  BY <1>1, StrictlySorted
<1>4. /\ m \in Nat /\ b \in Seq(R) /\ Len(b) = m
      /\ \A k \in 1..m : Named(b[k]) /\ \E i \in 1..m : b[k] = other[i]
      /\ \A i \in 1..m : \E k \in 1..m : b[k] = other[i]
      /\ \A k, l \in 1..m : k < l => Before(b[k], b[l])
  BY <1>1, StrictlySorted
<1>5. (\A i \in 1..n : \E j \in 1..m : other[j] = one[i]) /\ (\A j \in 1..m : \E i \in 1..n : one[i] = other[j])
  BY <1>1, <1>2
<1> HIDE DEF a, b, n, m
<1>6. n = m /\ \A k \in 1..n : a[k] = b[k]
  <2>1. ASSUME NEW k \in 1..n PROVE \E l \in 1..m : b[l] = a[k]
    <3>1. PICK i \in 1..n : a[k] = one[i]
      BY <1>3
    <3>2. PICK j \in 1..m : other[j] = one[i]
      BY <1>5
    <3>3. PICK l \in 1..m : b[l] = other[j]
      BY <1>4
    <3> QED
      BY <3>1, <3>2, <3>3
  <2>2. ASSUME NEW l \in 1..m PROVE \E k \in 1..n : a[k] = b[l]
    <3>1. PICK j \in 1..m : b[l] = other[j]
      BY <1>4
    <3>2. PICK i \in 1..n : one[i] = other[j]
      BY <1>5
    <3>3. PICK k \in 1..n : a[k] = one[i]
      BY <1>3
    <3> QED
      BY <3>1, <3>2, <3>3
  <2>3. StrictlyBefore(n, a) /\ StrictlyBefore(m, b)
    BY <1>3, <1>4 DEF StrictlyBefore
  <2>4. SameTools(n, a, m, b)
    BY <2>1, <2>2 DEF SameTools
  <2> QED
    BY <2>3, <2>4, OneSorted
<1>7. a = b
  BY <1>3, <1>4, <1>6, SeqEqual
<1>8. RenderDoc(one, Header) = RenderDoc(other, Header)
  BY <1>7 DEF RenderDoc, a, b
<1>9. RenderFails(one) = RenderFails(other)
  BY <1>5 DEF RenderFails, n, m
<1> QED
  BY <1>8, <1>9

(* A page found current is one that was rendered.                          *)
CurrentInv == verdict.says = "current" => verdict.page # <<>>

LEMMA CurrentInvNext ==
  ASSUME CheckInv, CurrentInv, [DocNext]_<<vars, docVars>>
  PROVE  CurrentInv'
<1>1. CASE UNCHANGED <<vars, docVars>>
  BY <1>1 DEF CurrentInv, docVars
<1>2. CASE Building
  BY <1>2 DEF Building, NoVerdict, Verdict, CurrentInv
<1>3. ASSUME NEW S, NEW listed \in Seq(S), \A t \in S : Named(t), assertDoc(listed)
      PROVE  CurrentInv'
  <2> DEFINE page == RenderDoc(listed, Header)
  <2>1. RenderError(listed) \/ Compare(listed, page) \/ Update(listed, page)
    BY <1>3 DEF assertDoc
  <2>2. page # <<>>
    BY <1>3, PageType, EmptySeq
  <2> HIDE DEF page
  <2>3. \A f : Compared(f, listed, page).page = page
    BY DEF Compared, Verdict
  <2>4. verdict'.says = "unrendered" \/ verdict'.page = page
    BY <2>1, <2>3 DEF RenderError, Compare, Update, Verdict
  <2> QED
    BY <2>2, <2>4 DEF CurrentInv
<1>4. CASE AssertServerDoc
  BY <1>3, <1>4, ServerLists
<1>5. CASE AssertDoc
  <2>1. PICK S : \E listed \in Seq(S) : assertDoc(listed) /\ \A t \in S : Named(t)
    BY <1>5, CallerLists
  <2> QED
    BY <1>3, <2>1
<1> QED
  BY <1>1, <1>2, <1>4, <1>5 DEF DocNext

LEMMA CurrentStays ==
  ASSUME DocInv, PageInv, CurrentInv, verdict.says = "current",
         NEW S, NEW listed \in Seq(S), \A t \in S : Named(t), assertDoc(listed)
  PROVE  /\ verdict'.listed = listed
         /\ Relisted(verdict.listed, listed) =>
              verdict'.says = IF wrote' = "failed" THEN "unwritten" ELSE "current"
<1> DEFINE page == RenderDoc(listed, Header)
<1>1. RenderError(listed) \/ Compare(listed, page) \/ Update(listed, page)
  BY DEF assertDoc
<1>2. verdict'.listed = listed
  BY AssertEnds DEF DocInv, Ends
<1>3. ASSUME Relisted(verdict.listed, listed)
      PROVE  verdict'.says = IF wrote' = "failed" THEN "unwritten" ELSE "current"
  <2>1. PageOf(verdict) /\ verdict.page # <<>>
    BY PageOfIs DEF CurrentInv
  <2>2. /\ verdict.listed \in Seq(Range(verdict.listed)) /\ \A t \in Range(verdict.listed) : Named(t)
        /\ verdict.page = RenderDoc(verdict.listed, Header)
    BY <2>1 DEF PageOf, Named
  <2>3. RenderFails(verdict.listed) = RenderFails(listed) /\ verdict.page = page
    BY <1>3, <2>2, SamePage
  <2>4. verdict # NoVerdict
    BY DEF NoVerdict, Verdict
  <2>5. ~RenderFails(listed) /\ file.is = "text" /\ file.lines = page
    BY <2>3, <2>4 DEF DocInv, AssertIsExact
  <2> HIDE DEF page
  <2>6. \A f : f.is = "text" /\ f.lines = page => Compared(f, listed, page).says = "current"
    BY DEF Compared, Verdict
  <2>7. ~RenderError(listed)
    BY <2>5 DEF RenderError
  <2>8. CASE Compare(listed, page)
    BY <2>5, <2>6, <2>8 DEF Compare
  <2>9. CASE Update(listed, page)
    <3>1. PICK w \in WriteFile(page) :
             /\ file' = w.file /\ wrote' = Wrote(w)
             /\ verdict' = IF w.failed THEN Verdict("unwritten", 0, listed, page)
                           ELSE Compared(w.file, listed, page)
      BY <2>9 DEF Update
    <3>2. ~w.failed => w.file.is = "text" /\ w.file.lines = page
      BY DEF WriteFile, Text
    <3>3. CASE w.failed
      BY <3>1, <3>3 DEF Wrote, Verdict
    <3>4. CASE ~w.failed
      BY <2>6, <3>1, <3>2, <3>4 DEF Wrote
    <3> QED
      BY <3>3, <3>4
  <2> QED
    BY <1>1, <2>7, <2>8, <2>9
<1> QED
  BY <1>2, <1>3

Stays ==
  verdict.says = "current" /\ asserts' # asserts /\ Relisted(verdict.listed, verdict'.listed) =>
    verdict'.says = IF wrote' = "failed" THEN "unwritten" ELSE "current"

LEMMA StaysNext ==
  ASSUME CheckInv, DocInv, PageInv, CurrentInv, [DocNext]_<<vars, docVars>>
  PROVE  Stays
<1> SUFFICES ASSUME verdict.says = "current", asserts' # asserts, Relisted(verdict.listed, verdict'.listed)
             PROVE  verdict'.says = IF wrote' = "failed" THEN "unwritten" ELSE "current"
  BY DEF Stays
<1>1. AssertServerDoc \/ AssertDoc
  BY DEF DocNext, Building, docVars
<1>2. CASE AssertServerDoc
  <2>1. PICK listed \in Seq(tools) : assertDoc(listed) /\ \A t \in tools : Named(t)
    BY <1>2, ServerLists
  <2> QED
    BY <2>1, CurrentStays
<1>3. CASE AssertDoc
  <2>1. PICK S : \E listed \in Seq(S) : assertDoc(listed) /\ \A t \in S : Named(t)
    BY <1>3, CallerLists
  <2>2. PICK listed \in Seq(S) : assertDoc(listed) /\ \A t \in S : Named(t)
    BY <2>1
  <2> QED
    BY <2>2, CurrentStays
<1> QED
  BY <1>1, <1>2, <1>3

(* A page found current stays current for the same tools in any order they *)
(* are listed in, for any number of them, any texts and schemas: no run of *)
(* the test fails because a map was walked in another order                *)
(* (render.go:57-68).                                                      *)
THEOREM PageStable == DocSpec => PageIsStable
<1>1. DocSpec => []CheckInv
  BY DocIsServer, CheckInvariance, PTL
<1>2. DocInit => DocInv /\ PageInv /\ CurrentInv
  <2>1. DocInit => PageInv /\ CurrentInv
    BY DEF DocInit, PageInv, CurrentInv, NoVerdict, Verdict
  <2> QED
    BY <2>1, DocInvInit
<1>3. CheckInv /\ DocInv /\ PageInv /\ CurrentInv /\ [DocNext]_<<vars, docVars>> =>
        DocInv' /\ PageInv' /\ CurrentInv'
  BY DocInvNext, PageInvNext, CurrentInvNext
<1>4. CheckInv /\ DocInv /\ PageInv /\ CurrentInv /\ [DocNext]_<<vars, docVars>> => [Stays]_<<vars, docVars>>
  BY StaysNext
<1>5. [][Stays]_<<vars, docVars>> => PageIsStable
  BY PTL DEF PageIsStable, Stays
<1> QED
  BY <1>1, <1>2, <1>3, <1>4, <1>5, PTL DEF DocSpec
=============================================================================
