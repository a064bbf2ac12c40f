------------------------ MODULE ProtobufCodec_proofs ------------------------
(***************************************************************************)
(* The sender of protobuf-c messages: sizes, bytes, the growing buffer and *)
(* the lookups, for every schema, every message that ends and whatever     *)
(* allocation fails.                                                       *)
(*                                                                         *)
(* Induction is taken from the well-foundedness of < and goes along the    *)
(* levels of a message, its fields, the elements of an array and the       *)
(* rounds of a search.  Each writer has a lemma that its size function     *)
(* counts what it writes (Written), and one that its twin for buffers      *)
(* sends the same and keeps the heap (Goes); both are made from the same   *)
(* lemmas about the submessages one level below.  A binary search is       *)
(* proved about once (Narrows), then used by number and by name.           *)
(***************************************************************************)
EXTENDS ProtobufCodec, ProtobufWire_proofs, WellFoundedInduction

-----------------------------------------------------------------------------
(* Induction, from the fact that < is well-founded. *)

\* A set of numbers that is not empty has a least one.
LEMMA Minimal ==
    ASSUME NEW S \in SUBSET Nat, S # {}
    PROVE  \E n \in S : \A m \in S : n <= m
<1> DEFINE R == OpToRel(<, Nat)
<1>1. IsWellFoundedOn(R, Nat)
  BY NatLessThanWellFounded
<1>2. \A x, y \in Nat : <<x, y>> \in R <=> x < y
  BY DEF OpToRel
<1> HIDE DEF R
<1>3. PICK x \in S : \A y \in S : ~ (<<y, x>> \in R)
  BY <1>1, WFMin
<1>4. \A y \in S : ~ (y < x)
  BY <1>2, <1>3
<1> QED
  BY <1>4

\* What holds of 0 and of n + 1 whenever of n holds of all: what is not in S has
\* no least member.
LEMMA Induction ==
    ASSUME NEW S \in SUBSET Nat, 0 \in S, \A n \in S : n + 1 \in S
    PROVE  \A n \in Nat : n \in S
<1> SUFFICES ASSUME NEW k \in Nat, k \notin S
             PROVE  FALSE
  OBVIOUS
<1>1. PICK n \in Nat \ S : \A m \in Nat \ S : n <= m
  BY Minimal
<1> QED
  BY <1>1

\* Induction along the values of a sequence or a loop.
LEMMA Along ==
    ASSUME NEW N \in Nat, NEW S, 0 \in S, \A k \in 1..N : k - 1 \in S => k \in S
    PROVE  \A k \in 0..N : k \in S
<1> DEFINE T == {k \in Nat : k <= N => k \in S}
<1>1. 0 \in T
  OBVIOUS
<1>2. \A n \in T : n + 1 \in T
  OBVIOUS
<1> HIDE DEF T
<1>3. \A n \in Nat : n \in T
  BY <1>1, <1>2, Induction DEF T
<1> QED
  BY <1>3 DEF T

-----------------------------------------------------------------------------
(* Recursive functions over 0..N exist. *)

\* f starts with a and goes on with g, in a set V.
Recursive(f, N, V, a, g) ==
    f \in [0..N -> V] /\ f[0] = a /\ \A k \in 1..N : f[k] = g[k][f[k - 1]]

\* A function that is defined from the entry before exists.
LEMMA Recursion ==
    ASSUME NEW N \in Nat, NEW V, NEW a \in V, NEW g \in [1..N -> [V -> V]]
    PROVE  \E f : Recursive(f, N, V, a, g)
<1> DEFINE P(n) == \E f \in [0..n -> V] :
                      f[0] = a /\ \A k \in 1..n : f[k] = g[k][f[k - 1]]
           S == {n \in Nat : n <= N => P(n)}
<1>1. 0 \in S
  <2>1. [k \in 0..0 |-> a] \in [0..0 -> V] /\ [k \in 0..0 |-> a][0] = a
    OBVIOUS
  <2>2. \E f \in [0..0 -> V] : f[0] = a
    BY <2>1
  <2>3. \A k \in 1..0 : FALSE
    OBVIOUS
  <2>4. P(0)
    BY <2>2, <2>3
  <2> QED
    BY <2>4
<1>2. ASSUME NEW n \in S
      PROVE  n + 1 \in S
  <2> SUFFICES ASSUME n + 1 <= N
               PROVE  P(n + 1)
    OBVIOUS
  <2>1. PICK f \in [0..n -> V] : f[0] = a /\ \A k \in 1..n : f[k] = g[k][f[k - 1]]
    OBVIOUS
  <2> DEFINE h == [k \in 0..(n + 1) |-> IF k = n + 1 THEN g[n + 1][f[n]] ELSE f[k]]
  <2>2. f[n] \in V /\ n + 1 \in 1..N /\ g[n + 1] \in [V -> V]
    OBVIOUS
  <2>3. g[n + 1][f[n]] \in V
    BY <2>2
  <2>4. h \in [0..(n + 1) -> V]
    BY <2>3
  <2>5. /\ h[n + 1] = g[n + 1][f[n]] /\ h[0] = f[0]
        /\ \A k \in 0..n : h[k] = f[k]
    OBVIOUS
  <2> HIDE DEF h
  <2>6. ASSUME NEW k \in 1..(n + 1)
        PROVE  h[k] = g[k][h[k - 1]]
    <3>1. k - 1 \in 0..n /\ (k \in 1..n \/ k = n + 1) /\ n \in 0..n
      OBVIOUS
    <3>2. h[k - 1] = f[k - 1] /\ h[n] = f[n]
      BY <2>5, <3>1
    <3>3. CASE k = n + 1
      <4>1. k - 1 = n
        BY <3>3
      <4> QED
        BY <2>5, <3>2, <3>3, <4>1, Zenon
    <3>4. CASE k \in 1..n
      <4>1. h[k] = f[k]
        BY <2>5, <3>4
      <4> QED
        BY <2>1, <3>2, <3>4, <4>1
    <3> QED
      BY <3>1, <3>3, <3>4
  <2> QED
    BY <2>1, <2>4, <2>5, <2>6
<1> HIDE DEF P, S
<1>3. N \in S
  BY <1>1, <1>2, Induction DEF S
<1>4. P(N)
  BY <1>3 DEF S
<1>5. PICK f \in [0..N -> V] : f[0] = a /\ \A k \in 1..N : f[k] = g[k][f[k - 1]]
  BY <1>4 DEF P
<1> QED
  BY <1>5 DEF Recursive

-----------------------------------------------------------------------------
(* Sums and joined sequences. *)

\* t is what Total adds up to, item by item.
TotalOf(t, s) ==
    /\ t \in [0..Len(s) -> Nat] /\ t[0] = 0 /\ Total(s) = t[Len(s)]
    /\ \A k \in 1..Len(s) : t[k] = t[k - 1] + s[k]

\* Total adds one item after the other.
LEMMA TotalSteps ==
    ASSUME NEW s \in Seq(Nat)
    PROVE  \E t : TotalOf(t, s)
<1> DEFINE n == Len(s)
           F(f) == [k \in 0..n |-> IF k = 0 THEN 0 ELSE f[k - 1] + s[k]]
           t == CHOOSE f : f = F(f)
<1>1. n \in Nat /\ s \in [1..n -> Nat]
  OBVIOUS
<1>4. Total(s) = t[n]
  BY DEF Total
<1> HIDE DEF n
<1>2. \E f : f = F(f)
  <2> DEFINE g == [k \in 1..n |-> [v \in Nat |-> v + s[k]]]
  <2>1. g \in [1..n -> [Nat -> Nat]] /\ \A k \in 1..n, v \in Nat : g[k][v] = v + s[k]
    BY <1>1
  <2> HIDE DEF g
  <2>2. PICK f : Recursive(f, n, Nat, 0, g)
    BY <1>1, <2>1, Recursion
  <2>3. \A k \in 1..n : f[k - 1] \in Nat
    BY <1>1, <2>2 DEF Recursive
  <2>4. \A k \in 1..n : g[k][f[k - 1]] = f[k - 1] + s[k]
    BY <2>1, <2>3
  <2>5. f = F(f)
    BY <1>1, <2>2, <2>4 DEF Recursive
  <2> QED
    BY <2>5
<1>3. t = F(t)
  BY <1>2, Zenon
<1>5. DOMAIN t = 0..n /\ t = [k \in 0..n |-> t[k]]
  BY <1>3
<1> HIDE DEF t
<1>6. t[0] = 0 /\ \A k \in 1..n : t[k] = t[k - 1] + s[k]
  BY <1>1, <1>3
<1>7. \A k \in 0..n : t[k] \in Nat
  <2> DEFINE S == {k \in Nat : t[k] \in Nat}
  <2>1. 0 \in S /\ \A k \in 1..n : k - 1 \in S => k \in S
    BY <1>1, <1>6
  <2> HIDE DEF S
  <2>2. \A k \in 0..n : k \in S
    BY <1>1, <2>1, Along
  <2> QED
    BY <2>2 DEF S
<1>8. t \in [0..n -> Nat]
  BY <1>5, <1>7
<1> QED
  BY <1>4, <1>6, <1>8 DEF n, TotalOf

\* c is what FlattenSeq joins, item by item.
FlatOf(c, s) ==
    /\ c \in [0..Len(s) -> Seq(Byte)] /\ c[0] = <<>> /\ FlattenSeq(s) = c[Len(s)]
    /\ \A k \in 1..Len(s) : c[k] = c[k - 1] \o s[k]

\* FlattenSeq joins one part after the other.
LEMMA FlatSteps ==
    ASSUME NEW s \in Seq(Seq(Byte))
    PROVE  \E c : FlatOf(c, s)
<1> DEFINE n == Len(s)
           F(f) == [i \in 1..n |-> IF i = 1 THEN s[i] ELSE f[i - 1] \o s[i]]
           t == CHOOSE f : f = F(f)
           V == Seq(Byte)
           g == [k \in 1..n |-> [v \in V |-> v \o s[k]]]
<1>1. n \in Nat /\ s \in [1..n -> V]
  OBVIOUS
<1>2. n # 0 => FlattenSeq(s) = t[n]
  BY DEF FlattenSeq
<1>3. n = 0 => FlattenSeq(s) = <<>>
  BY DEF FlattenSeq
<1>4. \A v, w \in V : v \o w \in V /\ <<>> \o w = w
  OBVIOUS
<1>5. <<>> \in V
  OBVIOUS
<1> HIDE DEF n, V
<1>6. g \in [1..n -> [V -> V]] /\ \A k \in 1..n, v \in V : g[k][v] = v \o s[k]
  BY <1>1, <1>4
<1> HIDE DEF g
<1>7. PICK c : Recursive(c, n, V, <<>>, g)
  BY <1>1, <1>5, <1>6, Recursion
<1>8. /\ c \in [0..n -> V] /\ c[0] = <<>>
      /\ \A k \in 1..n : c[k] = c[k - 1] \o s[k]
  <2>1. c \in [0..n -> V] /\ c[0] = <<>> /\ \A k \in 1..n : c[k] = g[k][c[k - 1]]
    BY <1>7, Zenon DEF Recursive
  <2>2. \A k \in 1..n : c[k - 1] \in V
    BY <1>1, <2>1
  <2>3. \A k \in 1..n : g[k][c[k - 1]] = c[k - 1] \o s[k]
    BY <1>6, <2>2
  <2> QED
    BY <2>1, <2>3, Zenon
<1>9. \E f : f = F(f)
  <2> DEFINE h == [i \in 1..n |-> c[i]]
  <2>1. \A i \in 1..n : h[i] = IF i = 1 THEN s[i] ELSE h[i - 1] \o s[i]
    <3> SUFFICES ASSUME NEW i \in 1..n
                 PROVE  h[i] = IF i = 1 THEN s[i] ELSE h[i - 1] \o s[i]
      OBVIOUS
    <3>1. CASE i = 1
      <4>1. i - 1 = 0 /\ s[i] \in V
        BY <1>1, <3>1
      <4>2. c[i] = <<>> \o s[i]
        BY <1>8, <4>1
      <4> QED
        BY <1>4, <3>1, <4>1, <4>2
    <3>2. CASE i # 1
      <4>1. i - 1 \in 1..n
        BY <1>1, <3>2
      <4>2. c[i] = c[i - 1] \o s[i]
        BY <1>8, Zenon
      <4>3. h[i] = c[i] /\ h[i - 1] = c[i - 1]
        BY <4>1
      <4> QED
        BY <3>2, <4>2, <4>3, Zenon
    <3> QED
      BY <3>1, <3>2
  <2>2. h = F(h)
    BY <2>1
  <2> QED
    BY <2>2
<1>10. t = F(t)
  BY <1>9, Zenon
<1> HIDE DEF t
<1>11. \A k \in 1..n : t[k] = IF k = 1 THEN s[k] ELSE t[k - 1] \o s[k]
  BY <1>10
<1>12. \A k \in 0..n : k # 0 => t[k] = c[k]
  <2> DEFINE S == {k \in Nat : k # 0 => t[k] = c[k]}
  <2>1. 0 \in S
    OBVIOUS
  <2>2. ASSUME NEW k \in 1..n, k - 1 \in S
        PROVE  t[k] = c[k]
    <3>1. CASE k = 1
      <4>1. k - 1 = 0 /\ s[k] \in V
        BY <1>1, <3>1
      <4>2. c[k] = <<>> \o s[k]
        BY <1>8, <4>1
      <4> QED
        BY <1>4, <1>11, <3>1, <4>1, <4>2
    <3>2. CASE k # 1
      <4>1. t[k - 1] = c[k - 1]
        BY <2>2, <3>2, <1>1
      <4> QED
        BY <1>8, <1>11, <3>2, <4>1, Zenon
    <3> QED
      BY <3>1, <3>2
  <2>3. \A k \in 1..n : k - 1 \in S => k \in S
    BY <1>1, <2>2
  <2> HIDE DEF S
  <2>4. \A k \in 0..n : k \in S
    BY <1>1, <2>1, <2>3, Along
  <2> QED
    BY <2>4 DEF S
<1>13. FlattenSeq(s) = c[n]
  BY <1>1, <1>2, <1>3, <1>8, <1>12
<1> QED
  BY <1>8, <1>13 DEF n, V, FlatOf

\* What is joined is as long as its parts are together.
LEMMA FlatLength ==
    ASSUME NEW s \in Seq(Seq(Byte)), NEW l \in Seq(Nat), Len(l) = Len(s),
           \A k \in 1..Len(s) : l[k] = Len(s[k])
    PROVE  /\ FlattenSeq(s) \in Seq(Byte) /\ Total(l) \in Nat
           /\ Len(FlattenSeq(s)) = Total(l)
<1> DEFINE n == Len(s)
           V == Seq(Byte)
<1>1. n \in Nat /\ \A k \in 1..n : s[k] \in V
  OBVIOUS
<1>2. \A v, w \in V : Len(v \o w) = Len(v) + Len(w) /\ Len(v) \in Nat /\ Len(<<>>) = 0
  OBVIOUS
<1>3. PICK c : FlatOf(c, s)
  BY FlatSteps
<1>4. PICK t : TotalOf(t, l)
  BY TotalSteps
<1>5. \A k \in 1..n : l[k] = Len(s[k])
  OBVIOUS
<1>6. /\ c \in [0..n -> V] /\ c[0] = <<>> /\ FlattenSeq(s) = c[n]
      /\ \A k \in 1..n : c[k] = c[k - 1] \o s[k]
  BY <1>3, Zenon DEF FlatOf
<1>7. /\ t \in [0..n -> Nat] /\ t[0] = 0 /\ Total(l) = t[n]
      /\ \A k \in 1..n : t[k] = t[k - 1] + l[k]
  BY <1>4, Zenon DEF TotalOf
<1> HIDE DEF n, V
<1> DEFINE S == {k \in Nat : Len(c[k]) = t[k]}
<1>8. 0 \in S
  BY <1>2, <1>6, <1>7
<1>9. ASSUME NEW k \in 1..n, k - 1 \in S
      PROVE  k \in S
  <2>1. k \in 0..n /\ k - 1 \in 0..n
    BY <1>1
  <2>2. c[k - 1] \in V /\ s[k] \in V /\ c[k] = c[k - 1] \o s[k]
    BY <1>1, <1>6, <2>1
  <2>3. t[k] = t[k - 1] + Len(s[k])
    BY <1>5, <1>7
  <2>4. Len(c[k - 1]) = t[k - 1]
    BY <1>9
  <2>5. Len(c[k]) = Len(c[k - 1]) + Len(s[k])
    BY <1>2, <2>2, Zenon
  <2>6. Len(c[k]) = t[k]
    BY <2>3, <2>4, <2>5, Zenon
  <2> QED
    BY <2>1, <2>6, <1>1
<1>10. \A k \in 0..n : k \in S
  <2> HIDE DEF S
  <2> QED
    BY <1>1, <1>8, <1>9, Along
<1>11. n \in S
  BY <1>1, <1>10
<1>12. Len(c[n]) = t[n]
  BY <1>11
<1> QED
  BY <1>1, <1>6, <1>7, <1>12 DEF V

\* A sum of n items between a and b is between a * n and b * n.
LEMMA TotalBetween ==
    ASSUME NEW s \in Seq(Nat), NEW a \in Nat, NEW b \in Nat,
           \A k \in 1..Len(s) : a <= s[k] /\ s[k] <= b
    PROVE  Total(s) \in Nat /\ a * Len(s) <= Total(s) /\ Total(s) <= b * Len(s)
<1> DEFINE n == Len(s)
<1>1. n \in Nat /\ \A k \in 1..n : s[k] \in Nat /\ a <= s[k] /\ s[k] <= b
  OBVIOUS
<1>2. PICK t : TotalOf(t, s)
  BY TotalSteps
<1>3. /\ t \in [0..n -> Nat] /\ t[0] = 0 /\ Total(s) = t[n]
      /\ \A k \in 1..n : t[k] = t[k - 1] + s[k]
  BY <1>2, Zenon DEF TotalOf
<1> HIDE DEF n
<1> DEFINE S == {k \in Nat : a * k <= t[k] /\ t[k] <= b * k}
<1>4. 0 \in S
  BY <1>3
<1>5. ASSUME NEW k \in 1..n, k - 1 \in S
      PROVE  k \in S
  <2>1. k \in Nat /\ k - 1 \in Nat /\ t[k - 1] \in Nat /\ t[k] = t[k - 1] + s[k]
    BY <1>1, <1>3
  <2>2. a * k = a * (k - 1) + a /\ b * k = b * (k - 1) + b
    BY <2>1
  <2> QED
    BY <1>1, <1>5, <2>1, <2>2
<1>6. n \in S
  <2> HIDE DEF S
  <2>1. \A k \in 0..n : k \in S
    BY <1>1, <1>4, <1>5, Along
  <2> QED
    BY <1>1, <2>1
<1> QED
  BY <1>1, <1>3, <1>6, SMTT(30) DEF n

\* Appending an item adds it to the sum.
LEMMA TotalAppend ==
    ASSUME NEW s \in Seq(Nat), NEW v \in Nat
    PROVE  Total(s) \in Nat /\ Total(Append(s, v)) = Total(s) + v
<1> DEFINE n == Len(s)
           u == Append(s, v)
<1>1. /\ n \in Nat /\ u \in Seq(Nat) /\ Len(u) = n + 1 /\ u[n + 1] = v
      /\ \A k \in 1..n : u[k] = s[k] /\ s[k] \in Nat
  OBVIOUS
<1> HIDE DEF u
<1>2. PICK t : TotalOf(t, s)
  BY TotalSteps
<1>3. PICK r : TotalOf(r, u)
  BY <1>1, TotalSteps
<1>4. /\ t \in [0..n -> Nat] /\ t[0] = 0 /\ Total(s) = t[n]
      /\ \A k \in 1..n : t[k] = t[k - 1] + s[k]
  BY <1>2, Zenon DEF TotalOf
<1>5. /\ r \in [0..(n + 1) -> Nat] /\ r[0] = 0 /\ Total(u) = r[n + 1]
      /\ \A k \in 1..(n + 1) : r[k] = r[k - 1] + u[k]
  BY <1>1, <1>3, Zenon DEF TotalOf
<1> HIDE DEF n
<1> DEFINE S == {k \in Nat : r[k] = t[k]}
<1>6. 0 \in S
  BY <1>4, <1>5
<1>7. ASSUME NEW k \in 1..n, k - 1 \in S
      PROVE  k \in S
  BY <1>1, <1>4, <1>5, <1>7
<1>8. n \in S
  <2> HIDE DEF S
  <2>1. \A k \in 0..n : k \in S
    BY <1>1, <1>6, <1>7, Along
  <2> QED
    BY <1>1, <2>1
<1>9. r[n + 1] = r[n] + v /\ r[n] = t[n]
  BY <1>1, <1>5, <1>8
<1> QED
  BY <1>1, <1>4, <1>5, <1>9 DEF n, u

-----------------------------------------------------------------------------
(* The levels of a message. *)

\* Nested goes down one level of submessages after the other.
LEMMA NestedLevels ==
    ASSUME NEW message
    PROVE  /\ Nested(message)[0] = {message}
           /\ \A k \in 1..MaxNesting :
                 Nested(message)[k] = UNION {Submessages(m) : m \in Nested(message)[k - 1]}
<1> DEFINE U(l) == UNION {Submessages(m) : m \in l}
           F(f) == [k \in 0..MaxNesting |-> IF k = 0 THEN {message} ELSE U(f[k - 1])]
           level == CHOOSE f : f = F(f)
<1>1. MaxNesting \in Nat
  BY NestingAssumption
<1>2. Nested(message) = level
  BY DEF Nested
<1>3. \E f : f = F(f)
  <2> DEFINE P(k) == \E f : /\ f[0] = {message}
                            /\ \A n \in 1..k : f[n] = U(f[n - 1])
             S == {k \in Nat : P(k)}
  <2> HIDE DEF U
  <2>1. 0 \in S
    <3>1. [n \in 0..0 |-> {message}][0] = {message} /\ 0 \in Nat
      OBVIOUS
    <3>2. \A n \in 1..0 : FALSE
      OBVIOUS
    <3> QED
      BY <3>1, <3>2
  <2>2. ASSUME NEW k \in S
        PROVE  k + 1 \in S
    <3>1. PICK f : f[0] = {message} /\ \A n \in 1..k : f[n] = U(f[n - 1])
      OBVIOUS
    <3> DEFINE h == [n \in 0..(k + 1) |-> IF n = k + 1 THEN U(f[k]) ELSE f[n]]
    <3>2. h[k + 1] = U(f[k]) /\ \A n \in 0..k : h[n] = f[n]
      OBVIOUS
    <3>3. 0 \in 0..k /\ k \in 0..k /\ \A n \in 1..(k + 1) : n = k + 1 \/ n \in 1..k
      OBVIOUS
    <3> HIDE DEF h
    <3>4. h[0] = {message} /\ h[k + 1] = U(h[k])
      BY <3>1, <3>2, <3>3, Zenon
    <3>5. ASSUME NEW n \in 1..k
          PROVE  h[n] = U(h[n - 1])
      <4>1. n \in 0..k /\ n - 1 \in 0..k
        OBVIOUS
      <4> QED
        BY <3>1, <3>2, <4>1, Zenon
    <3>6. (k + 1) - 1 = k /\ k + 1 \in Nat
      OBVIOUS
    <3>7. h[k + 1] = U(h[(k + 1) - 1])
      BY <3>4, <3>6, Zenon
    <3>8. \A n \in 1..(k + 1) : h[n] = U(h[n - 1])
      BY <3>3, <3>5, <3>7, Zenon
    <3> QED
      BY <3>4, <3>6, <3>8, Zenon
  <2> HIDE DEF P
  <2>3. MaxNesting \in S
    <3> HIDE DEF S
    <3>1. S \in SUBSET Nat
      BY DEF S
    <3> QED
      BY <1>1, <2>1, <2>2, <3>1, Induction
  <2>4. PICK f : f[0] = {message} /\ \A n \in 1..MaxNesting : f[n] = U(f[n - 1])
    BY <2>3 DEF P
  <2> DEFINE h == [n \in 0..MaxNesting |-> f[n]]
  <2>5. ASSUME NEW n \in 0..MaxNesting
        PROVE  h[n] = IF n = 0 THEN {message} ELSE U(h[n - 1])
    <3>1. CASE n = 0
      BY <2>4, <3>1, Zenon
    <3>2. CASE n # 0
      <4>1. n \in 1..MaxNesting /\ n - 1 \in 0..MaxNesting
        BY <1>1, <3>2
      <4>2. h[n] = f[n] /\ h[n - 1] = f[n - 1]
        BY <4>1, Zenon
      <4> QED
        BY <2>4, <3>2, <4>1, <4>2, Zenon
    <3> QED
      BY <3>1, <3>2
  <2>6. h = F(h)
    BY <2>5, Zenon
  <2> QED
    BY <2>6, Zenon
<1>4. level = F(level)
  BY <1>3, Zenon
<1> HIDE DEF level
<1>5. 0 \in 0..MaxNesting
  BY <1>1
<1>6. level[0] = {message}
  BY <1>4, <1>5, Zenon
<1>7. ASSUME NEW k \in 1..MaxNesting
      PROVE  level[k] = U(level[k - 1])
  <2>1. k \in 0..MaxNesting /\ k # 0
    BY <1>1
  <2> QED
    BY <1>4, <2>1, Zenon
<1> QED
  BY <1>2, <1>6, <1>7, Zenon

\* What a function that calls itself for the submessages returns, by level.
SizesOf(packed_size, message) ==
    /\ protobuf_c_message_get_packed_size(message) = packed_size[MaxNesting][message]
    /\ \A n \in 0..MaxNesting :
          packed_size[n] = [m \in Nested(message)[MaxNesting - n] |->
              message_get_packed_size(IF n = 0 THEN <<>> ELSE packed_size[n - 1], m)]
PacksOf(packed, message) ==
    /\ protobuf_c_message_pack(message) = packed[MaxNesting][message]
    /\ \A n \in 0..MaxNesting :
          packed[n] = [m \in Nested(message)[MaxNesting - n] |->
              message_pack(IF n = 0 THEN <<>> ELSE packed[n - 1], m)]

\* The sizes of the messages on each level are those made of the level below.
LEMMA SizeLevels ==
    ASSUME NEW message
    PROVE  \E packed_size : SizesOf(packed_size, message)
<1> DEFINE D(n) == Nested(message)[MaxNesting - n]
           G(n, f) == [m \in D(n) |-> message_get_packed_size(f, m)]
           F(f) == [n \in 0..MaxNesting |-> G(n, IF n = 0 THEN <<>> ELSE f[n - 1])]
           packed_size == CHOOSE f : f = F(f)
<1>1. MaxNesting \in Nat
  BY NestingAssumption
<1>2. protobuf_c_message_get_packed_size(message) = packed_size[MaxNesting][message]
  BY DEF protobuf_c_message_get_packed_size
<1> HIDE DEF D
<1>3. \E f : f = F(f)
  <2> DEFINE P(k) == \E f : /\ f[0] = G(0, <<>>)
                            /\ \A n \in 1..k : f[n] = G(n, f[n - 1])
             S == {k \in Nat : P(k)}
  <2> HIDE DEF G
  <2>1. 0 \in S
    <3>1. [n \in 0..0 |-> G(0, <<>>)][0] = G(0, <<>>) /\ 0 \in Nat
      OBVIOUS
    <3>2. \A n \in 1..0 : FALSE
      OBVIOUS
    <3> QED
      BY <3>1, <3>2
  <2>2. ASSUME NEW k \in S
        PROVE  k + 1 \in S
    <3>1. PICK f : f[0] = G(0, <<>>) /\ \A n \in 1..k : f[n] = G(n, f[n - 1])
      OBVIOUS
    <3> DEFINE h == [n \in 0..(k + 1) |-> IF n = k + 1 THEN G(k + 1, f[k]) ELSE f[n]]
    <3>2. h[k + 1] = G(k + 1, f[k]) /\ \A n \in 0..k : h[n] = f[n]
      OBVIOUS
    <3>3. 0 \in 0..k /\ k \in 0..k /\ \A n \in 1..(k + 1) : n = k + 1 \/ n \in 1..k
      OBVIOUS
    <3> HIDE DEF h
    <3>4. h[0] = G(0, <<>>) /\ h[k + 1] = G(k + 1, h[k])
      BY <3>1, <3>2, <3>3, Zenon
    <3>5. ASSUME NEW n \in 1..k
          PROVE  h[n] = G(n, h[n - 1])
      <4>1. n \in 0..k /\ n - 1 \in 0..k
        OBVIOUS
      <4> QED
        BY <3>1, <3>2, <4>1, Zenon
    <3>6. (k + 1) - 1 = k /\ k + 1 \in Nat
      OBVIOUS
    <3>7. h[k + 1] = G(k + 1, h[(k + 1) - 1])
      BY <3>4, <3>6, Zenon
    <3>8. \A n \in 1..(k + 1) : h[n] = G(n, h[n - 1])
      BY <3>3, <3>5, <3>7, Zenon
    <3> QED
      BY <3>4, <3>6, <3>8, Zenon
  <2> HIDE DEF P
  <2>3. MaxNesting \in S
    <3> HIDE DEF S
    <3>1. S \in SUBSET Nat
      BY DEF S
    <3> QED
      BY <1>1, <2>1, <2>2, <3>1, Induction
  <2>4. PICK f : f[0] = G(0, <<>>) /\ \A n \in 1..MaxNesting : f[n] = G(n, f[n - 1])
    BY <2>3 DEF P
  <2> DEFINE h == [n \in 0..MaxNesting |-> f[n]]
  <2>5. ASSUME NEW n \in 0..MaxNesting
        PROVE  h[n] = G(n, IF n = 0 THEN <<>> ELSE h[n - 1])
    <3>1. CASE n = 0
      BY <2>4, <3>1, Zenon
    <3>2. CASE n # 0
      <4>1. n \in 1..MaxNesting /\ n - 1 \in 0..MaxNesting
        BY <1>1, <3>2
      <4>2. h[n] = f[n] /\ h[n - 1] = f[n - 1]
        BY <4>1, Zenon
      <4> QED
        BY <2>4, <3>2, <4>1, <4>2, Zenon
    <3> QED
      BY <3>1, <3>2
  <2>6. h = F(h)
    BY <2>5, Zenon
  <2> QED
    BY <2>6, Zenon
<1>4. packed_size = F(packed_size)
  BY <1>3, Zenon
<1> HIDE DEF packed_size
<1>5. \A n \in 0..MaxNesting :
          packed_size[n] = G(n, IF n = 0 THEN <<>> ELSE packed_size[n - 1])
  BY <1>4, Zenon
<1> QED
  BY <1>2, <1>5, Zenon DEF SizesOf, D

\* The bytes of the messages on each level are those made of the level below.
LEMMA PackLevels ==
    ASSUME NEW message
    PROVE  \E packed : PacksOf(packed, message)
<1> DEFINE D(n) == Nested(message)[MaxNesting - n]
           G(n, f) == [m \in D(n) |-> message_pack(f, m)]
           F(f) == [n \in 0..MaxNesting |-> G(n, IF n = 0 THEN <<>> ELSE f[n - 1])]
           packed == CHOOSE f : f = F(f)
<1>1. MaxNesting \in Nat
  BY NestingAssumption
<1>2. protobuf_c_message_pack(message) = packed[MaxNesting][message]
  BY DEF protobuf_c_message_pack
<1> HIDE DEF D
<1>3. \E f : f = F(f)
  <2> DEFINE P(k) == \E f : /\ f[0] = G(0, <<>>)
                            /\ \A n \in 1..k : f[n] = G(n, f[n - 1])
             S == {k \in Nat : P(k)}
  <2> HIDE DEF G
  <2>1. 0 \in S
    <3>1. [n \in 0..0 |-> G(0, <<>>)][0] = G(0, <<>>) /\ 0 \in Nat
      OBVIOUS
    <3>2. \A n \in 1..0 : FALSE
      OBVIOUS
    <3> QED
      BY <3>1, <3>2
  <2>2. ASSUME NEW k \in S
        PROVE  k + 1 \in S
    <3>1. PICK f : f[0] = G(0, <<>>) /\ \A n \in 1..k : f[n] = G(n, f[n - 1])
      OBVIOUS
    <3> DEFINE h == [n \in 0..(k + 1) |-> IF n = k + 1 THEN G(k + 1, f[k]) ELSE f[n]]
    <3>2. h[k + 1] = G(k + 1, f[k]) /\ \A n \in 0..k : h[n] = f[n]
      OBVIOUS
    <3>3. 0 \in 0..k /\ k \in 0..k /\ \A n \in 1..(k + 1) : n = k + 1 \/ n \in 1..k
      OBVIOUS
    <3> HIDE DEF h
    <3>4. h[0] = G(0, <<>>) /\ h[k + 1] = G(k + 1, h[k])
      BY <3>1, <3>2, <3>3, Zenon
    <3>5. ASSUME NEW n \in 1..k
          PROVE  h[n] = G(n, h[n - 1])
      <4>1. n \in 0..k /\ n - 1 \in 0..k
        OBVIOUS
      <4> QED
        BY <3>1, <3>2, <4>1, Zenon
    <3>6. (k + 1) - 1 = k /\ k + 1 \in Nat
      OBVIOUS
    <3>7. h[k + 1] = G(k + 1, h[(k + 1) - 1])
      BY <3>4, <3>6, Zenon
    <3>8. \A n \in 1..(k + 1) : h[n] = G(n, h[n - 1])
      BY <3>3, <3>5, <3>7, Zenon
    <3> QED
      BY <3>4, <3>6, <3>8, Zenon
  <2> HIDE DEF P
  <2>3. MaxNesting \in S
    <3> HIDE DEF S
    <3>1. S \in SUBSET Nat
      BY DEF S
    <3> QED
      BY <1>1, <2>1, <2>2, <3>1, Induction
  <2>4. PICK f : f[0] = G(0, <<>>) /\ \A n \in 1..MaxNesting : f[n] = G(n, f[n - 1])
    BY <2>3 DEF P
  <2> DEFINE h == [n \in 0..MaxNesting |-> f[n]]
  <2>5. ASSUME NEW n \in 0..MaxNesting
        PROVE  h[n] = G(n, IF n = 0 THEN <<>> ELSE h[n - 1])
    <3>1. CASE n = 0
      BY <2>4, <3>1, Zenon
    <3>2. CASE n # 0
      <4>1. n \in 1..MaxNesting /\ n - 1 \in 0..MaxNesting
        BY <1>1, <3>2
      <4>2. h[n] = f[n] /\ h[n - 1] = f[n - 1]
        BY <4>1, Zenon
      <4> QED
        BY <2>4, <3>2, <4>1, <4>2, Zenon
    <3> QED
      BY <3>1, <3>2
  <2>6. h = F(h)
    BY <2>5, Zenon
  <2> QED
    BY <2>6, Zenon
<1>4. packed = F(packed)
  BY <1>3, Zenon
<1> HIDE DEF packed
<1>5. \A n \in 0..MaxNesting :
          packed[n] = G(n, IF n = 0 THEN <<>> ELSE packed[n - 1])
  BY <1>4, Zenon
<1> QED
  BY <1>2, <1>5, Zenon DEF PacksOf, D

-----------------------------------------------------------------------------
(* What is written of one value, and how much. *)

\* The bounds at which a number takes one more byte of seven bits.
LEMMA WordSevens ==
    ASSUME NEW n \in 0..(2^31 - 1)
    PROVE  /\ Below(Word(n), 7) <=> n < 2^7
           /\ Below(Word(n), 14) <=> n < 2^14
           /\ Below(Word(n), 21) <=> n < 2^21
           /\ Below(Word(n), 28) <=> n < 2^28
<1> DEFINE w == Word(n)
           a(i) == Nibble(w, i)
<1>1. w \in SUBSET (0..30) /\ w \in SUBSET Nat
  BY WordBits
<1>2. /\ a(0) = n % 16 /\ a(4) = (n \div 2^4) % 16 /\ a(8) = (n \div 2^8) % 16
      /\ a(12) = (n \div 2^12) % 16 /\ a(16) = (n \div 2^16) % 16
      /\ a(20) = (n \div 2^20) % 16 /\ a(24) = (n \div 2^24) % 16
      /\ a(28) = (n \div 2^28) % 16
  BY WordNibbles, Zenon
<1>3. \A i \in Nat :
        /\ a(i) = 0 => i \notin w /\ i + 1 \notin w /\ i + 2 \notin w /\ i + 3 \notin w
        /\ i + 1 \notin w /\ i + 2 \notin w /\ i + 3 \notin w => a(i) < 2
        /\ i + 2 \notin w /\ i + 3 \notin w => a(i) < 4
        /\ i + 3 \notin w => a(i) < 8
        /\ a(i) < 8 => i + 3 \notin w
        /\ a(i) < 4 => i + 2 \notin w /\ i + 3 \notin w
        /\ a(i) < 2 => i + 1 \notin w /\ i + 2 \notin w /\ i + 3 \notin w
  BY NibbleClear, Zenon
<1>4. \A b \in Nat : Below(w, b) => \A i \in Nat : b <= i => a(i) = 0
  BY <1>1, NibbleAbove, Zenon
<1>5. \A b \in Nat : Below(w, b) <=> \A i \in 0..30 : i \in w => i < b
  BY <1>1 DEF Below, Bits
<1> HIDE DEF w, a
<1>6. Below(w, 7) <=> n < 2^7
  <2>1. ASSUME Below(w, 7) PROVE n < 2^7
    <3>1. a(8) = 0 /\ a(12) = 0 /\ a(16) = 0 /\ a(20) = 0 /\ a(24) = 0 /\ a(28) = 0
      BY <1>4, <2>1
    <3>2. 7 \notin w
      BY <1>5, <2>1
    <3>3. a(4) < 8
      BY <1>3, <3>2
    <3> QED
      BY <1>2, <3>1, <3>3
  <2>2. ASSUME n < 2^7 PROVE Below(w, 7)
    <3>1. a(4) < 8 /\ a(8) = 0 /\ a(12) = 0 /\ a(16) = 0 /\ a(20) = 0 /\ a(24) = 0 /\ a(28) = 0
      BY <1>2, <2>2
    <3>2. \A i \in 7..30 : i \notin w
      BY <1>3, <3>1
    <3> QED
      BY <1>5, <3>2
  <2> QED
    BY <2>1, <2>2
<1>7. Below(w, 14) <=> n < 2^14
  <2>1. ASSUME Below(w, 14) PROVE n < 2^14
    <3>1. a(16) = 0 /\ a(20) = 0 /\ a(24) = 0 /\ a(28) = 0
      BY <1>4, <2>1
    <3>2. 14 \notin w /\ 15 \notin w
      BY <1>5, <2>1
    <3>3. a(12) < 4
      BY <1>3, <3>2
    <3> QED
      BY <1>2, <3>1, <3>3
  <2>2. ASSUME n < 2^14 PROVE Below(w, 14)
    <3>1. a(12) < 4 /\ a(16) = 0 /\ a(20) = 0 /\ a(24) = 0 /\ a(28) = 0
      BY <1>2, <2>2
    <3>2. \A i \in 14..30 : i \notin w
      BY <1>3, <3>1
    <3> QED
      BY <1>5, <3>2
  <2> QED
    BY <2>1, <2>2
<1>8. Below(w, 21) <=> n < 2^21
  <2>1. ASSUME Below(w, 21) PROVE n < 2^21
    <3>1. a(24) = 0 /\ a(28) = 0
      BY <1>4, <2>1
    <3>2. 21 \notin w /\ 22 \notin w /\ 23 \notin w
      BY <1>5, <2>1
    <3>3. a(20) < 2
      BY <1>3, <3>2
    <3> QED
      BY <1>2, <3>1, <3>3
  <2>2. ASSUME n < 2^21 PROVE Below(w, 21)
    <3>1. a(20) < 2 /\ a(24) = 0 /\ a(28) = 0
      BY <1>2, <2>2
    <3>2. \A i \in 21..30 : i \notin w
      BY <1>3, <3>1
    <3> QED
      BY <1>5, <3>2
  <2> QED
    BY <2>1, <2>2
<1>9. Below(w, 28) <=> n < 2^28
  <2>1. ASSUME Below(w, 28) PROVE n < 2^28
    <3>1. a(28) = 0
      BY <1>4, <2>1
    <3> QED
      BY <1>2, <3>1
  <2>2. ASSUME n < 2^28 PROVE Below(w, 28)
    <3>1. a(28) = 0
      BY <1>2, <2>2
    <3>2. \A i \in 28..30 : i \notin w
      BY <1>3, <3>1
    <3> QED
      BY <1>5, <3>2
  <2> QED
    BY <2>1, <2>2
<1> QED
  BY <1>6, <1>7, <1>8, <1>9 DEF w

\* The size of a length: between 1 and 5, and at most one more for a length of
\* ten times as much.
LEMMA LengthSizes ==
    ASSUME NEW n \in Nat, NEW m \in Nat, n <= m, m <= 10 * n, m <= 2^31 - 1
    PROVE  uint32_size(Word(m)) \in uint32_size(Word(n))..(uint32_size(Word(n)) + 1)
<1> DEFINE size(k) == IF k < 2^7 THEN 1 ELSE IF k < 2^14 THEN 2
                      ELSE IF k < 2^21 THEN 3 ELSE IF k < 2^28 THEN 4 ELSE 5
<1>1. n \in 0..(2^31 - 1) /\ m \in 0..(2^31 - 1)
  OBVIOUS
<1>2. \A k \in 0..(2^31 - 1) : uint32_size(Word(k)) = size(k)
  BY WordSevens DEF uint32_size
<1>3. size(m) \in size(n)..(size(n) + 1)
  OBVIOUS
<1> HIDE DEF size
<1> QED
  BY <1>1, <1>2, <1>3

\* n bytes.
Written(bytes, n) == bytes \in Seq(Byte) /\ n \in Nat /\ Len(bytes) = n

\* Two things written one after the other.
LEMMA WrittenJoined ==
    ASSUME NEW a, NEW b, NEW m, NEW n, Written(a, m), Written(b, n)
    PROVE  Written(a \o b, m + n)
BY DEF Written

\* uint32_size counts the bytes uint32_pack writes of a length.
LEMMA LengthWritten ==
    ASSUME NEW n
    PROVE  Written(uint32_pack(Word(n)), uint32_size(Word(n)))
<1>1. Word(n) \in SUBSET (0..30)
  BY WordBits
<1>2. Word(n) \in SUBSET Bits(32)
  BY <1>1 DEF Bits
<1> QED
  BY <1>2, Uint32Spells DEF Written, Spells

\* The length before some bytes counts.
LEMMA PrefixedWritten ==
    ASSUME NEW bytes, NEW n, Written(bytes, n)
    PROVE  Written(Prefixed(bytes), uint32_size(Word(n)) + n)
<1>1. Written(uint32_pack(Word(n)), uint32_size(Word(n)))
  BY LengthWritten
<1>2. Len(bytes) = n
  BY DEF Written
<1>3. Prefixed(bytes) = uint32_pack(Word(n)) \o bytes
  BY <1>2 DEF Prefixed
<1> QED
  BY <1>1, <1>3, WrittenJoined

\* get_tag_size counts the bytes tag_pack writes, the wire type in the first.
LEMMA TagWritten ==
    ASSUME NEW id \in FieldNumbers, NEW wire_type \in 0..5
    PROVE  Written(Tagged(id, wire_type), get_tag_size(id))
<1> DEFINE t == tag_pack(id)
           x == Shl(Word(id), 3, 64)
           w == Word(wire_type)
           g == Tagged(id, wire_type)
<1>1. id \in 0..(2^31 - 1)
  BY DEF FieldNumbers
<1>2. Spells(t, x) /\ Len(t) = get_tag_size(id)
  BY <1>1, TagSpells
<1>3. Word(id) \in SUBSET (0..30) /\ Word(id) \in SUBSET Nat
  BY WordBits
<1>4. x \in SUBSET Bits(64) /\ \A i \in Nat : i \in x <=> i < 64 /\ i >= 3 /\ i - 3 \in Word(id)
  BY <1>3, 3 \in Nat, 64 \in Nat, ShlBits
<1>5. w \in SUBSET (0..2)
  <2>1. wire_type \in Nat /\ wire_type < 2^4 /\ wire_type \in 0..(2^31 - 1)
    OBVIOUS
  <2>2. Below(w, 4)
    BY <2>1, WordBelow
  <2>3. Nibble(w, 0) = wire_type
    <3>1. Nibble(w, 0) = wire_type % 16
      BY <2>1, WordNibbles, Zenon
    <3>2. wire_type % 16 = wire_type
      BY <2>1
    <3> QED
      BY <3>1, <3>2, Zenon
  <2>4. 0 + 3 \notin w
    BY <2>3, NibbleClear
  <2> QED
    BY <2>2, <2>4 DEF Below, Bits
<1>6. g = <<t[1] \cup w>> \o Tail(t)
  BY Zenon DEF Tagged
<1> HIDE DEF t, x, w, g
<1>7. x \in SUBSET (3..33)
  <2>1. ASSUME NEW i \in x PROVE i \in 3..33
    <3>1. i \in Nat
      BY <1>4 DEF Bits
    <3>2. i >= 3 /\ i - 3 \in 0..30
      BY <1>3, <1>4, <3>1
    <3> QED
      BY <3>1, <3>2
  <2> QED
    BY <2>1, Zenon
<1>8. Spells(g, x \cup w) /\ Len(g) = Len(t)
  BY <1>2, <1>5, <1>6, <1>7, TaggedSpells
<1>9. get_tag_size(id) \in Nat
  BY DEF get_tag_size
<1> QED
  BY <1>2, <1>8, <1>9 DEF Written, Spells, g

\* What spells a word is bytes.
LEMMA SpelledWritten ==
    ASSUME NEW d, NEW v, Spells(d, v), NEW n, Len(d) = n
    PROVE  Written(d, n) /\ n \in 1..10
BY DEF Written, Spells

\* The size functions of 32 bits count what the writers of 32 bits write.
LEMMA Word32Written ==
    ASSUME NEW v \in SUBSET Bits(32)
    PROVE  /\ Written(uint32_pack(v), uint32_size(v)) /\ uint32_size(v) \in 1..10
           /\ Written(int32_pack(v), int32_size(v)) /\ int32_size(v) \in 1..10
           /\ Written(sint32_pack(v), sint32_size(v)) /\ sint32_size(v) \in 1..10
           /\ Written(fixed32_pack(v), 4)
<1>1. \A w \in SUBSET Bits(32) :
        Written(uint32_pack(w), uint32_size(w)) /\ uint32_size(w) \in 1..10
  BY Uint32Spells, SpelledWritten, Zenon
<1>2. Written(int32_pack(v), int32_size(v)) /\ int32_size(v) \in 1..10
  BY Int32Spells, SpelledWritten, Zenon
<1>3. zigzag32(v) \in SUBSET Bits(32)
  <2>1. 32 - 1 = 31 /\ 32 \in Nat
    OBVIOUS
  <2>2. zigzag32(v) = Zigzag(v, 32)
    BY <2>1 DEF zigzag32, Zigzag
  <2> QED
    BY <2>1, <2>2, ZigzagWord
<1>4. Written(sint32_pack(v), sint32_size(v)) /\ sint32_size(v) \in 1..10
  BY <1>1, <1>3 DEF sint32_pack, sint32_size
<1>5. Written(fixed32_pack(v), 4)
  <2>1. \A k \in 1..4 : Low(Shr(v, 8 * (k - 1)), 8) \in Byte
    BY DEF Low, Byte
  <2>2. fixed32_pack(v) \in [1..4 -> Byte]
    BY <2>1, Zenon DEF fixed32_pack
  <2> QED
    BY <2>2, FunctionSeq, 4 \in Nat DEF Written
<1> QED
  BY <1>1, <1>2, <1>4, <1>5

\* The size functions of 64 bits count what the writers of 64 bits write.
LEMMA Word64Written ==
    ASSUME NEW v \in SUBSET Bits(64)
    PROVE  /\ Written(uint64_pack(v), uint64_size(v)) /\ uint64_size(v) \in 1..10
           /\ Written(sint64_pack(v), sint64_size(v)) /\ sint64_size(v) \in 1..10
           /\ Written(fixed64_pack(v), 8)
<1>1. \A w \in SUBSET Bits(64) :
        Written(uint64_pack(w), uint64_size(w)) /\ uint64_size(w) \in 1..10
  BY Uint64Spells, SpelledWritten, Zenon
<1>2. zigzag64(v) \in SUBSET Bits(64)
  <2>1. 64 - 1 = 63 /\ 64 \in Nat
    OBVIOUS
  <2>2. zigzag64(v) = Zigzag(v, 64)
    BY <2>1 DEF zigzag64, Zigzag
  <2> QED
    BY <2>1, <2>2, ZigzagWord
<1>3. Written(sint64_pack(v), sint64_size(v)) /\ sint64_size(v) \in 1..10
  BY <1>1, <1>2 DEF sint64_pack, sint64_size
<1>4. Written(fixed64_pack(v), 8)
  <2>1. \A k \in 1..8 : Low(Shr(v, 8 * (k - 1)), 8) \in Byte
    BY DEF Low, Byte
  <2>2. fixed64_pack(v) \in [1..8 -> Byte]
    BY <2>1, Zenon DEF fixed64_pack
  <2> QED
    BY <2>2, FunctionSeq, 8 \in Nat DEF Written
<1> QED
  BY <1>1, <1>3, <1>4

\* A value of a type whose values are packed side by side.
IsScalar(type) == type \in Types /\ type \notin Text \cup {"MESSAGE"}

\* A number takes scalar_size bytes, between the least of its type and ten.
LEMMA ScalarWritten ==
    ASSUME NEW type, IsScalar(type), NEW v, IsValue(type, v)
    PROVE  /\ Written(scalar_pack(type, v), scalar_size(type, v))
           /\ scalar_size(type, v) \in get_type_min_size(type)..10
           /\ type \in Fixed32 \cup Fixed64 => scalar_size(type, v) = get_type_min_size(type)
<1>1. CASE type \in {"ENUM", "INT32", "SINT32", "UINT32"} \cup Fixed32
  <2>1. v \in SUBSET Bits(32)
    BY <1>1 DEF IsValue, Fixed32, Fixed64, Text
  <2>2. /\ Written(uint32_pack(v), uint32_size(v)) /\ uint32_size(v) \in 1..10
        /\ Written(int32_pack(v), int32_size(v)) /\ int32_size(v) \in 1..10
        /\ Written(sint32_pack(v), sint32_size(v)) /\ sint32_size(v) \in 1..10
        /\ Written(fixed32_pack(v), 4)
    BY <2>1, Word32Written, Zenon
  <2> QED
    BY <1>1, <2>2 DEF scalar_pack, scalar_size, get_type_min_size, Fixed32, Fixed64
<1>2. CASE type \in {"INT64", "SINT64", "UINT64"} \cup Fixed64
  <2>1. v \in SUBSET Bits(64)
    BY <1>2 DEF IsValue, Fixed32, Fixed64, Text
  <2>2. /\ Written(uint64_pack(v), uint64_size(v)) /\ uint64_size(v) \in 1..10
        /\ Written(sint64_pack(v), sint64_size(v)) /\ sint64_size(v) \in 1..10
        /\ Written(fixed64_pack(v), 8)
    BY <2>1, Word64Written, Zenon
  <2> QED
    BY <1>2, <2>2 DEF scalar_pack, scalar_size, get_type_min_size, Fixed32, Fixed64
<1>3. CASE type = "BOOL"
  <2>1. Written(boolean_pack(v), 1)
    <3>1. \A b \in Byte : <<b>> \in Seq(Byte) /\ Len(<<b>>) = 1
      OBVIOUS
    <3>2. {} \in Byte /\ {0} \in Byte
      BY DEF Byte, Bits
    <3> QED
      BY <3>1, <3>2 DEF Written, boolean_pack
  <2> QED
    BY <1>3, <2>1 DEF scalar_pack, scalar_size, get_type_min_size, Fixed32, Fixed64
<1> QED
  BY <1>1, <1>2, <1>3 DEF IsScalar, Types, Text, Fixed32, Fixed64

\* What a string or bytes hold is bytes.
LEMMA ContentWritten ==
    ASSUME NEW type \in Text, NEW p, IsValue(type, p)
    PROVE  Written(Content(type, p), Len(Content(type, p)))
<1>1. p = NULL \/ p[1].s \in Seq(Byte)
  BY DEF IsValue, Text, Fixed32, Fixed64
<1> DEFINE s == p[1].s
<1> SUFFICES Content(type, p) \in Seq(Byte)
  BY DEF Written
<1>2. CASE p = NULL
  BY <1>2 DEF Content
<1>3. CASE p # NULL /\ type # "STRING"
  BY <1>1, <1>3, Zenon DEF Content
<1>4. CASE p # NULL /\ type = "STRING"
  <2>1. s \in Seq(Byte) /\ Content(type, p) = SubSeq(s, 1, strlen(s))
    BY <1>1, <1>4, Zenon DEF Content
  <2> HIDE DEF s
  <2>2. strlen(s) \in 0..Len(s)
    <3> DEFINE Z == {k \in DOMAIN s : s[k] = {}}
    <3>1. CASE Z = {}
      BY <2>1, <3>1 DEF strlen
    <3>2. CASE Z # {}
      <4>1. Z \in SUBSET Nat /\ Z \in SUBSET (1..Len(s))
        BY <2>1
      <4>2. \E n \in Z : \A m \in Z : n <= m
        <5> HIDE DEF Z
        <5> QED
          BY <3>2, <4>1, Minimal
      <4>3. Min(Z) \in Z
        <5> HIDE DEF Z
        <5> QED
          BY <4>2, Zenon DEF Min
      <4>4. strlen(s) = Min(Z) - 1
        BY <3>2 DEF strlen
      <4>5. Min(Z) \in 1..Len(s)
        BY <4>1, <4>3
      <4> HIDE DEF Z
      <4>6. \A m \in 1..Len(s) : m - 1 \in 0..Len(s)
        BY <2>1
      <4> QED
        BY <4>4, <4>5, <4>6, Zenon
    <3> QED
      BY <3>1, <3>2
  <2> QED
    BY <2>1, <2>2
<1> QED
  BY <1>2, <1>3, <1>4

\* n values of a type, in an array.
Values(type, e, n) == n \in Nat /\ DOMAIN e = 1..n /\ \A k \in 1..n : IsValue(type, e[k])

SizesIn(type, e) == [k \in DOMAIN e |-> scalar_size(type, e[k])]
BytesIn(type, e) == [k \in DOMAIN e |-> scalar_pack(type, e[k])]

\* The sizes and bytes of the elements of an array, one of each per element.
LEMMA ScalarsTyped ==
    ASSUME NEW type, IsScalar(type), NEW n, NEW e, Values(type, e, n)
    PROVE  /\ SizesIn(type, e) \in Seq(Nat) /\ BytesIn(type, e) \in Seq(Seq(Byte))
           /\ Len(SizesIn(type, e)) = n /\ Len(BytesIn(type, e)) = n
           /\ \A k \in 1..n :
                 /\ SizesIn(type, e)[k] = scalar_size(type, e[k])
                 /\ BytesIn(type, e)[k] = scalar_pack(type, e[k])
                 /\ Written(scalar_pack(type, e[k]), scalar_size(type, e[k]))
<1> DEFINE l == SizesIn(type, e)
           s == BytesIn(type, e)
<1>1. n \in Nat /\ DOMAIN e = 1..n /\ \A k \in 1..n : IsValue(type, e[k])
  BY DEF Values
<1>2. \A k \in 1..n : Written(scalar_pack(type, e[k]), scalar_size(type, e[k]))
  BY <1>1, ScalarWritten, Zenon
<1>3. \A k \in 1..n : scalar_pack(type, e[k]) \in Seq(Byte) /\ scalar_size(type, e[k]) \in Nat
  BY <1>2, Zenon DEF Written
<1>4. l = [k \in 1..n |-> scalar_size(type, e[k])]
  BY <1>1, Zenon DEF SizesIn
<1>5. s = [k \in 1..n |-> scalar_pack(type, e[k])]
  BY <1>1, Zenon DEF BytesIn
<1> HIDE DEF l, s
<1>6. l \in [1..n -> Nat] /\ \A k \in 1..n : l[k] = scalar_size(type, e[k])
  BY <1>3, <1>4, Zenon
<1>7. s \in [1..n -> Seq(Byte)] /\ \A k \in 1..n : s[k] = scalar_pack(type, e[k])
  BY <1>3, <1>5, Zenon
<1>8. l \in Seq(Nat) /\ Len(l) = n
  BY <1>1, <1>6, FunctionSeq, Zenon
<1>9. s \in Seq(Seq(Byte)) /\ Len(s) = n
  BY <1>1, <1>7, FunctionSeq, Zenon
<1> QED
  BY <1>2, <1>6, <1>7, <1>8, <1>9, Zenon DEF l, s

\* The elements of an array are written in the sum of their sizes, which is
\* between the least of the type and ten bytes for each.
LEMMA ScalarsWritten ==
    ASSUME NEW type, IsScalar(type), NEW n, NEW e, Values(type, e, n)
    PROVE  /\ Written(FlattenSeq(BytesIn(type, e)), Total(SizesIn(type, e)))
           /\ Len(e) = n
           /\ get_type_min_size(type) * n <= Total(SizesIn(type, e))
           /\ Total(SizesIn(type, e)) <= 10 * n
           /\ type \in Fixed32 \cup Fixed64 =>
                 Total(SizesIn(type, e)) = get_type_min_size(type) * n
<1> DEFINE l == SizesIn(type, e)
           s == BytesIn(type, e)
           a == get_type_min_size(type)
<1>1. n \in Nat /\ DOMAIN e = 1..n /\ \A k \in 1..n : IsValue(type, e[k])
  BY DEF Values
<1>2. /\ l \in Seq(Nat) /\ s \in Seq(Seq(Byte)) /\ Len(l) = n /\ Len(s) = n
      /\ \A k \in 1..n : /\ l[k] = scalar_size(type, e[k])
                         /\ s[k] = scalar_pack(type, e[k])
                         /\ Written(scalar_pack(type, e[k]), scalar_size(type, e[k]))
  BY ScalarsTyped, Zenon
<1>3. \A k \in 1..n : Len(s[k]) = l[k]
  BY <1>2, Zenon DEF Written
<1>4. a \in Nat
  BY DEF get_type_min_size
<1>5. \A k \in 1..n : l[k] \in a..10 /\ (type \in Fixed32 \cup Fixed64 => l[k] = a)
  BY <1>1, <1>2, ScalarWritten, Zenon
<1> HIDE DEF l, s, a
<1>6. FlattenSeq(s) \in Seq(Byte) /\ Total(l) \in Nat /\ Len(FlattenSeq(s)) = Total(l)
  BY <1>2, <1>3, FlatLength
<1>7. a * n <= Total(l) /\ Total(l) <= 10 * n
  <2>1. \A k \in 1..Len(l) : a <= l[k] /\ l[k] <= 10
    BY <1>2, <1>4, <1>5
  <2>2. a * Len(l) <= Total(l) /\ Total(l) <= 10 * Len(l)
    BY <1>2, <1>4, <2>1, 10 \in Nat, TotalBetween
  <2> QED
    BY <1>2, <2>2
<1>8. type \in Fixed32 \cup Fixed64 => Total(l) = a * n
  <2> SUFFICES ASSUME type \in Fixed32 \cup Fixed64
               PROVE  Total(l) = a * n
    OBVIOUS
  <2>1. \A k \in 1..Len(l) : a <= l[k] /\ l[k] <= a
    BY <1>2, <1>4, <1>5
  <2>2. a * Len(l) <= Total(l) /\ Total(l) <= a * Len(l)
    BY <1>2, <1>4, <2>1, TotalBetween
  <2>3. a * n <= Total(l) /\ Total(l) <= a * n /\ a * n \in Nat
    BY <1>1, <1>2, <1>4, <2>2
  <2> QED
    BY <1>6, <2>3
<1>9. Len(e) = n
  BY <1>1
<1> QED
  BY <1>6, <1>7, <1>8, <1>9 DEF Written, l, s, a

\* A packed array takes its elements and their length.  The code guesses how long
\* that length is and moves the elements when it was wrong.
LEMMA PayloadWritten ==
    ASSUME NEW field, IsScalar(field.type), NEW n \in 0..MaxCount, NEW e,
           Values(field.type, e, n)
    PROVE  /\ PackedPayload(field, e) = Prefixed(FlattenSeq(BytesIn(field.type, e)))
           /\ Written(PackedPayload(field, e),
                      uint32_size(Word(Total(SizesIn(field.type, e))))
                         + Total(SizesIn(field.type, e)))
<1> DEFINE type == field.type
           payload == FlattenSeq(BytesIn(type, e))
           m == Total(SizesIn(type, e))
           a == get_type_min_size(type)
<1>1. /\ Written(payload, m) /\ Len(e) = n /\ a * n <= m /\ m <= 10 * n
      /\ type \in Fixed32 \cup Fixed64 => m = a * n
  BY ScalarsWritten, Zenon
<1>2. a \in {1, 4, 8} /\ (type \notin Fixed32 \cup Fixed64 => a = 1)
  BY DEF get_type_min_size
<1>3. m \in Nat /\ payload \in Seq(Byte) /\ Len(payload) = m
  BY <1>1 DEF Written
<1>4. PackedPayload(field, e) =
        IF uint32_size(Word(m)) \in uint32_size(Word(a * n))..(uint32_size(Word(a * n)) + 1)
        THEN Prefixed(payload) ELSE Assert(FALSE, "actual_length_size == length_size_min + 1")
  BY <1>1, <1>3, Zenon DEF PackedPayload, BytesIn
<1> HIDE DEF m, a, payload, type
<1>5. n \in Nat /\ n <= 2^27
  BY DEF MaxCount
<1>6. a * n \in Nat /\ a * n <= m /\ m <= 10 * (a * n) /\ m <= 2^31 - 1
  BY <1>1, <1>2, <1>3, <1>5
<1>7. uint32_size(Word(m)) \in uint32_size(Word(a * n))..(uint32_size(Word(a * n)) + 1)
  BY <1>3, <1>6, LengthSizes
<1>8. PackedPayload(field, e) = Prefixed(payload)
  BY <1>4, <1>7, Zenon
<1>9. Written(Prefixed(payload), uint32_size(Word(m)) + m)
  BY <1>1, PrefixedWritten, Zenon
<1> QED
  BY <1>8, <1>9, Zenon DEF m, payload, type

\* The same added to every item of a sum.
LEMMA TotalShift ==
    ASSUME NEW h \in Nat, NEW s \in Seq(Nat), NEW u \in Seq(Nat), Len(u) = Len(s),
           \A k \in 1..Len(s) : u[k] = h + s[k]
    PROVE  Total(u) \in Nat /\ Total(s) \in Nat /\ Total(u) = h * Len(s) + Total(s)
<1> DEFINE n == Len(s)
<1>1. /\ n \in Nat /\ Len(u) = n
      /\ \A k \in 1..n : u[k] = h + s[k] /\ s[k] \in Nat
  OBVIOUS
<1>2. PICK t : TotalOf(t, s)
  BY TotalSteps
<1>3. PICK r : TotalOf(r, u)
  BY TotalSteps
<1>4. /\ t \in [0..n -> Nat] /\ t[0] = 0 /\ Total(s) = t[n]
      /\ \A k \in 1..n : t[k] = t[k - 1] + s[k]
  BY <1>2, Zenon DEF TotalOf
<1>5. /\ r \in [0..n -> Nat] /\ r[0] = 0 /\ Total(u) = r[n]
      /\ \A k \in 1..n : r[k] = r[k - 1] + u[k]
  BY <1>1, <1>3, Zenon DEF TotalOf
<1> HIDE DEF n
<1> DEFINE S == {k \in Nat : r[k] = h * k + t[k]}
<1>6. 0 \in S
  BY <1>4, <1>5
<1>7. ASSUME NEW k \in 1..n, k - 1 \in S
      PROVE  k \in S
  <2>1. k \in Nat /\ k - 1 \in Nat /\ t[k - 1] \in Nat /\ s[k] \in Nat
    BY <1>1, <1>4
  <2>2. t[k] = t[k - 1] + s[k] /\ r[k] = r[k - 1] + (h + s[k])
    BY <1>1, <1>4, <1>5
  <2>3. h * k = h * (k - 1) + h
    BY <2>1
  <2>4. r[k - 1] = h * (k - 1) + t[k - 1] /\ h * (k - 1) \in Nat
    BY <1>7, <2>1
  <2> QED
    BY <2>1, <2>2, <2>3, <2>4
<1>8. n \in S
  <2> HIDE DEF S
  <2>1. \A k \in 0..n : k \in S
    BY <1>1, <1>6, <1>7, Along
  <2> QED
    BY <1>1, <2>1
<1> QED
  BY <1>1, <1>4, <1>5, <1>8, SMTT(30) DEF n

-----------------------------------------------------------------------------
(* Fields. *)

\* What is written of the messages in S is as long as the size says.
Sized(packed_size, packed, S) == \A x \in S : Written(packed[x], packed_size[x])

\* A value in a field, a message there being one of S.
Fits(field, member, S) ==
    /\ IsValue(field.type, member)
    /\ field.type = "MESSAGE" /\ member # NULL => member[1] \in S

\* required_field_get_packed_size counts what required_field_pack writes, when the
\* sizes of submessages are what is written of them.
LEMMA RequiredWritten ==
    ASSUME NEW packed_size, NEW packed, NEW S, Sized(packed_size, packed, S),
           NEW field, IsField(field), NEW member, Fits(field, member, S)
    PROVE  /\ payload_size(packed_size, field.type, member) \in Nat
           /\ Written(required_field_pack(packed, field, member),
                      required_field_get_packed_size(packed_size, field, member))
<1> DEFINE type == field.type
           tagged == Tagged(field.id, wire_type_of(type))
           size == payload_size(packed_size, type, member)
<1>1. /\ field.id \in FieldNumbers /\ type \in Types /\ IsValue(type, member)
      /\ type = "MESSAGE" /\ member # NULL => member[1] \in S
  BY DEF IsField, Fits
<1>2. wire_type_of(type) \in 0..5
  BY DEF wire_type_of, VARINT, LENGTH_PREFIXED, FIXED_32BIT, FIXED_64BIT
<1>3. Written(tagged, get_tag_size(field.id))
  BY <1>1, <1>2, TagWritten
<1>4. required_field_get_packed_size(packed_size, field, member) = get_tag_size(field.id) + size
  BY Zenon DEF required_field_get_packed_size
<1> DEFINE rest == CASE type \in Text -> Prefixed(Content(type, member))
                     [] type = "MESSAGE" ->
                           Prefixed(IF member = NULL THEN <<>> ELSE packed[member[1]])
                     [] OTHER -> scalar_pack(type, member)
<1>5. required_field_pack(packed, field, member) = tagged \o rest
  BY Zenon DEF required_field_pack
<1>6. Written(rest, size)
  <2>1. CASE type \in Text
    <3> DEFINE c == Content(type, member)
    <3>1. Written(c, Len(c))
      BY <1>1, <2>1, ContentWritten, Zenon
    <3>2. Written(Prefixed(c), uint32_size(Word(Len(c))) + Len(c))
      BY <3>1, PrefixedWritten, Zenon
    <3>3. type # "MESSAGE"
      BY <2>1 DEF Text
    <3>4. rest = Prefixed(c)
      BY <2>1, <3>3
    <3>5. size = uint32_size(Word(Len(c))) + Len(c)
      BY <2>1, <3>3 DEF payload_size
    <3> QED
      BY <3>2, <3>4, <3>5, Zenon
  <2>2. CASE type = "MESSAGE"
    <3> DEFINE c == IF member = NULL THEN <<>> ELSE packed[member[1]]
               m == IF member = NULL THEN 0 ELSE packed_size[member[1]]
    <3>1. Written(c, m)
      <4>1. CASE member = NULL
        BY <4>1 DEF Written
      <4>2. CASE member # NULL
        BY <1>1, <2>2, <4>2, Zenon DEF Sized
      <4> QED
        BY <4>1, <4>2
    <3>2. Written(Prefixed(c), uint32_size(Word(m)) + m)
      BY <3>1, PrefixedWritten, Zenon
    <3>3. type \notin Text
      BY <2>2 DEF Text
    <3>4. rest = Prefixed(c)
      BY <2>2, <3>3
    <3>5. size = uint32_size(Word(m)) + m
      BY <2>2, <3>3 DEF payload_size
    <3> QED
      BY <3>2, <3>4, <3>5, Zenon
  <2>3. CASE type \notin Text \cup {"MESSAGE"}
    <3>1. IsScalar(type)
      BY <1>1, <2>3 DEF IsScalar
    <3>2. Written(scalar_pack(type, member), scalar_size(type, member))
      BY <1>1, <3>1, ScalarWritten, Zenon
    <3>3. rest = scalar_pack(type, member)
      BY <2>3
    <3>4. size = scalar_size(type, member)
      BY <2>3 DEF payload_size
    <3> QED
      BY <3>2, <3>3, <3>4, Zenon
  <2> QED
    BY <2>1, <2>2, <2>3
<1>7. Written(tagged \o rest, get_tag_size(field.id) + size)
  BY <1>3, <1>6, WrittenJoined, Zenon
<1>8. size \in Nat
  BY <1>6 DEF Written
<1> QED
  BY <1>4, <1>5, <1>7, <1>8, Zenon

\* repeated_field_get_packed_size counts what repeated_field_pack writes, packed
\* or one by one.
LEMMA RepeatedWritten ==
    ASSUME NEW packed_size, NEW packed, NEW S, Sized(packed_size, packed, S),
           NEW field, IsField(field), NEW count \in 0..MaxCount, NEW member,
           \A k \in 1..count : Fits(field, Elements(count, member)[k], S)
    PROVE  Written(repeated_field_pack(packed, field, count, member),
                   repeated_field_get_packed_size(packed_size, field, count, member))
<1> DEFINE type == field.type
           e == Elements(count, member)
           p == [k \in DOMAIN e |-> payload_size(packed_size, type, e[k])]
           h == get_tag_size(field.id)
<1>1. count \in Nat /\ DOMAIN e = 1..count /\ field.id \in FieldNumbers
  BY DEF Elements, IsField
<1>2. h \in Nat
  BY DEF get_tag_size
<1>3. \A k \in 1..count :
        /\ payload_size(packed_size, type, e[k]) \in Nat
        /\ Written(required_field_pack(packed, field, e[k]),
                   required_field_get_packed_size(packed_size, field, e[k]))
  BY RequiredWritten, Zenon
<1>4. \A k \in 1..count : IsValue(type, e[k])
  BY Zenon DEF Fits
<1>5. repeated_field_pack(packed, field, count, member) =
        IF count = 0 THEN <<>>
        ELSE IF Packed(field)
        THEN Tagged(field.id, LENGTH_PREFIXED) \o PackedPayload(field, e)
        ELSE FlattenSeq([k \in DOMAIN e |-> required_field_pack(packed, field, e[k])])
  BY Zenon DEF repeated_field_pack
<1>6. repeated_field_get_packed_size(packed_size, field, count, member) =
        IF count = 0 THEN 0
        ELSE IF Packed(field) THEN h + uint32_size(Word(Total(p))) + Total(p)
        ELSE h * count + Total(p)
  BY Zenon DEF repeated_field_get_packed_size
<1> HIDE DEF e
<1>7. CASE count = 0
  BY <1>5, <1>6, <1>7 DEF Written
<1>8. CASE count # 0 /\ Packed(field)
  <2> DEFINE m == Total(SizesIn(type, e))
  <2>1. IsScalar(type)
    BY <1>8 DEF IsField, IsScalar
  <2>2. Values(type, e, count)
    BY <1>1, <1>4 DEF Values
  <2>3. \A k \in DOMAIN e : payload_size(packed_size, type, e[k]) = scalar_size(type, e[k])
    BY <2>1 DEF payload_size, IsScalar
  <2>4. p = SizesIn(type, e)
    BY <2>3, Zenon DEF SizesIn
  <2>5. Written(PackedPayload(field, e), uint32_size(Word(m)) + m)
    BY <2>1, <2>2, PayloadWritten, Zenon
  <2>6. Written(Tagged(field.id, LENGTH_PREFIXED), h)
    BY <1>1, TagWritten DEF LENGTH_PREFIXED
  <2>7. Written(Tagged(field.id, LENGTH_PREFIXED) \o PackedPayload(field, e),
                h + (uint32_size(Word(m)) + m))
    BY <2>5, <2>6, WrittenJoined, Zenon
  <2>8. h + (uint32_size(Word(m)) + m) = h + uint32_size(Word(m)) + m
    <3>1. /\ Written(FlattenSeq(BytesIn(type, e)), m)
          /\ Written(uint32_pack(Word(m)), uint32_size(Word(m)))
      BY <2>1, <2>2, ScalarsWritten, LengthWritten, Zenon
    <3>2. m \in Nat /\ uint32_size(Word(m)) \in Nat
      BY <3>1, Zenon DEF Written
    <3> QED
      BY <1>2, <3>2
  <2> QED
    BY <1>5, <1>6, <1>8, <2>4, <2>7, <2>8, Zenon
<1>9. CASE count # 0 /\ ~Packed(field)
  <2> DEFINE s == [k \in 1..count |-> required_field_pack(packed, field, e[k])]
             l == [k \in 1..count |-> required_field_get_packed_size(packed_size, field, e[k])]
  <2>1. \A k \in 1..count :
          /\ required_field_pack(packed, field, e[k]) \in Seq(Byte)
          /\ required_field_get_packed_size(packed_size, field, e[k]) \in Nat
          /\ Len(required_field_pack(packed, field, e[k])) =
                required_field_get_packed_size(packed_size, field, e[k])
          /\ required_field_get_packed_size(packed_size, field, e[k]) =
                h + payload_size(packed_size, type, e[k])
    BY <1>3, Zenon DEF Written, required_field_get_packed_size
  <2>2. p = [k \in 1..count |-> payload_size(packed_size, type, e[k])]
    BY <1>1, Zenon
  <2>3. [k \in DOMAIN e |-> required_field_pack(packed, field, e[k])] = s
    BY <1>1, Zenon
  <2> HIDE DEF p
  <2>4. p \in Seq(Nat) /\ Len(p) = count /\
        \A k \in 1..count : p[k] = payload_size(packed_size, type, e[k])
    <3>1. p \in [1..count -> Nat]
      BY <1>3, <2>2, Zenon
    <3> QED
      BY <1>1, <2>2, <3>1, FunctionSeq, Zenon
  <2>5. s \in Seq(Seq(Byte)) /\ Len(s) = count /\
        \A k \in 1..count : s[k] = required_field_pack(packed, field, e[k])
    <3>1. s \in [1..count -> Seq(Byte)]
      BY <2>1, Zenon
    <3> QED
      BY <1>1, <3>1, FunctionSeq, Zenon
  <2>6. l \in Seq(Nat) /\ Len(l) = count /\
        \A k \in 1..count : l[k] = required_field_get_packed_size(packed_size, field, e[k])
    <3>1. l \in [1..count -> Nat]
      BY <2>1, Zenon
    <3> QED
      BY <1>1, <3>1, FunctionSeq, Zenon
  <2> HIDE DEF s, l, h
  <2>7. /\ FlattenSeq(s) \in Seq(Byte) /\ Total(l) \in Nat
        /\ Len(FlattenSeq(s)) = Total(l)
    <3>1. \A k \in 1..Len(s) : l[k] = Len(s[k])
      BY <2>1, <2>5, <2>6, Zenon
    <3>2. Len(l) = Len(s)
      BY <2>5, <2>6
    <3> QED
      BY <2>5, <2>6, <3>1, <3>2, FlatLength, Zenon
  <2>8. Total(l) = h * count + Total(p)
    <3>1. \A k \in 1..Len(p) : l[k] = h + p[k]
      BY <2>1, <2>4, <2>6, Zenon
    <3>2. Len(l) = Len(p)
      BY <2>4, <2>6
    <3>3. Total(l) = h * Len(p) + Total(p)
      BY <1>2, <2>4, <2>6, <3>1, <3>2, TotalShift, Zenon
    <3> QED
      BY <2>4, <3>3, Zenon
  <2>9. Written(FlattenSeq(s), h * count + Total(p))
    BY <2>7, <2>8, Zenon DEF Written
  <2> QED
    BY <1>5, <1>6, <1>9, <2>3, <2>9, Zenon
<1> QED
  BY <1>7, <1>8, <1>9

\* What a field holds fits it, and points to submessages of the message.
LEMMA HeldFits ==
    ASSUME NEW message, IsMessage(message), NEW fields,
           fields = Descriptors[message.descriptor].fields, NEW f \in DOMAIN fields
    PROVE  /\ IsField(fields[f])
           /\ fields[f].label = "REPEATED" =>
                 message[fields[f].quantifier_offset] \in 0..MaxCount
           /\ \A k \in DOMAIN Held(message, fields[f]) :
                 Fits(fields[f], Held(message, fields[f])[k], Submessages(message))
<1> DEFINE field == fields[f]
           held == Held(message, field)
<1>1. message.descriptor \in DOMAIN Descriptors
  BY DEF IsMessage
<1>2. IsField(field)
  <2>1. TableOf(Descriptors[message.descriptor])
    BY <1>1, TablesAssumption
  <2> QED
    BY <2>1, Zenon DEF TableOf
<1>3. /\ field.label = "REPEATED" => message[field.quantifier_offset] \in 0..MaxCount
      /\ \A k \in DOMAIN held : IsValue(field.type, held[k])
  BY Zenon DEF IsMessage
<1>4. ASSUME NEW k \in DOMAIN held, field.type = "MESSAGE", held[k] # NULL
      PROVE  held[k][1] \in Submessages(message)
  <2> DEFINE of(i) == IF fields[i].type = "MESSAGE" THEN ToSet(Held(message, fields[i])) ELSE {}
  <2>1. Submessages(message) = {p[1] : p \in (UNION {of(i) : i \in DOMAIN fields}) \ {NULL}}
    BY Zenon DEF Submessages
  <2>2. held[k] \in ToSet(held)
    BY <1>4, Zenon DEF ToSet
  <2>3. held[k] \in of(f)
    BY <1>4, <2>2, Zenon
  <2> HIDE DEF of, held
  <2>4. held[k] \in (UNION {of(i) : i \in DOMAIN fields}) \ {NULL}
    BY <1>4, <2>3, Zenon
  <2> QED
    BY <2>1, <2>4, Zenon
<1> QED
  BY <1>2, <1>3, <1>4, Zenon DEF Fits

\* The size of a field of any label is what is written of it.
LEMMA FieldWritten ==
    ASSUME NEW message, IsMessage(message), NEW fields,
           fields = Descriptors[message.descriptor].fields, NEW f \in DOMAIN fields,
           NEW packed_size, NEW packed, Sized(packed_size, packed, Submessages(message))
    PROVE  Written(field_pack(packed, message, fields[f]),
                   field_get_packed_size(packed_size, message, fields[f]))
<1> DEFINE field == fields[f]
           member == message[field.offset]
           quantifier == message[field.quantifier_offset]
           S == Submessages(message)
<1>1. /\ IsField(field)
      /\ field.label = "REPEATED" => quantifier \in 0..MaxCount
      /\ \A k \in DOMAIN Held(message, field) : Fits(field, Held(message, field)[k], S)
  BY HeldFits, Zenon
<1>2. field.label \in Labels /\ IsField(field)
  BY <1>1 DEF IsField
<1> SUFFICES Written(field_pack(packed, message, field),
                     field_get_packed_size(packed_size, message, field))
  OBVIOUS
<1> HIDE DEF field
<1>3. Written(<<>>, 0)
  BY DEF Written
<1>4. ASSUME Fits(field, member, S)
      PROVE  Written(required_field_pack(packed, field, member),
                     required_field_get_packed_size(packed_size, field, member))
  BY <1>2, <1>4, RequiredWritten, Zenon
<1>5. ASSUME field.label # "REPEATED",
             ~(field.label # "REQUIRED" /\ InOneof(field) /\ quantifier # field.id)
      PROVE  Fits(field, member, S)
  <2>1. Held(message, field) = <<member>>
    BY <1>5, Zenon DEF Held
  <2>2. 1 \in DOMAIN <<member>> /\ <<member>>[1] = member
    OBVIOUS
  <2> QED
    BY <1>1, <2>1, <2>2, Zenon
<1>6. CASE field.label = "REQUIRED"
  <2>1. /\ field_pack(packed, message, field) = required_field_pack(packed, field, member)
        /\ field_get_packed_size(packed_size, message, field)
             = required_field_get_packed_size(packed_size, field, member)
    BY <1>6 DEF field_pack, field_get_packed_size
  <2> QED
    BY <1>4, <1>5, <1>6, <2>1
<1>7. CASE field.label = "REPEATED"
  <2>1. /\ field_pack(packed, message, field)
             = repeated_field_pack(packed, field, quantifier, member)
        /\ field_get_packed_size(packed_size, message, field)
             = repeated_field_get_packed_size(packed_size, field, quantifier, member)
    BY <1>7 DEF field_pack, field_get_packed_size
  <2>2. Held(message, field) = Elements(quantifier, member)
    BY <1>7, Zenon DEF Held
  <2>3. DOMAIN Elements(quantifier, member) = 1..quantifier
    BY DEF Elements
  <2>4. \A k \in 1..quantifier : Fits(field, Elements(quantifier, member)[k], S)
    BY <1>1, <2>2, <2>3, Zenon
  <2>5. quantifier \in 0..MaxCount
    BY <1>1, <1>7, Zenon
  <2> QED
    BY <1>2, <2>1, <2>4, <2>5, RepeatedWritten, Zenon
<1>8. CASE field.label \in {"OPTIONAL", "NONE"} /\ InOneof(field)
  <2>1. /\ field_pack(packed, message, field)
             = oneof_field_pack(packed, field, quantifier, member)
        /\ field_get_packed_size(packed_size, message, field)
             = oneof_field_get_packed_size(packed_size, field, quantifier, member)
    BY <1>8 DEF field_pack, field_get_packed_size
  <2>2. CASE quantifier # field.id \/ Unset(field, member)
    BY <1>3, <2>1, <2>2, Zenon DEF oneof_field_pack, oneof_field_get_packed_size
  <2>3. CASE ~(quantifier # field.id \/ Unset(field, member))
    <3>1. Fits(field, member, S)
      BY <1>5, <1>8, <2>3
    <3> QED
      BY <1>4, <2>1, <2>3, <3>1, Zenon DEF oneof_field_pack, oneof_field_get_packed_size
  <2> QED
    BY <2>2, <2>3, Zenon
<1>9. CASE field.label = "OPTIONAL" /\ ~InOneof(field)
  <2>1. /\ field_pack(packed, message, field)
             = optional_field_pack(packed, field, quantifier, member)
        /\ field_get_packed_size(packed_size, message, field)
             = optional_field_get_packed_size(packed_size, field, quantifier, member)
    BY <1>9 DEF field_pack, field_get_packed_size
  <2>2. Written(required_field_pack(packed, field, member),
                required_field_get_packed_size(packed_size, field, member))
    BY <1>4, <1>5, <1>9
  <2> QED
    BY <1>3, <2>1, <2>2, Zenon DEF optional_field_pack, optional_field_get_packed_size
<1>10. CASE field.label = "NONE" /\ ~InOneof(field)
  <2>1. /\ field_pack(packed, message, field) = unlabeled_field_pack(packed, field, member)
        /\ field_get_packed_size(packed_size, message, field)
             = unlabeled_field_get_packed_size(packed_size, field, member)
    BY <1>10 DEF field_pack, field_get_packed_size
  <2>2. Written(required_field_pack(packed, field, member),
                required_field_get_packed_size(packed_size, field, member))
    BY <1>4, <1>5, <1>10
  <2> QED
    BY <1>3, <2>1, <2>2, Zenon DEF unlabeled_field_pack, unlabeled_field_get_packed_size
<1> QED
  BY <1>2, <1>6, <1>7, <1>8, <1>9, <1>10 DEF Labels

\* The size of an unknown field is what is written of it.
LEMMA UnknownWritten ==
    ASSUME NEW ufield \in UnknownFields
    PROVE  Written(unknown_field_pack(ufield), unknown_field_get_packed_size(ufield))
<1>1. ufield.tag \in FieldNumbers /\ ufield.wire_type \in 0..5 /\ ufield.s \in Seq(Byte)
  BY DEF UnknownFields
<1>2. Written(Tagged(ufield.tag, ufield.wire_type), get_tag_size(ufield.tag))
  BY <1>1, TagWritten, Zenon
<1>3. Written(ufield.s, Len(ufield.s))
  BY <1>1 DEF Written
<1> QED
  BY <1>2, <1>3, WrittenJoined, Zenon DEF unknown_field_pack, unknown_field_get_packed_size

\* Sequences made of parts, and their sizes.
LEMMA PartsWritten ==
    ASSUME NEW n \in Nat, NEW s, NEW l, DOMAIN s = 1..n, DOMAIN l = 1..n,
           s = [k \in 1..n |-> s[k]], l = [k \in 1..n |-> l[k]],
           \A k \in 1..n : Written(s[k], l[k])
    PROVE  Written(FlattenSeq(s), Total(l))
<1>1. \A k \in 1..n : s[k] \in Seq(Byte) /\ l[k] \in Nat /\ Len(s[k]) = l[k]
  BY Zenon DEF Written
<1>2. s \in [1..n -> Seq(Byte)] /\ l \in [1..n -> Nat]
  BY <1>1, Zenon
<1>3. s \in Seq(Seq(Byte)) /\ Len(s) = n
  BY <1>2, FunctionSeq, Zenon
<1>4. l \in Seq(Nat) /\ Len(l) = n
  BY <1>2, FunctionSeq, Zenon
<1>5. Len(l) = Len(s) /\ \A k \in 1..Len(s) : l[k] = Len(s[k])
  BY <1>1, <1>3, <1>4
<1>6. /\ FlattenSeq(s) \in Seq(Byte) /\ Total(l) \in Nat
      /\ Len(FlattenSeq(s)) = Total(l)
  BY <1>3, <1>4, <1>5, FlatLength, Zenon
<1> QED
  BY <1>6, Zenon DEF Written

\* The fields of a message are a table, and its unknown fields a sequence.
LEMMA Rows ==
    ASSUME NEW message, IsMessage(message)
    PROVE  /\ \E n \in Nat : DOMAIN Descriptors[message.descriptor].fields = 1..n
           /\ message.unknown \in Seq(UnknownFields)
<1>1. message.descriptor \in DOMAIN Descriptors /\ message.unknown \in Seq(UnknownFields)
  BY DEF IsMessage
<1>2. TableOf(Descriptors[message.descriptor])
  BY <1>1, TablesAssumption
<1>3. IsTable(Descriptors[message.descriptor].fields)
  BY <1>2, Zenon DEF TableOf
<1> QED
  BY <1>1, <1>3, Zenon DEF IsTable

\* The size of a message is what is written of it, when those of its submessages are.
LEMMA MessageWritten ==
    ASSUME NEW message, IsMessage(message),
           NEW packed_size, NEW packed, Sized(packed_size, packed, Submessages(message))
    PROVE  Written(message_pack(packed, message), message_get_packed_size(packed_size, message))
<1> DEFINE fields == Descriptors[message.descriptor].fields
           unknown == message.unknown
           s == [f \in DOMAIN fields |-> field_pack(packed, message, fields[f])]
           l == [f \in DOMAIN fields |-> field_get_packed_size(packed_size, message, fields[f])]
           us == [f \in DOMAIN unknown |-> unknown_field_pack(unknown[f])]
           ul == [f \in DOMAIN unknown |-> unknown_field_get_packed_size(unknown[f])]
<1>1. PICK n \in Nat : DOMAIN fields = 1..n
  BY Rows
<1>2. unknown \in Seq(UnknownFields)
  BY Rows
<1>3. PICK u \in Nat : DOMAIN unknown = 1..u
  <2> HIDE DEF unknown
  <2>1. Len(unknown) \in Nat /\ DOMAIN unknown = 1..Len(unknown)
    BY <1>2
  <2> QED
    BY <2>1, Zenon
<1>4. \A f \in DOMAIN fields : Written(field_pack(packed, message, fields[f]),
                                       field_get_packed_size(packed_size, message, fields[f]))
  BY FieldWritten, Zenon
<1>5. \A f \in DOMAIN unknown : Written(unknown_field_pack(unknown[f]),
                                        unknown_field_get_packed_size(unknown[f]))
  <2> SUFFICES ASSUME NEW f \in DOMAIN unknown
               PROVE  unknown[f] \in UnknownFields
    BY UnknownWritten, Zenon
  <2> HIDE DEF unknown
  <2> QED
    BY <1>2
<1>6. /\ message_pack(packed, message) = FlattenSeq(s) \o FlattenSeq(us)
      /\ message_get_packed_size(packed_size, message) = Total(l) + Total(ul)
  BY Zenon DEF message_pack, message_get_packed_size
<1> HIDE DEF fields, unknown
<1>7. Written(FlattenSeq(s), Total(l))
  <2>1. \A k \in 1..n : Written(s[k], l[k])
    BY <1>1, <1>4, Zenon
  <2>2. /\ DOMAIN s = 1..n /\ DOMAIN l = 1..n
        /\ s = [k \in 1..n |-> s[k]] /\ l = [k \in 1..n |-> l[k]]
    BY <1>1, Zenon
  <2> HIDE DEF s, l
  <2> QED
    BY <2>1, <2>2, PartsWritten, Zenon
<1>8. Written(FlattenSeq(us), Total(ul))
  <2>1. \A k \in 1..u : Written(us[k], ul[k])
    BY <1>3, <1>5, Zenon
  <2>2. /\ DOMAIN us = 1..u /\ DOMAIN ul = 1..u
        /\ us = [k \in 1..u |-> us[k]] /\ ul = [k \in 1..u |-> ul[k]]
    BY <1>3, Zenon
  <2> HIDE DEF us, ul
  <2> QED
    BY <2>1, <2>2, PartsWritten, Zenon
<1> HIDE DEF s, l, us, ul
<1> QED
  BY <1>6, <1>7, <1>8, WrittenJoined, Zenon

\* A message, and all below it, which ends.
Packable(m) ==
    /\ \A n \in 0..MaxNesting : \A x \in Nested(m)[n] : IsMessage(x)
    /\ \A x \in Nested(m)[MaxNesting] : Submessages(x) = {}

\* The messages a sender has are messages on every level, and end.
LEMMA SamplePackable ==
    ASSUME NEW m \in Samples
    PROVE  Packable(m)
BY SamplesAssumption, Zenon DEF Packable

\* What a function on a level needs of the messages there.
LEMMA Level ==
    ASSUME NEW message, Packable(message), NEW n \in 0..MaxNesting,
           NEW m \in Nested(message)[MaxNesting - n]
    PROVE  /\ IsMessage(m)
           /\ n = 0 => Submessages(m) = {}
           /\ n # 0 => Submessages(m) \in SUBSET Nested(message)[MaxNesting - (n - 1)]
<1>1. MaxNesting \in Nat
  BY NestingAssumption
<1>2. MaxNesting - n \in 0..MaxNesting
  BY <1>1
<1>3. IsMessage(m)
  BY <1>2, Zenon DEF Packable
<1>4. ASSUME n = 0
      PROVE  Submessages(m) = {}
  <2>1. MaxNesting - n = MaxNesting
    BY <1>1, <1>4
  <2>2. m \in Nested(message)[MaxNesting]
    BY <2>1
  <2> QED
    BY <2>2, Zenon DEF Packable
<1>5. ASSUME n # 0
      PROVE  Submessages(m) \in SUBSET Nested(message)[MaxNesting - (n - 1)]
  <2> DEFINE k == MaxNesting - (n - 1)
  <2>1. k \in 1..MaxNesting /\ k - 1 = MaxNesting - n
    BY <1>1, <1>5
  <2> HIDE DEF k
  <2>2. Nested(message)[k] = UNION {Submessages(x) : x \in Nested(message)[k - 1]}
    BY <2>1, NestedLevels, Zenon
  <2>3. m \in Nested(message)[k - 1]
    BY <2>1, Zenon
  <2>4. Submessages(m) \in SUBSET Nested(message)[k]
    BY <2>2, <2>3, Zenon
  <2> QED
    BY <2>4 DEF k
<1> QED
  BY <1>3, <1>4, <1>5, Zenon

\* protobuf_c_message_get_packed_size is what protobuf_c_message_pack writes of any
\* message: by induction along the levels, from the lowest.
LEMMA PackedWritten ==
    ASSUME NEW message, Packable(message)
    PROVE  Written(protobuf_c_message_pack(message),
                   protobuf_c_message_get_packed_size(message))
<1> DEFINE D(n) == Nested(message)[MaxNesting - n]
<1>1. MaxNesting \in Nat
  BY NestingAssumption
<1>2. PICK packed_size : SizesOf(packed_size, message)
  BY SizeLevels, Zenon
<1>3. PICK packed : PacksOf(packed, message)
  BY PackLevels, Zenon
<1> DEFINE S == {n \in 0..MaxNesting : Sized(packed_size[n], packed[n], D(n))}
<1>4. ASSUME NEW n \in 0..MaxNesting, NEW m \in D(n)
      PROVE  /\ packed_size[n][m]
                  = message_get_packed_size(IF n = 0 THEN <<>> ELSE packed_size[n - 1], m)
             /\ packed[n][m] = message_pack(IF n = 0 THEN <<>> ELSE packed[n - 1], m)
  <2>1. packed_size[n] = [x \in D(n) |->
            message_get_packed_size(IF n = 0 THEN <<>> ELSE packed_size[n - 1], x)]
    BY <1>2, Zenon DEF SizesOf
  <2>2. packed[n] = [x \in D(n) |-> message_pack(IF n = 0 THEN <<>> ELSE packed[n - 1], x)]
    BY <1>3, Zenon DEF PacksOf
  <2> QED
    BY <2>1, <2>2, Zenon
<1>5. 0 \in S
  <2>1. 0 \in 0..MaxNesting
    BY <1>1
  <2>2. ASSUME NEW m \in D(0)
        PROVE  Written(packed[0][m], packed_size[0][m])
    <3>1. IsMessage(m) /\ Submessages(m) = {}
      BY <2>1, Level, Zenon
    <3>2. Sized(<<>>, <<>>, Submessages(m))
      BY <3>1, Zenon DEF Sized
    <3>3. Written(message_pack(<<>>, m), message_get_packed_size(<<>>, m))
      BY <3>1, <3>2, MessageWritten, Zenon
    <3> QED
      BY <1>4, <2>1, <3>3, Zenon
  <2> QED
    BY <2>1, <2>2, Zenon DEF Sized
<1>6. ASSUME NEW n \in 1..MaxNesting, n - 1 \in S
      PROVE  n \in S
  <2>1. n \in 0..MaxNesting /\ n # 0
    BY <1>1
  <2>2. Sized(packed_size[n - 1], packed[n - 1], D(n - 1))
    BY <1>6
  <2>3. ASSUME NEW m \in D(n)
        PROVE  Written(packed[n][m], packed_size[n][m])
    <3>1. IsMessage(m) /\ Submessages(m) \in SUBSET D(n - 1)
      BY <2>1, Level, Zenon
    <3>2. Sized(packed_size[n - 1], packed[n - 1], Submessages(m))
      BY <2>2, <3>1, Zenon DEF Sized
    <3>3. Written(message_pack(packed[n - 1], m), message_get_packed_size(packed_size[n - 1], m))
      BY <3>1, <3>2, MessageWritten, Zenon
    <3> QED
      BY <1>4, <2>1, <3>3, Zenon
  <2> QED
    BY <2>1, <2>3, Zenon DEF Sized
<1>7. MaxNesting \in S
  <2> HIDE DEF S
  <2>1. \A n \in 0..MaxNesting : n \in S
    BY <1>1, <1>5, <1>6, Along
  <2> QED
    BY <1>1, <2>1
<1>8. message \in D(MaxNesting)
  <2>1. MaxNesting - MaxNesting = 0
    BY <1>1
  <2>2. Nested(message)[0] = {message}
    BY NestedLevels, Zenon
  <2> QED
    BY <2>1, <2>2, Zenon
<1>9. Written(packed[MaxNesting][message], packed_size[MaxNesting][message])
  BY <1>7, <1>8, Zenon DEF Sized
<1> QED
  BY <1>2, <1>3, <1>9, Zenon DEF SizesOf, PacksOf

-----------------------------------------------------------------------------
(* The sizes that are announced. *)

\* Strengthened: one message is in the buffer, nothing is on the wire then.
SizeInv ==
    /\ stage \in {"sending", "received", "unpacked", "buffered"}
    /\ stage = "sending" => /\ sent \in Seq(Samples) /\ wire \in Seq(Byte)
                            /\ SizeExact
    /\ stage = "buffered" => wire = <<>>

Sizes(s) == [k \in DOMAIN s |-> protobuf_c_message_get_packed_size(s[k])]

\* No messages have no size.
LEMMA NoSizes == Total(Sizes(<<>>)) = 0
<1>1. Sizes(<<>>) = <<>>
  BY DEF Sizes
<1>2. <<>> \in Seq(Nat) /\ Len(<<>>) = 0
  OBVIOUS
<1>3. PICK t : TotalOf(t, <<>>)
  BY <1>2, TotalSteps, Zenon
<1> QED
  BY <1>1, <1>2, <1>3 DEF TotalOf

\* Packing one more message adds its size.
LEMMA OneMoreSize ==
    ASSUME NEW s \in Seq(Samples), NEW bytes \in Seq(Byte), NEW m \in Samples,
           Total(Sizes(s)) = Len(bytes)
    PROVE  /\ Append(s, m) \in Seq(Samples)
           /\ bytes \o protobuf_c_message_pack(m) \in Seq(Byte)
           /\ Total(Sizes(Append(s, m))) = Len(bytes \o protobuf_c_message_pack(m))
<1> DEFINE n == Len(s)
           size(x) == protobuf_c_message_get_packed_size(x)
           u == Append(s, m)
<1>1. \A x \in Samples : Written(protobuf_c_message_pack(x), size(x))
  BY SamplePackable, PackedWritten, Zenon
<1>2. \A x \in Samples : size(x) \in Nat
  BY <1>1, Zenon DEF Written
<1>3. /\ n \in Nat /\ DOMAIN s = 1..n /\ (\A k \in 1..n : s[k] \in Samples)
      /\ u \in Seq(Samples) /\ DOMAIN u = 1..(n + 1) /\ u[n + 1] = m
      /\ \A k \in 1..n : u[k] = s[k]
  OBVIOUS
<1> HIDE DEF n, u, size
<1>4. Sizes(s) = [k \in 1..n |-> size(s[k])]
  BY <1>3, Zenon DEF Sizes, size
<1>5. Sizes(u) = [k \in 1..(n + 1) |-> size(u[k])]
  BY <1>3, Zenon DEF Sizes, size
<1>6. Sizes(s) \in [1..n -> Nat]
  BY <1>2, <1>3, <1>4, Zenon
<1>7. Sizes(s) \in Seq(Nat) /\ Len(Sizes(s)) = n
  BY <1>3, <1>6, FunctionSeq, Zenon
<1>8. Sizes(u) = Append(Sizes(s), size(m))
  <2> DEFINE l == Sizes(s)
             v == size(m)
             a == Append(l, v)
  <2>1. v \in Nat /\ l \in Seq(Nat) /\ Len(l) = n
    BY <1>2, <1>7, Zenon
  <2> HIDE DEF l, v
  <2>2. /\ a = [k \in 1..(n + 1) |-> a[k]] /\ a[n + 1] = v
        /\ \A k \in 1..n : a[k] = l[k]
    <3>1. /\ a \in Seq(Nat) /\ Len(a) = n + 1 /\ a[n + 1] = v
          /\ \A k \in 1..n : a[k] = l[k]
      BY <1>3, <2>1
    <3> HIDE DEF a
    <3>2. a = [k \in 1..(n + 1) |-> a[k]]
      BY <3>1
    <3> QED
      BY <3>1, <3>2, Zenon
  <2> HIDE DEF a
  <2>3. ASSUME NEW k \in 1..(n + 1)
        PROVE  a[k] = size(u[k])
    <3>1. CASE k = n + 1
      BY <1>3, <2>2, <3>1, Zenon DEF v
    <3>2. CASE k # n + 1
      <4>1. k \in 1..n
        BY <1>3, <3>2
      <4>2. l[k] = size(s[k])
        BY <1>4, <4>1, Zenon DEF l
      <4> QED
        BY <1>3, <2>2, <4>1, <4>2, Zenon
    <3> QED
      BY <3>1, <3>2
  <2>4. a = Sizes(u)
    BY <1>5, <2>2, <2>3, Zenon
  <2> QED
    BY <2>4, Zenon DEF a, l, v
<1>9. Total(Sizes(u)) = Total(Sizes(s)) + size(m)
  BY <1>2, <1>7, <1>8, TotalAppend
<1>10. Written(bytes \o protobuf_c_message_pack(m), Len(bytes) + size(m))
  <2>1. Written(bytes, Len(bytes))
    BY DEF Written
  <2> QED
    BY <1>1, <2>1, WrittenJoined, Zenon
<1> QED
  BY <1>3, <1>9, <1>10 DEF Written, u

\* The invariant holds at first.
LEMMA SizeStarts == Init => SizeInv
<1> SUFFICES ASSUME Init
             PROVE  SizeInv
  OBVIOUS
<1>1. stage = "sending" /\ sent = <<>> /\ wire = <<>>
  BY DEF Init
<1>2. sent \in Seq(Samples) /\ wire \in Seq(Byte) /\ Len(wire) = 0
  BY <1>1
<1> QED
  BY <1>1, <1>2, NoSizes DEF SizeInv, SizeExact, Sizes

\* Every step keeps the sizes: only packing adds a message, and its bytes.
LEMMA SizeSteps == SizeInv /\ [Next]_vars => SizeInv'
<1> SUFFICES ASSUME SizeInv, [Next]_vars
             PROVE  SizeInv'
  OBVIOUS
<1> USE DEF SizeInv
<1>1. ASSUME NEW m \in Samples, PackMessage(m)
      PROVE  SizeInv'
  <2>1. /\ stage = "sending" /\ stage' = "sending"
        /\ sent' = Append(sent, m) /\ wire' = wire \o protobuf_c_message_pack(m)
    BY <1>1, Zenon DEF PackMessage
  <2>2. sent \in Seq(Samples) /\ wire \in Seq(Byte) /\ Total(Sizes(sent)) = Len(wire)
    BY <2>1 DEF SizeExact, Sizes
  <2>3. /\ sent' \in Seq(Samples) /\ wire' \in Seq(Byte)
        /\ Total(Sizes(sent')) = Len(wire')
    BY <2>1, <2>2, OneMoreSize, Zenon
  <2> QED
    BY <2>1, <2>3 DEF SizeExact, Sizes
<1>2. ASSUME NEW m \in Samples, NEW fail, PackToBuffer(m, fail)
      PROVE  SizeInv'
  <2>1. stage = "sending" /\ sent = <<>> /\ stage' = "buffered" /\ wire' = wire
    BY <1>2, Zenon DEF PackToBuffer
  <2>2. wire \in Seq(Byte) /\ Total(Sizes(sent)) = Len(wire)
    BY <2>1 DEF SizeExact, Sizes
  <2>3. wire = <<>>
    BY <2>1, <2>2, NoSizes
  <2> QED
    BY <2>1, <2>3 DEF SizeExact
<1>3. ASSUME ClearBuffer
      PROVE  SizeInv'
  <2>1. /\ stage = "buffered" /\ stage' = "sending" /\ sent' = <<>> /\ wire' = wire
        /\ wire = <<>>
    BY <1>3 DEF ClearBuffer
  <2>2. sent' \in Seq(Samples) /\ wire' \in Seq(Byte) /\ Len(wire') = 0
    BY <2>1
  <2> QED
    BY <2>1, <2>2, NoSizes DEF SizeExact, Sizes
<1>4. ASSUME NEW k, Receive(k)
      PROVE  SizeInv'
  BY <1>4 DEF Receive, SizeExact
<1>5. ASSUME NEW type, NEW fail, Unpack(type, fail)
      PROVE  SizeInv'
  BY <1>5 DEF Unpack, SizeExact
<1>6. ASSUME FreeUnpacked
      PROVE  SizeInv'
  <2>1. stage' = "sending" /\ sent' = <<>> /\ wire' = <<>>
    BY <1>6 DEF FreeUnpacked
  <2>2. sent' \in Seq(Samples) /\ wire' \in Seq(Byte) /\ Len(wire') = 0
    BY <2>1
  <2> QED
    BY <2>1, <2>2, NoSizes DEF SizeExact, Sizes
<1>7. CASE UNCHANGED vars
  BY <1>7 DEF vars, SizeExact
<1> QED
  BY <1>1, <1>2, <1>3, <1>4, <1>5, <1>6, <1>7, Zenon DEF Next

\* protobuf_c_message_get_packed_size is what protobuf_c_message_pack writes of
\* every message, with any nesting, and of any number of messages in a row.
THEOREM SizesAreExact == Spec => []SizeExact
<1>1. SizeInv => SizeExact
  BY DEF SizeInv, SizeExact
<1> QED
  BY <1>1, SizeStarts, SizeSteps, PTL DEF Spec

-----------------------------------------------------------------------------
(* The growing buffer. *)

\* The loop that doubles the room ends, with room enough.
LEMMA DoubledEnough ==
    ASSUME NEW alloced \in Nat \ {0}, NEW len \in Nat
    PROVE  doubled(alloced, len) \in Nat \ {0} /\ len <= doubled(alloced, len)
<1> DEFINE F(f) == [k \in 0..len |-> IF k = 0 THEN alloced ELSE 2 * f[k - 1]]
           twice == CHOOSE f : f = F(f)
           First(k) == twice[k] >= len /\ \A j \in 0..(k - 1) : twice[j] < len
<1>1. doubled(alloced, len) = twice[CHOOSE k \in 0..len : First(k)]
  BY DEF doubled
<1>2. \E f : f = F(f)
  <2> DEFINE g == [k \in 1..len |-> [v \in Nat |-> 2 * v]]
  <2>1. g \in [1..len -> [Nat -> Nat]] /\ \A k \in 1..len, v \in Nat : g[k][v] = 2 * v
    OBVIOUS
  <2> HIDE DEF g
  <2>2. PICK f : Recursive(f, len, Nat, alloced, g)
    BY <2>1, Recursion
  <2>3. \A k \in 1..len : f[k - 1] \in Nat
    BY <2>2 DEF Recursive
  <2>4. \A k \in 1..len : g[k][f[k - 1]] = 2 * f[k - 1]
    BY <2>1, <2>3
  <2>5. f = F(f)
    BY <2>2, <2>4 DEF Recursive
  <2> QED
    BY <2>5
<1>3. twice = F(twice)
  BY <1>2, Zenon
<1> HIDE DEF twice
<1>4. twice[0] = alloced /\ \A k \in 1..len : twice[k] = 2 * twice[k - 1]
  BY <1>3
<1> DEFINE S == {k \in Nat : twice[k] \in Nat /\ twice[k] >= k + 1}
<1>5. 0 \in S /\ \A k \in 1..len : k - 1 \in S => k \in S
  BY <1>4
<1>6. \A k \in 0..len : k \in S
  <2> HIDE DEF S
  <2> QED
    BY <1>5, Along
<1>7. \A k \in 0..len : twice[k] \in Nat /\ twice[k] >= k + 1
  BY <1>6
<1>8. \E k \in 0..len : First(k)
  <2> DEFINE T == {k \in 0..len : twice[k] >= len}
  <2>1. len \in T /\ T \in SUBSET Nat
    BY <1>7
  <2>2. PICK k \in T : \A m \in T : k <= m
    <3> HIDE DEF T
    <3> QED
      BY <2>1, Minimal
  <2>3. \A j \in 0..(k - 1) : twice[j] < len
    BY <1>7, <2>2
  <2> QED
    BY <2>2, <2>3
<1> DEFINE rounds == CHOOSE k \in 0..len : First(k)
<1>9. rounds \in 0..len /\ First(rounds)
  <2> HIDE DEF First
  <2> QED
    BY <1>8, Zenon
<1>10. doubled(alloced, len) = twice[rounds]
  BY <1>1, Zenon
<1> HIDE DEF rounds
<1> QED
  BY <1>7, <1>9, <1>10

\* The buffer's block is live, and so are those in L, and no other.
Good(L, r) ==
    /\ r \in Results /\ L \in SUBSET Nat
    /\ r.b.alloced # 0 /\ Len(r.b.data) <= r.b.alloced
    /\ r.b.blk <= r.h.n /\ r.b.blk \notin L
    /\ \A x \in L : x # 0 /\ x <= r.h.n
    /\ r.h.live = L \cup (IF r.b.blk = 0 THEN {} ELSE {r.b.blk})

\* From r to s bytes are sent, and are in the buffer if no allocation failed.
Goes(L, r, s, bytes) ==
    /\ Good(L, s) /\ bytes \in Seq(Byte)
    /\ s.h.fail = r.h.fail /\ r.h.n <= s.h.n /\ s.rv = r.rv + Len(bytes)
    /\ ~Failed(s.h) => s.b.data = r.b.data \o bytes /\ s.h.faults = r.h.faults

\* An append, in the room there is or in a new block, which takes over the bytes
\* of the old one before that is freed; if there is none nothing changes.
LEMMA PutGoes ==
    ASSUME NEW L, NEW r, Good(L, r), NEW bytes \in Seq(Byte)
    PROVE  Goes(L, r, Put(r, bytes), bytes)
<1> DEFINE b == r.b
           h == r.h
           data == b.data
           len == Len(data) + Len(bytes)
           n == h.n + 1
           all == data \o bytes
<1>1. /\ r \in Results /\ r.rv \in Nat /\ L \in SUBSET Nat
      /\ b \in Buffers /\ h \in Heaps
      /\ data \in Seq(Byte) /\ b.alloced \in Nat \ {0} /\ b.blk \in Nat
      /\ h.n \in Nat /\ h.fail \in Nat /\ h.live \in SUBSET Nat /\ h.faults \in SUBSET Faults
  BY DEF Good, Results, Buffers, Heaps
<1>2. /\ Len(data) <= b.alloced /\ b.blk <= h.n /\ b.blk \notin L
      /\ \A x \in L : x # 0 /\ x <= h.n
      /\ h.live = L \cup (IF b.blk = 0 THEN {} ELSE {b.blk})
  BY DEF Good
<1>3. all \in Seq(Byte) /\ Len(all) = len /\ len \in Nat /\ Len(bytes) \in Nat
  BY <1>1
<1>4. 2 * b.alloced \in Nat \ {0}
  BY <1>1
<1> DEFINE a == protobuf_c_buffer_simple_append(b, h, bytes)
<1>5. Put(r, bytes) = [rv |-> r.rv + Len(bytes), b |-> a.b, h |-> a.h]
  BY Zenon DEF Put
<1>6. ASSUME NEW c \in Buffers, NEW g \in Heaps, a.b = c, a.h = g,
             c.alloced # 0, Len(c.data) <= c.alloced, c.blk <= g.n, c.blk \notin L,
             g.fail = h.fail, h.n <= g.n,
             g.live = L \cup (IF c.blk = 0 THEN {} ELSE {c.blk}),
             ~Failed(g) => c.data = all /\ g.faults = h.faults
      PROVE  Goes(L, r, Put(r, bytes), bytes)
  <2> DEFINE s == [rv |-> r.rv + Len(bytes), b |-> c, h |-> g]
  <2>1. s.rv = r.rv + Len(bytes) /\ s.b = c /\ s.h = g
    OBVIOUS
  <2>2. s \in Results
    <3>1. r.rv + Len(bytes) \in Nat
      BY <1>1, <1>3
    <3> QED
      BY <1>6, <3>1, Zenon DEF Results
  <2> HIDE DEF s
  <2>3. \A x \in L : x # 0 /\ x <= g.n
    <3>1. g.n \in Nat
      BY <1>6 DEF Heaps
    <3> QED
      BY <1>1, <1>2, <1>6, <3>1
  <2>4. Good(L, s)
    BY <1>1, <1>6, <2>1, <2>2, <2>3, Zenon DEF Good
  <2>5. Goes(L, r, s, bytes)
    BY <1>6, <2>1, <2>4, Zenon DEF Goes
  <2> QED
    BY <1>5, <1>6, <2>5, Zenon DEF s
<1> HIDE DEF len, all, n
<1>7. CASE len <= b.alloced
  <2> DEFINE c == [b EXCEPT !.data = all]
  <2>1. a = [b |-> c, h |-> h]
    BY <1>7, Zenon DEF protobuf_c_buffer_simple_append, Appended, len, all
  <2>2. /\ c \in Buffers /\ c.data = all /\ c.alloced = b.alloced /\ c.blk = b.blk
    BY <1>1, <1>3 DEF Buffers
  <2>3. a.b = c /\ a.h = h
    BY <2>1
  <2> HIDE DEF c, a
  <2>4. h.n <= h.n
    BY <1>1
  <2> QED
    BY <1>1, <1>2, <1>3, <1>6, <1>7, <2>2, <2>3, <2>4
<1>8. CASE ~(len <= b.alloced) /\ n = h.fail
  <2> DEFINE g == [h EXCEPT !.n = n]
  <2>1. do_alloc(h) = [ptr |-> 0, h |-> g]
    BY <1>8, Zenon DEF do_alloc, n
  <2>2. a = [b |-> b, h |-> g]
    BY <1>8, <2>1 DEF protobuf_c_buffer_simple_append, Grown, len, all
  <2>3. /\ g \in Heaps /\ g.n = n /\ g.fail = h.fail /\ g.live = h.live
    BY <1>1 DEF Heaps, n
  <2>4. a.b = b /\ a.h = g
    BY <2>2
  <2> HIDE DEF g, a
  <2>5. Failed(g) /\ h.n <= n /\ b.blk <= n
    BY <1>1, <1>2, <1>8, <2>3 DEF Failed, n
  <2> QED
    BY <1>1, <1>2, <1>6, <2>3, <2>4, <2>5
<1>9. CASE ~(len <= b.alloced) /\ n # h.fail
  <2> DEFINE m == doubled(2 * b.alloced, len)
             c == [data |-> all, blk |-> n, alloced |-> m]
             f == [h EXCEPT !.n = n, !.live = @ \cup {n}]
             g == do_free(f, b.blk)
  <2>1. do_alloc(h) = [ptr |-> n, h |-> f]
    BY <1>9, Zenon DEF do_alloc, n
  <2>2. n \in Nat /\ n # 0
    BY <1>1 DEF n
  <2>3. a = [b |-> c, h |-> g]
    BY <1>9, <2>1, <2>2 DEF protobuf_c_buffer_simple_append, Grown, len, all
  <2>4. m \in Nat \ {0} /\ len <= m
    BY <1>3, <1>4, DoubledEnough
  <2>5. a.b = c /\ a.h = g
    BY <2>3
  <2> HIDE DEF m, a
  <2>6. c \in Buffers /\ c.data = all /\ c.blk = n /\ c.alloced = m
    BY <1>3, <2>2, <2>4 DEF Buffers
  <2>7. /\ f \in Heaps /\ f.n = n /\ f.fail = h.fail /\ f.faults = h.faults
        /\ f.live = h.live \cup {n}
    BY <1>1, <2>2 DEF Heaps
  <2>8. n \notin L /\ n # b.blk /\ h.n <= n
    BY <1>1, <1>2 DEF n
  <2> HIDE DEF f
  <2>9. /\ g \in Heaps /\ g.n = n /\ g.fail = h.fail /\ g.faults = h.faults
        /\ g.live = L \cup {n}
    <3>1. CASE b.blk = 0
      BY <1>2, <2>7, <3>1 DEF do_free
    <3>2. CASE b.blk # 0
      <4>1. b.blk \in f.live
        BY <1>2, <2>7, <3>2
      <4>2. g = [f EXCEPT !.live = @ \ {b.blk}]
        BY <3>2, <4>1, Zenon DEF do_free
      <4>3. /\ g \in Heaps /\ g.n = f.n /\ g.fail = f.fail /\ g.faults = f.faults
            /\ g.live = f.live \ {b.blk}
        BY <2>7, <4>2 DEF Heaps
      <4>4. f.live \ {b.blk} = L \cup {n}
        BY <1>2, <2>7, <2>8, <3>2
      <4> QED
        BY <2>7, <4>3, <4>4, Zenon
    <3> QED
      BY <3>1, <3>2
  <2> HIDE DEF c, g
  <2>10. n <= n
    BY <2>2
  <2> QED
    BY <1>3, <1>6, <2>2, <2>4, <2>5, <2>6, <2>8, <2>9, <2>10
<1> QED
  BY <1>7, <1>8, <1>9

\* What Good and Results say of the parts of a result.
LEMMA GoodParts ==
    ASSUME NEW L, NEW r, Good(L, r)
    PROVE  /\ r \in Results /\ r.rv \in Nat /\ r.b \in Buffers /\ r.h \in Heaps
           /\ r.b.data \in Seq(Byte) /\ r.b.alloced \in Nat /\ r.b.blk \in Nat
           /\ r.h.n \in Nat /\ r.h.fail \in Nat /\ r.h.live \in SUBSET Nat
           /\ L \in SUBSET Nat
BY DEF Good, Results, Buffers, Heaps

\* Sending nothing.
LEMMA NothingSent ==
    ASSUME NEW L, NEW r, Good(L, r)
    PROVE  Goes(L, r, r, <<>>)
<1>1. /\ r.rv \in Nat /\ r.b.data \in Seq(Byte) /\ r.h.n \in Nat
  BY GoodParts
<1>2. <<>> \in Seq(Byte) /\ Len(<<>>) = 0
  OBVIOUS
<1>3. r.b.data \o <<>> = r.b.data
  BY <1>1
<1> QED
  BY <1>1, <1>2, <1>3 DEF Goes

\* One send after another sends both, whether the first failed or the second.
LEMMA BothSent ==
    ASSUME NEW L, NEW r, NEW s, NEW t, NEW a, NEW c,
           Good(L, r), Goes(L, r, s, a), Goes(L, s, t, c)
    PROVE  Goes(L, r, t, a \o c)
<1> DEFINE data == r.b.data
<1>1. Good(L, s) /\ Good(L, t) /\ a \in Seq(Byte) /\ c \in Seq(Byte)
  BY Zenon DEF Goes
<1>2. /\ r.rv \in Nat /\ data \in Seq(Byte) /\ r.h.n \in Nat
      /\ s.rv \in Nat /\ s.h.n \in Nat /\ s.h.fail \in Nat /\ t.h.n \in Nat
  BY <1>1, GoodParts
<1>3. /\ s.h.fail = r.h.fail /\ r.h.n <= s.h.n /\ s.rv = r.rv + Len(a)
      /\ t.h.fail = s.h.fail /\ s.h.n <= t.h.n /\ t.rv = s.rv + Len(c)
  BY Zenon DEF Goes
<1>4. a \o c \in Seq(Byte) /\ Len(a \o c) = Len(a) + Len(c) /\ Len(a) \in Nat /\ Len(c) \in Nat
  BY <1>1
<1>5. t.h.fail = r.h.fail /\ r.h.n <= t.h.n /\ t.rv = r.rv + Len(a \o c)
  <2>1. t.h.fail = r.h.fail /\ r.h.n <= t.h.n
    BY <1>2, <1>3
  <2>2. \A u, x, y \in Nat : (u + x) + y = u + (x + y)
    OBVIOUS
  <2>3. t.rv = (r.rv + Len(a)) + Len(c)
    BY <1>3, Zenon
  <2>4. t.rv = r.rv + (Len(a) + Len(c))
    <3>1. r.rv \in Nat /\ Len(a) \in Nat /\ Len(c) \in Nat
      BY <1>2, <1>4, Zenon
    <3>2. (r.rv + Len(a)) + Len(c) = r.rv + (Len(a) + Len(c))
      BY <2>2, <3>1, Zenon
    <3> QED
      BY <2>3, <3>2, Zenon
  <2> QED
    BY <1>4, <2>1, <2>4, Zenon
<1>6. ASSUME ~Failed(t.h)
      PROVE  t.b.data = data \o (a \o c) /\ t.h.faults = r.h.faults
  <2>1. ~Failed(s.h)
    BY <1>2, <1>3, <1>6 DEF Failed
  <2>2. /\ s.b.data = data \o a /\ s.h.faults = r.h.faults
        /\ t.b.data = s.b.data \o c /\ t.h.faults = s.h.faults
    BY <1>6, <2>1, Zenon DEF Goes
  <2>3. data \o (a \o c) = (data \o a) \o c
    BY <1>1, <1>2, Association
  <2> QED
    BY <2>2, <2>3, Zenon
<1> QED
  BY <1>1, <1>4, <1>5, <1>6, Zenon DEF Goes

\* After a failure only the number of bytes matters.
LEMMA SameSent ==
    ASSUME NEW L, NEW r, NEW s, NEW a, NEW c \in Seq(Byte), Goes(L, r, s, a),
           Len(a) = Len(c), ~Failed(s.h) => a = c
    PROVE  Goes(L, r, s, c)
BY Zenon DEF Goes

\* One send after the other.
LEMMA AllSent ==
    ASSUME NEW L, NEW r, Good(L, r), NEW s \in Seq(Seq(Byte)), NEW f, f[0] = r,
           \A k \in 1..Len(s) : Good(L, f[k - 1]) => Goes(L, f[k - 1], f[k], s[k])
    PROVE  Goes(L, r, f[Len(s)], FlattenSeq(s))
<1> DEFINE n == Len(s)
<1>1. n \in Nat
  OBVIOUS
<1>2. PICK c : FlatOf(c, s)
  BY FlatSteps, Zenon
<1>3. /\ c[0] = <<>> /\ FlattenSeq(s) = c[n] /\ \A k \in 1..n : c[k] = c[k - 1] \o s[k]
  BY <1>2, Zenon DEF FlatOf
<1> DEFINE S == {k \in Nat : Goes(L, r, f[k], c[k])}
<1>4. 0 \in S
  <2>1. Goes(L, r, f[0], c[0])
    BY <1>3, NothingSent, Zenon
  <2> QED
    BY <2>1
<1>5. ASSUME NEW k \in 1..n, k - 1 \in S
      PROVE  k \in S
  <2>1. Goes(L, r, f[k - 1], c[k - 1])
    BY <1>5
  <2>2. Goes(L, f[k - 1], f[k], s[k])
    BY <2>1, Zenon DEF Goes
  <2>3. Goes(L, r, f[k], c[k])
    BY <1>3, <2>1, <2>2, BothSent, Zenon
  <2> QED
    BY <1>1, <2>3
<1>6. n \in S
  <2> HIDE DEF S, n
  <2>1. \A k \in 0..n : k \in S
    BY <1>1, <1>4, <1>5, Along
  <2> QED
    BY <1>1, <2>1
<1> QED
  BY <1>3, <1>6, Zenon

\* A submessage starts a buffer of its own beside the blocks that are live.
LEMMA SubStarts ==
    ASSUME NEW L, NEW r, Good(L, r)
    PROVE  Good(r.h.live, Started(BufferSimple(SubBuffer), r.h))
<1> DEFINE s == Started(BufferSimple(SubBuffer), r.h)
<1>1. /\ r.h \in Heaps /\ r.h.n \in Nat /\ r.h.live \in SUBSET Nat /\ r.b.blk \in Nat
  BY GoodParts
<1>2. /\ r.b.blk <= r.h.n /\ \A x \in L : x # 0 /\ x <= r.h.n
      /\ r.h.live = L \cup (IF r.b.blk = 0 THEN {} ELSE {r.b.blk})
  BY Zenon DEF Good
<1>3. SubBuffer \in Nat \ {0}
  BY SubBufferAssumption
<1>4. /\ s.rv = 0 /\ s.h = r.h /\ s.b = [data |-> <<>>, alloced |-> SubBuffer, blk |-> 0]
  BY DEF Started, BufferSimple
<1>5. /\ s.b \in Buffers /\ s.b.data = <<>> /\ s.b.alloced = SubBuffer /\ s.b.blk = 0
  BY <1>3, <1>4 DEF Buffers
<1>6. s \in Results
  BY <1>1, <1>4, <1>5 DEF Results, Started
<1> HIDE DEF s
<1>7. \A x \in r.h.live : x # 0 /\ x <= r.h.n
  BY <1>2
<1>8. Len(<<>>) <= SubBuffer /\ 0 <= r.h.n /\ 0 \notin r.h.live
  BY <1>1, <1>2, <1>3
<1>9. /\ s.b.alloced # 0 /\ Len(s.b.data) <= s.b.alloced
      /\ s.b.blk <= s.h.n /\ s.b.blk \notin r.h.live
      /\ s.h.live = r.h.live \cup (IF s.b.blk = 0 THEN {} ELSE {s.b.blk})
      /\ \A x \in r.h.live : x # 0 /\ x <= s.h.n
  <2>1. r.h.live = r.h.live \cup {}
    OBVIOUS
  <2>2. s.b.alloced # 0
    BY <1>3, <1>5
  <2> QED
    BY <1>4, <1>5, <1>7, <1>8, <2>1, <2>2, Zenon
<1>10. Good(r.h.live, s)
  BY <1>1, <1>6, <1>9, Zenon DEF Good
<1> QED
  BY <1>10 DEF s

\* A submessage is packed to a buffer of its own, then sent with its tag and
\* length; that buffer's block is freed whether packing failed or not.
LEMMA SubSent ==
    ASSUME NEW L, NEW r, Good(L, r), NEW field, field.id \in FieldNumbers,
           NEW s, NEW bytes, Goes(r.h.live, Started(BufferSimple(SubBuffer), r.h), s, bytes)
    PROVE  Goes(L, r, SentSub(field, r, s),
                Tagged(field.id, LENGTH_PREFIXED) \o Prefixed(bytes))
<1> DEFINE h == IF s.rv <= Len(s.b.data) THEN s.h ELSE Fault(s.h, "read past the buffer")
           sub == [k \in 1..s.rv |-> IF k <= Len(s.b.data) THEN s.b.data[k] ELSE {}]
           tag == Tagged(field.id, LENGTH_PREFIXED)
           prefix == uint32_pack(Word(s.rv))
           own == IF s.b.blk = 0 THEN {} ELSE {s.b.blk}
           L1 == L \cup own
           r1 == [r EXCEPT !.h = h]
           r2 == Put(r1, tag \o prefix)
           r3 == Put(r2, sub)
           r4 == [r3 EXCEPT !.h = do_free(@, s.b.blk)]
<1>1. SentSub(field, r, s) = r4
  BY Zenon DEF SentSub
<1>2. Good(r.h.live, s) /\ bytes \in Seq(Byte)
  BY Zenon DEF Goes
<1>3. /\ r \in Results /\ r.rv \in Nat /\ r.b \in Buffers /\ r.h \in Heaps
      /\ r.b.data \in Seq(Byte) /\ r.b.blk \in Nat /\ r.h.n \in Nat /\ L \in SUBSET Nat
  BY GoodParts
<1>4. /\ s.rv \in Nat /\ s.h \in Heaps /\ s.b.data \in Seq(Byte) /\ s.b.blk \in Nat
      /\ s.h.n \in Nat /\ s.h.fail \in Nat
  BY <1>2, GoodParts
<1>5. /\ Started(BufferSimple(SubBuffer), r.h).rv = 0
      /\ Started(BufferSimple(SubBuffer), r.h).h = r.h
      /\ Started(BufferSimple(SubBuffer), r.h).b.data = <<>>
  BY DEF Started, BufferSimple
<1>6. s.rv = Len(bytes)
  BY <1>2, <1>5 DEF Goes
<1>7. /\ s.h.fail = r.h.fail /\ r.h.n <= s.h.n
      /\ ~Failed(s.h) => s.b.data = bytes /\ s.h.faults = r.h.faults
  BY <1>2, <1>5 DEF Goes
<1>8. /\ h \in Heaps /\ h.n = s.h.n /\ h.fail = s.h.fail /\ h.live = s.h.live
      /\ ~Failed(s.h) => h = s.h
  <2>1. h = s.h \/ h = Fault(s.h, "read past the buffer")
    OBVIOUS
  <2>2. ~Failed(s.h) => h = s.h
    <3>1. Len(bytes) <= Len(bytes)
      BY <1>2
    <3> QED
      BY <1>6, <1>7, <3>1, Zenon
  <2> DEFINE f == [s.h EXCEPT !.faults = @ \cup {"read past the buffer"}]
  <2>3. /\ f \in Heaps /\ f.n = s.h.n /\ f.fail = s.h.fail /\ f.live = s.h.live
    <3> DEFINE u == s.h.faults \cup {"read past the buffer"}
    <3>1. s.h.faults \in SUBSET Faults
      BY <1>4 DEF Heaps
    <3>2. u \in SUBSET Faults
      BY <3>1 DEF Faults
    <3>3. f = [s.h EXCEPT !.faults = u]
      OBVIOUS
    <3> HIDE DEF u, f
    <3> QED
      BY <1>4, <3>2, <3>3 DEF Heaps
  <2>4. h = s.h \/ h = f
    BY <2>1, Zenon DEF Fault
  <2> HIDE DEF h, f
  <2> QED
    BY <1>4, <2>2, <2>3, <2>4, Zenon
<1>9. sub \in Seq(Byte) /\ Len(sub) = Len(bytes) /\ (~Failed(s.h) => sub = bytes)
  <2>1. {} \in Byte
    BY DEF Byte
  <2>2. sub \in [1..s.rv -> Byte]
    BY <1>4, <2>1
  <2>3. ~Failed(s.h) => sub = bytes
    <3> SUFFICES ASSUME ~Failed(s.h)
                 PROVE  sub = bytes
      OBVIOUS
    <3>1. s.b.data = bytes
      BY <1>7
    <3>2. sub = [k \in 1..Len(bytes) |-> IF k <= Len(bytes) THEN bytes[k] ELSE {}]
      BY <1>6, <3>1, Zenon
    <3>3. [k \in 1..Len(bytes) |-> IF k <= Len(bytes) THEN bytes[k] ELSE {}] = bytes
      BY <1>2
    <3> QED
      BY <3>2, <3>3, Zenon
  <2> HIDE DEF sub
  <2> QED
    BY <1>4, <1>6, <2>2, <2>3, FunctionSeq
<1> HIDE DEF h, sub
<1>10. Written(tag, get_tag_size(field.id)) /\ Written(prefix, uint32_size(Word(s.rv)))
  BY TagWritten, LengthWritten DEF LENGTH_PREFIXED
<1>11. tag \in Seq(Byte) /\ prefix \in Seq(Byte) /\ tag \o prefix \in Seq(Byte)
  BY <1>10 DEF Written
<1>12. /\ r.b.blk <= r.h.n /\ r.b.blk \notin L /\ \A x \in L : x # 0 /\ x <= r.h.n
       /\ r.h.live = L \cup (IF r.b.blk = 0 THEN {} ELSE {r.b.blk})
       /\ r.b.alloced # 0 /\ Len(r.b.data) <= r.b.alloced
  BY Zenon DEF Good
<1>13. s.b.blk <= s.h.n /\ s.b.blk \notin r.h.live /\ s.h.live = r.h.live \cup own
  BY <1>2, Zenon DEF Good
<1>14. /\ r1.rv = r.rv /\ r1.b = r.b /\ r1.h = h /\ r1 \in Results
  BY <1>3, <1>8 DEF Results
<1> HIDE DEF r1
<1>15. Good(L1, r1)
  <2>1. L1 \in SUBSET Nat
    BY <1>3, <1>4
  <2>2. h.live = L1 \cup (IF r.b.blk = 0 THEN {} ELSE {r.b.blk})
    BY <1>8, <1>12, <1>13, Zenon
  <2>3. r.b.blk <= h.n
    BY <1>3, <1>4, <1>7, <1>8, <1>12
  <2>4. r.b.blk \notin L1
    BY <1>12, <1>13
  <2>5. \A x \in L1 : x # 0 /\ x <= h.n
    BY <1>3, <1>4, <1>7, <1>8, <1>12, <1>13
  <2> HIDE DEF L1
  <2> QED
    BY <1>12, <1>14, <2>1, <2>2, <2>3, <2>4, <2>5, Zenon DEF Good
<1> HIDE DEF L1
<1>16. Goes(L1, r1, r2, tag \o prefix)
  BY <1>11, <1>15, PutGoes
<1>17. Goes(L1, r2, r3, sub)
  <2>1. Good(L1, r2)
    BY <1>16, Zenon DEF Goes
  <2> QED
    BY <1>9, <2>1, PutGoes
<1> HIDE DEF tag, prefix, r2, r3
<1>18. Goes(L1, r1, r3, (tag \o prefix) \o sub)
  BY <1>15, <1>16, <1>17, BothSent, Zenon
<1>19. Good(L1, r3)
  BY <1>18, Zenon DEF Goes
<1>20. /\ r3 \in Results /\ r3.h \in Heaps /\ r3.b.blk \in Nat /\ r3.h.n \in Nat
  BY <1>19, GoodParts
<1>21. /\ r3.b.alloced # 0 /\ Len(r3.b.data) <= r3.b.alloced
       /\ r3.b.blk <= r3.h.n /\ r3.b.blk \notin L1
       /\ \A x \in L1 : x # 0 /\ x <= r3.h.n
       /\ r3.h.live = L1 \cup (IF r3.b.blk = 0 THEN {} ELSE {r3.b.blk})
  BY <1>19, Zenon DEF Good
<1> DEFINE g == do_free(r3.h, s.b.blk)
<1>22. /\ g \in Heaps /\ g.n = r3.h.n /\ g.fail = r3.h.fail /\ g.faults = r3.h.faults
       /\ g.live = L \cup (IF r3.b.blk = 0 THEN {} ELSE {r3.b.blk})
  <2>1. CASE s.b.blk = 0
    BY <1>20, <1>21, <2>1 DEF do_free, L1
  <2>2. CASE s.b.blk # 0
    <3>1. s.b.blk \in L1 /\ s.b.blk \notin L
      BY <1>12, <1>13, <2>2 DEF L1
    <3>2. s.b.blk \in r3.h.live /\ s.b.blk # r3.b.blk
      BY <1>21, <3>1
    <3>3. g = [r3.h EXCEPT !.live = @ \ {s.b.blk}]
      BY <2>2, <3>2, Zenon DEF do_free
    <3>4. /\ g \in Heaps /\ g.n = r3.h.n /\ g.fail = r3.h.fail /\ g.faults = r3.h.faults
          /\ g.live = r3.h.live \ {s.b.blk}
      BY <1>20, <3>3 DEF Heaps
    <3>5. r3.h.live \ {s.b.blk} = L \cup (IF r3.b.blk = 0 THEN {} ELSE {r3.b.blk})
      BY <1>21, <2>2, <3>1, <3>2 DEF L1
    <3> QED
      BY <3>4, <3>5, Zenon
  <2> QED
    BY <2>1, <2>2
<1>23. r4.rv = r3.rv /\ r4.b = r3.b /\ r4.h = g /\ r4 \in Results
  BY <1>20, <1>22 DEF Results
<1> HIDE DEF g, r4
<1>24. Good(L, r4)
  <2>1. \A x \in L : x # 0 /\ x <= g.n
    BY <1>21, <1>22 DEF L1
  <2>2. r3.b.blk \notin L
    BY <1>21 DEF L1
  <2> QED
    BY <1>3, <1>21, <1>22, <1>23, <2>1, <2>2, Zenon DEF Good
<1>25. (tag \o prefix) \o sub \in Seq(Byte)
  BY <1>9, <1>11
<1>26. /\ r3.h.fail = h.fail /\ h.n <= r3.h.n
       /\ r3.rv = r.rv + Len((tag \o prefix) \o sub)
       /\ ~Failed(r3.h) => r3.b.data = r.b.data \o ((tag \o prefix) \o sub) /\ r3.h.faults = h.faults
  BY <1>14, <1>18, Zenon DEF Goes
<1>27. Failed(r4.h) <=> Failed(r3.h)
  BY <1>22, <1>23 DEF Failed
<1>28. ~Failed(r3.h) => ~Failed(s.h)
  BY <1>4, <1>8, <1>20, <1>26 DEF Failed
<1>29. r.h.n <= r4.h.n
  BY <1>3, <1>4, <1>7, <1>8, <1>20, <1>22, <1>23, <1>26
<1>30. Goes(L, r, r4, (tag \o prefix) \o sub)
  BY <1>7, <1>8, <1>22, <1>23, <1>24, <1>25, <1>26, <1>27, <1>28, <1>29, Zenon DEF Goes
<1>31. tag \o Prefixed(bytes) = (tag \o prefix) \o bytes
  <2>1. Prefixed(bytes) = prefix \o bytes
    BY <1>6, Zenon DEF Prefixed, prefix
  <2> QED
    BY <1>2, <1>11, <2>1, Association
<1>32. /\ (tag \o prefix) \o bytes \in Seq(Byte)
       /\ Len((tag \o prefix) \o sub) = Len((tag \o prefix) \o bytes)
  BY <1>2, <1>9, <1>11, SMTT(30)
<1>33. ~Failed(r4.h) => (tag \o prefix) \o sub = (tag \o prefix) \o bytes
  BY <1>9, <1>27, <1>28, Zenon
<1>34. Goes(L, r, r4, (tag \o prefix) \o bytes)
  BY <1>30, <1>32, <1>33, SameSent, Zenon
<1> QED
  BY <1>1, <1>31, <1>34, Zenon DEF tag

\* What is sent of the messages in S is what is packed of them.
Sends(to_buffer, packed, S) ==
    \A x \in S : \A L, r : Good(L, r) => Goes(L, r, to_buffer[x][r], packed[x])

\* Two appends, one after the other.
LEMMA PutTwo ==
    ASSUME NEW L, NEW r, Good(L, r), NEW a \in Seq(Byte), NEW c \in Seq(Byte)
    PROVE  Goes(L, r, Put(Put(r, a), c), a \o c)
<1>1. Goes(L, r, Put(r, a), a)
  BY PutGoes
<1>2. Good(L, Put(r, a))
  BY <1>1, Zenon DEF Goes
<1>3. Goes(L, Put(r, a), Put(Put(r, a), c), c)
  BY <1>2, PutGoes
<1> QED
  BY <1>1, <1>3, BothSent, Zenon

\* required_field_pack_to_buffer sends what required_field_pack writes.
LEMMA RequiredSent ==
    ASSUME NEW to_buffer, NEW packed, NEW S, Sends(to_buffer, packed, S),
           NEW field, IsField(field), NEW member, Fits(field, member, S),
           NEW L, NEW r, Good(L, r)
    PROVE  Goes(L, r, required_field_pack_to_buffer(to_buffer, field, member, r),
                required_field_pack(packed, field, member))
<1> DEFINE type == field.type
           tag == Tagged(field.id, wire_type_of(type))
           text == Content(type, member)
           sub == IF member = NULL THEN <<>> ELSE packed[member[1]]
           next == required_field_pack_to_buffer(to_buffer, field, member, r)
           bytes == required_field_pack(packed, field, member)
<1>1. /\ field.id \in FieldNumbers /\ type \in Types /\ IsValue(type, member)
      /\ type = "MESSAGE" /\ member # NULL => member[1] \in S
  BY DEF IsField, Fits
<1>2. wire_type_of(type) \in 0..5 /\ LENGTH_PREFIXED \in 0..5
  BY DEF wire_type_of, VARINT, LENGTH_PREFIXED, FIXED_32BIT, FIXED_64BIT
<1>3. Written(tag, get_tag_size(field.id))
      /\ Written(Tagged(field.id, LENGTH_PREFIXED), get_tag_size(field.id))
  BY <1>1, <1>2, TagWritten
<1>4. tag \in Seq(Byte) /\ Tagged(field.id, LENGTH_PREFIXED) \in Seq(Byte)
  BY <1>3 DEF Written
<1>5. type \in Text \cup {"MESSAGE"} => wire_type_of(type) = LENGTH_PREFIXED
  BY DEF wire_type_of
<1>6. CASE type = "MESSAGE"
  <2> DEFINE start == Started(BufferSimple(SubBuffer), r.h)
             s == IF member = NULL THEN start ELSE to_buffer[member[1]][start]
  <2>1. type \notin Text
    BY <1>6 DEF Text
  <2>2. next = SentSub(field, r, s)
    BY <1>6, Zenon DEF required_field_pack_to_buffer, submessage_pack_to_buffer
  <2>3. bytes = tag \o Prefixed(sub)
    BY <1>6, <2>1 DEF required_field_pack
  <2>4. Good(r.h.live, start)
    BY SubStarts
  <2>5. Goes(r.h.live, start, s, sub)
    <3>1. CASE member = NULL
      BY <2>4, <3>1, NothingSent, Zenon
    <3>2. CASE member # NULL
      BY <1>1, <1>6, <2>4, <3>2, Zenon DEF Sends
    <3> QED
      BY <3>1, <3>2
  <2>6. Goes(L, r, next, Tagged(field.id, LENGTH_PREFIXED) \o Prefixed(sub))
    BY <1>1, <2>2, <2>5, SubSent, Zenon
  <2> QED
    BY <1>5, <1>6, <2>3, <2>6, Zenon
<1>7. CASE type \in Text
  <2> DEFINE prefix == uint32_pack(Word(Len(text)))
  <2>1. type # "MESSAGE"
    BY <1>7 DEF Text
  <2>2. next = Put(Put(r, Tagged(field.id, LENGTH_PREFIXED) \o prefix), text)
    BY <1>7, <2>1, Zenon DEF required_field_pack_to_buffer
  <2>3. bytes = tag \o Prefixed(text)
    BY <1>7, <2>1 DEF required_field_pack
  <2>4. tag = Tagged(field.id, LENGTH_PREFIXED)
    BY <1>5, <1>7, Zenon
  <2>5. Written(text, Len(text)) /\ Written(prefix, uint32_size(Word(Len(text))))
    BY <1>1, <1>7, ContentWritten, LengthWritten, Zenon
  <2>6. text \in Seq(Byte) /\ prefix \in Seq(Byte)
    BY <2>5, Zenon DEF Written
  <2>7. Prefixed(text) = prefix \o text
    BY Zenon DEF Prefixed
  <2> HIDE DEF tag, text, prefix, next, bytes
  <2>8. tag \o prefix \in Seq(Byte)
    BY <1>4, <2>6
  <2>9. Goes(L, r, Put(Put(r, tag \o prefix), text), (tag \o prefix) \o text)
    BY <2>6, <2>8, PutTwo, Zenon
  <2>10. (tag \o prefix) \o text = tag \o (prefix \o text)
    BY <1>4, <2>6, Association
  <2>11. Goes(L, r, next, bytes)
    BY <2>2, <2>3, <2>4, <2>7, <2>9, <2>10, Zenon
  <2> QED
    BY <2>11 DEF next, bytes
<1>8. CASE type \notin Text \cup {"MESSAGE"}
  <2> DEFINE value == scalar_pack(type, member)
  <2>1. next = Put(r, tag \o value)
    BY <1>8 DEF required_field_pack_to_buffer
  <2>2. bytes = tag \o value
    BY <1>8 DEF required_field_pack
  <2>3. IsScalar(type)
    BY <1>1, <1>8 DEF IsScalar
  <2>4. Written(value, scalar_size(type, member))
    BY <1>1, <2>3, ScalarWritten, Zenon
  <2>5. value \in Seq(Byte)
    BY <2>4, Zenon DEF Written
  <2> HIDE DEF value, tag, next, bytes
  <2>6. tag \o value \in Seq(Byte)
    BY <1>4, <2>5
  <2>7. Goes(L, r, next, bytes)
    BY <2>1, <2>2, <2>6, PutGoes, Zenon
  <2> QED
    BY <2>7 DEF next, bytes
<1> QED
  BY <1>6, <1>7, <1>8

\* The results a run of sends goes through.
GoodResults(L) == {r \in Results : Good(L, r)}

\* Appends of any number of parts, one after the other.
LEMMA PutAllGoes ==
    ASSUME NEW L, NEW r, Good(L, r), NEW items \in Seq(Seq(Byte))
    PROVE  Goes(L, r, PutAll(r, items), FlattenSeq(items))
<1> DEFINE n == Len(items)
           V == GoodResults(L)
           F(f) == [k \in 0..n |-> IF k = 0 THEN r ELSE Put(f[k - 1], items[k])]
           after == CHOOSE f : f = F(f)
<1>1. n \in Nat /\ \A k \in 1..n : items[k] \in Seq(Byte)
  OBVIOUS
<1>2. PutAll(r, items) = after[n]
  BY DEF PutAll
<1>3. r \in V
  BY Zenon DEF GoodResults, Good
<1>4. \A v \in V : Good(L, v)
  BY DEF GoodResults
<1>5. \A v \in V, d \in Seq(Byte) : Goes(L, v, Put(v, d), d)
  BY <1>4, PutGoes, Zenon
<1>6. \A v \in V, d \in Seq(Byte) : Put(v, d) \in V
  BY <1>5, Zenon DEF GoodResults, Goes, Good
<1> HIDE DEF V, n
<1>7. \E f : f = F(f)
  <2> DEFINE g == [k \in 1..n |-> [v \in V |-> Put(v, items[k])]]
  <2>1. g \in [1..n -> [V -> V]] /\ \A k \in 1..n, v \in V : g[k][v] = Put(v, items[k])
    BY <1>1, <1>6, Zenon
  <2> HIDE DEF g
  <2>2. PICK f : Recursive(f, n, V, r, g)
    BY <1>1, <1>3, <2>1, Recursion
  <2>3. /\ f[0] = r /\ f \in [0..n -> V] /\ \A k \in 1..n : f[k] = g[k][f[k - 1]]
    BY <2>2, Zenon DEF Recursive
  <2>4. \A k \in 1..n : k - 1 \in 0..n
    BY <1>1
  <2>5. \A k \in 1..n : f[k] = Put(f[k - 1], items[k])
    BY <2>1, <2>3, <2>4, Zenon
  <2>6. f = F(f)
    <3>1. \A k \in 0..n : k # 0 => k \in 1..n
      BY <1>1
    <3>2. \A k \in 0..n : f[k] = IF k = 0 THEN r ELSE Put(f[k - 1], items[k])
      BY <2>3, <2>5, <3>1, Zenon
    <3>3. f = [k \in 0..n |-> f[k]]
      BY <2>3
    <3> QED
      BY <3>2, <3>3, Zenon
  <2> QED
    BY <2>6, Zenon
<1>8. after = F(after)
  BY <1>7, Zenon
<1> HIDE DEF after
<1>9. 0 \in 0..n /\ \A k \in 1..n : k \in 0..n /\ k # 0
  BY <1>1
<1>10. after[0] = r /\ \A k \in 1..n : after[k] = Put(after[k - 1], items[k])
  BY <1>8, <1>9, Zenon
<1>11. \A k \in 1..n : Good(L, after[k - 1]) => Goes(L, after[k - 1], after[k], items[k])
  BY <1>1, <1>10, PutGoes, Zenon
<1>12. Goes(L, r, after[n], FlattenSeq(items))
  BY <1>10, <1>11, AllSent, Zenon DEF n
<1> QED
  BY <1>2, <1>12, Zenon

\* The elements of a packed array are sent as they are written.
LEMMA PayloadSent ==
    ASSUME NEW field, IsScalar(field.type), NEW n, NEW e, Values(field.type, e, n),
           NEW L, NEW r, Good(L, r)
    PROVE  Goes(L, r, pack_buffer_packed_payload(field, e, r),
                FlattenSeq(BytesIn(field.type, e)))
<1> DEFINE bytes == BytesIn(field.type, e)
<1>1. bytes \in Seq(Seq(Byte))
  BY ScalarsTyped, Zenon
<1>2. Written(FlattenSeq(bytes), Total(SizesIn(field.type, e)))
  BY ScalarsWritten, Zenon
<1>3. FlattenSeq(bytes) \in Seq(Byte)
  BY <1>2, Zenon DEF Written
<1>4. pack_buffer_packed_payload(field, e, r) =
        IF field.type \in Fixed32 \cup Fixed64 THEN Put(r, FlattenSeq(bytes))
        ELSE PutAll(r, bytes)
  BY Zenon DEF pack_buffer_packed_payload, BytesIn
<1> QED
  BY <1>1, <1>3, <1>4, PutGoes, PutAllGoes, Zenon

\* The assertion on the length of the payload never fails.
LEMMA PackedSent ==
    ASSUME NEW field, IsScalar(field.type), field.id \in FieldNumbers,
           NEW n \in 0..MaxCount, NEW e, Values(field.type, e, n), NEW L, NEW r, Good(L, r)
    PROVE  Goes(L, r, PackedToBuffer(field, e, get_packed_payload_length(field, e), r),
                Tagged(field.id, LENGTH_PREFIXED) \o PackedPayload(field, e))
<1> DEFINE type == field.type
           payload == FlattenSeq(BytesIn(type, e))
           m == Total(SizesIn(type, e))
           tag == Tagged(field.id, LENGTH_PREFIXED)
           prefix == uint32_pack(Word(m))
           header == tag \o prefix
           r1 == Put(r, header)
           r2 == pack_buffer_packed_payload(field, e, r1)
           before == [r EXCEPT !.rv = @ + Len(header)]
<1>1. get_packed_payload_length(field, e) = m
  BY Zenon DEF get_packed_payload_length, SizesIn
<1>2. PackedToBuffer(field, e, m, r) =
        IF r2.rv - before.rv = m THEN r2 ELSE Assert(FALSE, "tmp == payload_len")
  BY Zenon DEF PackedToBuffer, Checked
<1>3. Written(payload, m)
  BY ScalarsWritten, Zenon
<1>4. Written(tag, get_tag_size(field.id)) /\ Written(prefix, uint32_size(Word(m)))
  BY TagWritten, LengthWritten DEF LENGTH_PREFIXED
<1>5. /\ payload \in Seq(Byte) /\ Len(payload) = m /\ m \in Nat
      /\ tag \in Seq(Byte) /\ prefix \in Seq(Byte)
  BY <1>3, <1>4, Zenon DEF Written
<1> HIDE DEF payload, m, tag, prefix
<1>6. header \in Seq(Byte) /\ Len(header) \in Nat
  BY <1>5
<1>7. r \in Results /\ r.rv \in Nat
  BY GoodParts, Zenon
<1>8. before.rv = r.rv + Len(header)
  BY <1>7 DEF Results
<1> HIDE DEF before, header
<1>9. Goes(L, r, r1, header)
  BY <1>6, PutGoes
<1>10. Good(L, r1) /\ r1.rv = r.rv + Len(header)
  BY <1>9, Zenon DEF Goes
<1> HIDE DEF r1
<1>11. Goes(L, r1, r2, payload)
  BY <1>10, PayloadSent, Zenon DEF payload
<1>12. r2.rv = r1.rv + Len(payload)
  BY <1>11, Zenon DEF Goes
<1> HIDE DEF r2
<1>13. r2.rv - before.rv = m
  BY <1>5, <1>6, <1>7, <1>8, <1>10, <1>12
<1>14. Goes(L, r, r2, header \o payload)
  BY <1>9, <1>11, BothSent, Zenon
<1>15. PackedPayload(field, e) = prefix \o payload
  <2>1. PackedPayload(field, e) = Prefixed(payload)
    BY PayloadWritten, Zenon DEF payload
  <2> QED
    BY <1>5, <2>1, Zenon DEF Prefixed, prefix
<1>16. tag \o (prefix \o payload) = header \o payload
  BY <1>5, Association DEF header
<1> QED
  BY <1>1, <1>2, <1>13, <1>14, <1>15, <1>16, Zenon DEF tag

\* repeated_field_pack_to_buffer sends what repeated_field_pack writes.
LEMMA RepeatedSent ==
    ASSUME NEW to_buffer, NEW packed, NEW S, Sends(to_buffer, packed, S),
           NEW field, IsField(field), NEW count \in 0..MaxCount, NEW member,
           \A k \in 1..count : Fits(field, Elements(count, member)[k], S),
           NEW L, NEW r, Good(L, r)
    PROVE  Goes(L, r, repeated_field_pack_to_buffer(to_buffer, field, count, member, r),
                repeated_field_pack(packed, field, count, member))
<1> DEFINE type == field.type
           e == Elements(count, member)
           V == GoodResults(L)
           s == [k \in 1..count |-> required_field_pack(packed, field, e[k])]
           Op(k, v) == required_field_pack_to_buffer(to_buffer, field, e[k], v)
           F(f) == [k \in 0..count |-> IF k = 0 THEN r ELSE Op(k, f[k - 1])]
           each == CHOOSE f : f = F(f)
           next == repeated_field_pack_to_buffer(to_buffer, field, count, member, r)
           bytes == repeated_field_pack(packed, field, count, member)
<1>1. count \in Nat /\ DOMAIN e = 1..count /\ field.id \in FieldNumbers
  BY DEF Elements, IsField
<1>2. next =
        IF count = 0 THEN r
        ELSE IF Packed(field)
        THEN PackedToBuffer(field, e, get_packed_payload_length(field, e), r)
        ELSE each[count]
  BY Zenon DEF repeated_field_pack_to_buffer
<1>3. bytes =
        IF count = 0 THEN <<>>
        ELSE IF Packed(field)
        THEN Tagged(field.id, LENGTH_PREFIXED) \o PackedPayload(field, e)
        ELSE FlattenSeq([k \in DOMAIN e |-> required_field_pack(packed, field, e[k])])
  BY Zenon DEF repeated_field_pack
<1>4. [k \in DOMAIN e |-> required_field_pack(packed, field, e[k])] = s
  BY <1>1, Zenon
<1>5. \A k \in 1..count : Fits(field, e[k], S)
  OBVIOUS
<1> HIDE DEF e, next, bytes
<1>6. \A k \in 1..count : \A v : Good(L, v) =>
          Goes(L, v, Op(k, v), required_field_pack(packed, field, e[k]))
  BY <1>5, RequiredSent, Zenon
<1>7. CASE count = 0
  BY <1>2, <1>3, <1>7, NothingSent, Zenon DEF next, bytes
<1>8. CASE count # 0 /\ Packed(field)
  <2>1. IsScalar(type)
    BY <1>8 DEF IsField, IsScalar
  <2>2. Values(type, e, count)
    BY <1>1, <1>5, Zenon DEF Values, Fits
  <2>3. Goes(L, r, PackedToBuffer(field, e, get_packed_payload_length(field, e), r),
             Tagged(field.id, LENGTH_PREFIXED) \o PackedPayload(field, e))
    BY <1>1, <2>1, <2>2, PackedSent, Zenon
  <2> QED
    BY <1>2, <1>3, <1>8, <2>3, Zenon DEF next, bytes
<1>9. r \in V
  BY Zenon DEF GoodResults, Good
<1>10. \A k \in 1..count, v \in V : Op(k, v) \in V
  <2> SUFFICES ASSUME NEW k \in 1..count, NEW v \in V
               PROVE  Op(k, v) \in V
    BY Zenon
  <2>1. Good(L, v)
    BY DEF GoodResults
  <2>2. Good(L, Op(k, v))
    BY <1>6, <2>1, Zenon DEF Goes
  <2> QED
    BY <2>2, Zenon DEF GoodResults, Good
<1> HIDE DEF V, Op
<1>11. \E f : f = F(f)
  <2> DEFINE g == [k \in 1..count |-> [v \in V |-> Op(k, v)]]
  <2>1. g \in [1..count -> [V -> V]] /\ \A k \in 1..count, v \in V : g[k][v] = Op(k, v)
    BY <1>1, <1>10, Zenon
  <2> HIDE DEF g
  <2>2. PICK f : Recursive(f, count, V, r, g)
    BY <1>1, <1>9, <2>1, Recursion
  <2>3. /\ f[0] = r /\ f \in [0..count -> V] /\ \A k \in 1..count : f[k] = g[k][f[k - 1]]
    BY <2>2, Zenon DEF Recursive
  <2>4. \A k \in 1..count : k - 1 \in 0..count
    BY <1>1
  <2>5. \A k \in 1..count : f[k] = Op(k, f[k - 1])
    BY <2>1, <2>3, <2>4, Zenon
  <2>6. f = F(f)
    <3>1. \A k \in 0..count : k # 0 => k \in 1..count
      BY <1>1
    <3>2. \A k \in 0..count : f[k] = IF k = 0 THEN r ELSE Op(k, f[k - 1])
      BY <2>3, <2>5, <3>1, Zenon
    <3>3. f = [k \in 0..count |-> f[k]]
      BY <2>3
    <3> QED
      BY <3>2, <3>3, Zenon
  <2> QED
    BY <2>6, Zenon
<1>12. each = F(each)
  BY <1>11, Zenon
<1> HIDE DEF each
<1>13. 0 \in 0..count /\ \A k \in 1..count : k \in 0..count /\ k # 0
  BY <1>1
<1>14. each[0] = r /\ \A k \in 1..count : each[k] = Op(k, each[k - 1])
  BY <1>12, <1>13, Zenon
<1>15. s \in Seq(Seq(Byte)) /\ Len(s) = count /\
        \A k \in 1..count : s[k] = required_field_pack(packed, field, e[k])
  <2>1. \A k \in 1..count : required_field_pack(packed, field, e[k]) \in Seq(Byte)
    BY <1>6, Zenon DEF Goes
  <2>2. s \in [1..count -> Seq(Byte)]
    BY <2>1, Zenon
  <2> QED
    BY <1>1, <2>2, FunctionSeq, Zenon
<1>16. Goes(L, r, each[count], FlattenSeq(s))
  <2> HIDE DEF s
  <2>1. \A k \in 1..Len(s) : Good(L, each[k - 1]) => Goes(L, each[k - 1], each[k], s[k])
    BY <1>6, <1>14, <1>15, Zenon
  <2> QED
    BY <1>14, <1>15, <2>1, AllSent, Zenon
<1>17. CASE count # 0 /\ ~Packed(field)
  BY <1>2, <1>3, <1>4, <1>16, <1>17, Zenon DEF next, bytes
<1> QED
  BY <1>7, <1>8, <1>17, Zenon

\* field_pack_to_buffer sends what field_pack writes, whatever the label.
LEMMA FieldSent ==
    ASSUME NEW message, IsMessage(message), NEW fields,
           fields = Descriptors[message.descriptor].fields, NEW f \in DOMAIN fields,
           NEW to_buffer, NEW packed, Sends(to_buffer, packed, Submessages(message)),
           NEW L, NEW r, Good(L, r)
    PROVE  Goes(L, r, field_pack_to_buffer(to_buffer, message, fields[f], r),
                field_pack(packed, message, fields[f]))
<1> DEFINE field == fields[f]
           member == message[field.offset]
           quantifier == message[field.quantifier_offset]
           S == Submessages(message)
<1>1. /\ IsField(field)
      /\ field.label = "REPEATED" => quantifier \in 0..MaxCount
      /\ \A k \in DOMAIN Held(message, field) : Fits(field, Held(message, field)[k], S)
  BY HeldFits, Zenon
<1>2. field.label \in Labels /\ IsField(field)
  BY <1>1 DEF IsField
<1> SUFFICES Goes(L, r, field_pack_to_buffer(to_buffer, message, field, r),
                  field_pack(packed, message, field))
  OBVIOUS
<1> HIDE DEF field
<1>3. Goes(L, r, r, <<>>)
  BY NothingSent
<1>4. ASSUME Fits(field, member, S)
      PROVE  Goes(L, r, required_field_pack_to_buffer(to_buffer, field, member, r),
                  required_field_pack(packed, field, member))
  BY <1>2, <1>4, RequiredSent, Zenon
<1>5. ASSUME field.label # "REPEATED",
             ~(field.label # "REQUIRED" /\ InOneof(field) /\ quantifier # field.id)
      PROVE  Fits(field, member, S)
  <2>1. Held(message, field) = <<member>>
    BY <1>5, Zenon DEF Held
  <2>2. 1 \in DOMAIN <<member>> /\ <<member>>[1] = member
    OBVIOUS
  <2> QED
    BY <1>1, <2>1, <2>2, Zenon
<1>6. CASE field.label = "REQUIRED"
  <2>1. /\ field_pack(packed, message, field) = required_field_pack(packed, field, member)
        /\ field_pack_to_buffer(to_buffer, message, field, r)
             = required_field_pack_to_buffer(to_buffer, field, member, r)
    BY <1>6 DEF field_pack, field_pack_to_buffer
  <2>2. Fits(field, member, S)
    BY <1>5, <1>6
  <2> QED
    BY <1>4, <2>1, <2>2, Zenon
<1>7. CASE field.label = "REPEATED"
  <2>1. /\ field_pack(packed, message, field)
             = repeated_field_pack(packed, field, quantifier, member)
        /\ field_pack_to_buffer(to_buffer, message, field, r)
             = repeated_field_pack_to_buffer(to_buffer, field, quantifier, member, r)
    BY <1>7 DEF field_pack, field_pack_to_buffer
  <2>2. Held(message, field) = Elements(quantifier, member)
    BY <1>7, Zenon DEF Held
  <2>3. DOMAIN Elements(quantifier, member) = 1..quantifier
    BY DEF Elements
  <2>4. \A k \in 1..quantifier : Fits(field, Elements(quantifier, member)[k], S)
    BY <1>1, <2>2, <2>3, Zenon
  <2>5. quantifier \in 0..MaxCount
    BY <1>1, <1>7, Zenon
  <2> QED
    BY <1>2, <2>1, <2>4, <2>5, RepeatedSent, Zenon
<1>8. CASE field.label \in {"OPTIONAL", "NONE"} /\ InOneof(field)
  <2>1. /\ field_pack(packed, message, field)
             = oneof_field_pack(packed, field, quantifier, member)
        /\ field_pack_to_buffer(to_buffer, message, field, r)
             = oneof_field_pack_to_buffer(to_buffer, field, quantifier, member, r)
    BY <1>8 DEF field_pack, field_pack_to_buffer
  <2>2. CASE quantifier # field.id \/ Unset(field, member)
    BY <1>3, <2>1, <2>2, Zenon DEF oneof_field_pack, oneof_field_pack_to_buffer
  <2>3. CASE ~(quantifier # field.id \/ Unset(field, member))
    <3>1. Fits(field, member, S)
      BY <1>5, <1>8, <2>3
    <3> QED
      BY <1>4, <2>1, <2>3, <3>1, Zenon DEF oneof_field_pack, oneof_field_pack_to_buffer
  <2> QED
    BY <2>2, <2>3, Zenon
<1>9. CASE field.label = "OPTIONAL" /\ ~InOneof(field)
  <2>1. /\ field_pack(packed, message, field)
             = optional_field_pack(packed, field, quantifier, member)
        /\ field_pack_to_buffer(to_buffer, message, field, r)
             = optional_field_pack_to_buffer(to_buffer, field, quantifier, member, r)
    BY <1>9 DEF field_pack, field_pack_to_buffer
  <2>2. Fits(field, member, S)
    BY <1>5, <1>9
  <2> QED
    BY <1>3, <1>4, <2>1, <2>2, Zenon DEF optional_field_pack, optional_field_pack_to_buffer
<1>10. CASE field.label = "NONE" /\ ~InOneof(field)
  <2>1. /\ field_pack(packed, message, field) = unlabeled_field_pack(packed, field, member)
        /\ field_pack_to_buffer(to_buffer, message, field, r)
             = unlabeled_field_pack_to_buffer(to_buffer, field, member, r)
    BY <1>10 DEF field_pack, field_pack_to_buffer
  <2>2. Fits(field, member, S)
    BY <1>5, <1>10
  <2> QED
    BY <1>3, <1>4, <2>1, <2>2, Zenon DEF unlabeled_field_pack, unlabeled_field_pack_to_buffer
<1> QED
  BY <1>2, <1>6, <1>7, <1>8, <1>9, <1>10 DEF Labels

\* An unknown field is sent as it is written.
LEMMA UnknownSent ==
    ASSUME NEW ufield \in UnknownFields, NEW L, NEW r, Good(L, r)
    PROVE  Goes(L, r, unknown_field_pack_to_buffer(ufield, r), unknown_field_pack(ufield))
<1>1. ufield.tag \in FieldNumbers /\ ufield.wire_type \in 0..5 /\ ufield.s \in Seq(Byte)
  BY DEF UnknownFields
<1>2. Written(Tagged(ufield.tag, ufield.wire_type), get_tag_size(ufield.tag))
  BY <1>1, TagWritten, Zenon
<1>3. Tagged(ufield.tag, ufield.wire_type) \in Seq(Byte)
  BY <1>2, Zenon DEF Written
<1> QED
  BY <1>1, <1>3, PutTwo, Zenon DEF unknown_field_pack_to_buffer, unknown_field_pack

\* A message is sent as it is written, when its submessages are.
LEMMA MessageSent ==
    ASSUME NEW message, IsMessage(message),
           NEW to_buffer, NEW packed, Sends(to_buffer, packed, Submessages(message)),
           NEW L, NEW r, Good(L, r)
    PROVE  Goes(L, r, message_pack_to_buffer(to_buffer, message, r),
                message_pack(packed, message))
<1> DEFINE fields == Descriptors[message.descriptor].fields
           unknown == message.unknown
           V == GoodResults(L)
           s == [f \in DOMAIN fields |-> field_pack(packed, message, fields[f])]
           us == [f \in DOMAIN unknown |-> unknown_field_pack(unknown[f])]
           n == Len(fields)
           u == Len(unknown)
           Op(k, v) == field_pack_to_buffer(to_buffer, message, fields[k], v)
           F(f) == [k \in 0..n |-> IF k = 0 THEN r ELSE Op(k, f[k - 1])]
           known == CHOOSE f : f = F(f)
           start == known[n]
           UOp(k, v) == unknown_field_pack_to_buffer(unknown[k], v)
           UF(f) == [k \in 0..u |-> IF k = 0 THEN start ELSE UOp(k, f[k - 1])]
           all == CHOOSE f : f = UF(f)
<1>1. n \in Nat /\ DOMAIN fields = 1..n
  <2>1. message.descriptor \in DOMAIN Descriptors
    BY DEF IsMessage
  <2>2. TableOf(Descriptors[message.descriptor])
    BY <2>1, TablesAssumption
  <2> QED
    BY <2>2, Zenon DEF TableOf, IsTable
<1>2. unknown \in Seq(UnknownFields)
  BY Rows
<1>3. u \in Nat /\ DOMAIN unknown = 1..u
  <2> HIDE DEF unknown
  <2> QED
    BY <1>2
<1>4. \A k \in 1..n : \A v : Good(L, v) =>
          Goes(L, v, Op(k, v), field_pack(packed, message, fields[k]))
  BY <1>1, FieldSent, Zenon
<1>5. \A k \in 1..u : \A v : Good(L, v) =>
          Goes(L, v, UOp(k, v), unknown_field_pack(unknown[k]))
  <2> SUFFICES ASSUME NEW k \in 1..u
               PROVE  unknown[k] \in UnknownFields
    BY UnknownSent, Zenon
  <2> HIDE DEF unknown
  <2> QED
    BY <1>2, <1>3
<1>6. /\ message_pack(packed, message) = FlattenSeq(s) \o FlattenSeq(us)
      /\ message_pack_to_buffer(to_buffer, message, r) = all[u]
  BY Zenon DEF message_pack, message_pack_to_buffer
<1>7. r \in V
  BY Zenon DEF GoodResults, Good
<1>8. \A k \in 1..n, v \in V : Op(k, v) \in V
  <2> SUFFICES ASSUME NEW k \in 1..n, NEW v \in V
               PROVE  Op(k, v) \in V
    BY Zenon
  <2>1. Good(L, v)
    BY DEF GoodResults
  <2>2. Good(L, Op(k, v))
    BY <1>4, <2>1, Zenon DEF Goes
  <2> QED
    BY <2>2, Zenon DEF GoodResults, Good
<1>9. \A k \in 1..u, v \in V : UOp(k, v) \in V
  <2> SUFFICES ASSUME NEW k \in 1..u, NEW v \in V
               PROVE  UOp(k, v) \in V
    BY Zenon
  <2>1. Good(L, v)
    BY DEF GoodResults
  <2>2. Good(L, UOp(k, v))
    BY <1>5, <2>1, Zenon DEF Goes
  <2> QED
    BY <2>2, Zenon DEF GoodResults, Good
<1>10. s \in Seq(Seq(Byte)) /\ Len(s) = n
       /\ \A k \in 1..n : s[k] = field_pack(packed, message, fields[k])
  <2>1. \A k \in 1..n : field_pack(packed, message, fields[k]) \in Seq(Byte)
    BY <1>4, Zenon DEF Goes
  <2>2. s = [k \in 1..n |-> field_pack(packed, message, fields[k])]
    BY <1>1, Zenon
  <2> HIDE DEF s
  <2>3. s \in [1..n -> Seq(Byte)]
    BY <2>1, <2>2, Zenon
  <2> QED
    BY <1>1, <2>2, <2>3, FunctionSeq, ZenonT(30)
<1>11. us \in Seq(Seq(Byte)) /\ Len(us) = u
       /\ \A k \in 1..u : us[k] = unknown_field_pack(unknown[k])
  <2>1. \A k \in 1..u : unknown_field_pack(unknown[k]) \in Seq(Byte)
    BY <1>5, Zenon DEF Goes
  <2>2. us = [k \in 1..u |-> unknown_field_pack(unknown[k])]
    BY <1>3, Zenon
  <2> HIDE DEF us, u
  <2>3. us \in [1..u -> Seq(Byte)]
    BY <2>1, <2>2, Zenon
  <2>4. us \in Seq(Seq(Byte)) /\ Len(us) = u
    BY <1>3, <2>3, FunctionSeq, Zenon
  <2>5. \A k \in 1..u : us[k] = unknown_field_pack(unknown[k])
    BY <2>2, Zenon
  <2> QED
    BY <2>4, <2>5
<1> HIDE DEF V, Op, UOp, fields, unknown, n, u, s, us
<1>12. \E f : f = F(f)
  <2> DEFINE g == [k \in 1..n |-> [v \in V |-> Op(k, v)]]
  <2>1. g \in [1..n -> [V -> V]] /\ \A k \in 1..n, v \in V : g[k][v] = Op(k, v)
    BY <1>1, <1>8, Zenon
  <2> HIDE DEF g
  <2>2. PICK f : Recursive(f, n, V, r, g)
    BY <1>1, <1>7, <2>1, Recursion
  <2>3. /\ f[0] = r /\ f \in [0..n -> V] /\ \A k \in 1..n : f[k] = g[k][f[k - 1]]
    BY <2>2, Zenon DEF Recursive
  <2>4. \A k \in 1..n : k - 1 \in 0..n
    BY <1>1
  <2>5. \A k \in 1..n : f[k] = Op(k, f[k - 1])
    BY <2>1, <2>3, <2>4, Zenon
  <2>6. f = F(f)
    <3>1. \A k \in 0..n : k # 0 => k \in 1..n
      BY <1>1
    <3>2. \A k \in 0..n : f[k] = IF k = 0 THEN r ELSE Op(k, f[k - 1])
      BY <2>3, <2>5, <3>1, Zenon
    <3>3. f = [k \in 0..n |-> f[k]]
      BY <2>3
    <3> QED
      BY <3>2, <3>3, Zenon
  <2> QED
    BY <2>6, Zenon
<1>13. known = F(known)
  BY <1>12, Zenon
<1> HIDE DEF known
<1>14. 0 \in 0..n /\ \A k \in 1..n : k \in 0..n /\ k # 0
  BY <1>1
<1>15. known[0] = r /\ \A k \in 1..n : known[k] = Op(k, known[k - 1])
  BY <1>13, <1>14, Zenon
<1>16. Goes(L, r, start, FlattenSeq(s))
  <2>1. \A k \in 1..Len(s) : Good(L, known[k - 1]) => Goes(L, known[k - 1], known[k], s[k])
    BY <1>4, <1>10, <1>15, Zenon DEF Op
  <2> QED
    BY <1>10, <1>15, <2>1, AllSent, Zenon
<1>17. Good(L, start) /\ start \in V
  BY <1>16, Zenon DEF Goes, GoodResults, Good, V
<1> HIDE DEF start
<1>18. \E f : f = UF(f)
  <2> DEFINE g == [k \in 1..u |-> [v \in V |-> UOp(k, v)]]
  <2>1. g \in [1..u -> [V -> V]] /\ \A k \in 1..u, v \in V : g[k][v] = UOp(k, v)
    BY <1>3, <1>9, Zenon
  <2> HIDE DEF g
  <2>2. PICK f : Recursive(f, u, V, start, g)
    BY <1>3, <1>17, <2>1, Recursion
  <2>3. /\ f[0] = start /\ f \in [0..u -> V] /\ \A k \in 1..u : f[k] = g[k][f[k - 1]]
    BY <2>2, Zenon DEF Recursive
  <2>4. \A k \in 1..u : k - 1 \in 0..u
    BY <1>3
  <2>5. \A k \in 1..u : f[k] = UOp(k, f[k - 1])
    BY <2>1, <2>3, <2>4, Zenon
  <2>6. f = UF(f)
    <3>1. \A k \in 0..u : k # 0 => k \in 1..u
      BY <1>3
    <3>2. \A k \in 0..u : f[k] = IF k = 0 THEN start ELSE UOp(k, f[k - 1])
      BY <2>3, <2>5, <3>1, Zenon
    <3>3. f = [k \in 0..u |-> f[k]]
      BY <2>3
    <3> QED
      BY <3>2, <3>3, Zenon
  <2> QED
    BY <2>6, Zenon
<1>19. all = UF(all)
  BY <1>18, Zenon
<1> HIDE DEF all
<1>20. 0 \in 0..u /\ \A k \in 1..u : k \in 0..u /\ k # 0
  BY <1>3
<1>21. all[0] = start /\ \A k \in 1..u : all[k] = UOp(k, all[k - 1])
  BY <1>19, <1>20, Zenon
<1>22. Goes(L, start, all[u], FlattenSeq(us))
  <2>1. \A k \in 1..Len(us) : Good(L, all[k - 1]) => Goes(L, all[k - 1], all[k], us[k])
    BY <1>5, <1>11, <1>21, Zenon DEF UOp
  <2> QED
    BY <1>11, <1>17, <1>21, <2>1, AllSent, Zenon
<1>23. Goes(L, r, all[u], FlattenSeq(s) \o FlattenSeq(us))
  BY <1>16, <1>22, BothSent, Zenon
<1> QED
  BY <1>6, <1>23, Zenon

SendsOf(to_buffer, message) ==
    /\ \A b, h : protobuf_c_message_pack_to_buffer(message, b, h)
                   = to_buffer[MaxNesting][message][Started(b, h)]
    /\ \A n \in 0..MaxNesting :
          to_buffer[n] = [m \in Nested(message)[MaxNesting - n] |-> [r \in Results |->
              message_pack_to_buffer(IF n = 0 THEN <<>> ELSE to_buffer[n - 1], m, r)]]

\* What sends the messages on each level is made of what sends the level below.
LEMMA SendLevels ==
    ASSUME NEW message
    PROVE  \E to_buffer : SendsOf(to_buffer, message)
<1> DEFINE D(n) == Nested(message)[MaxNesting - n]
           G(n, f) == [m \in D(n) |-> [r \in Results |-> message_pack_to_buffer(f, m, r)]]
           F(f) == [n \in 0..MaxNesting |-> G(n, IF n = 0 THEN <<>> ELSE f[n - 1])]
           to_buffer == CHOOSE f : f = F(f)
<1>1. MaxNesting \in Nat
  BY NestingAssumption
<1>2. \A b, h : protobuf_c_message_pack_to_buffer(message, b, h) = to_buffer[MaxNesting][message][Started(b, h)]
  BY DEF protobuf_c_message_pack_to_buffer
<1> HIDE DEF D
<1>3. \E f : f = F(f)
  <2> DEFINE P(k) == \E f : /\ f[0] = G(0, <<>>)
                            /\ \A n \in 1..k : f[n] = G(n, f[n - 1])
             S == {k \in Nat : P(k)}
  <2> HIDE DEF G
  <2>1. 0 \in S
    <3>1. [n \in 0..0 |-> G(0, <<>>)][0] = G(0, <<>>) /\ 0 \in Nat
      OBVIOUS
    <3>2. \A n \in 1..0 : FALSE
      OBVIOUS
    <3> QED
      BY <3>1, <3>2
  <2>2. ASSUME NEW k \in S
        PROVE  k + 1 \in S
    <3>1. PICK f : f[0] = G(0, <<>>) /\ \A n \in 1..k : f[n] = G(n, f[n - 1])
      OBVIOUS
    <3> DEFINE h == [n \in 0..(k + 1) |-> IF n = k + 1 THEN G(k + 1, f[k]) ELSE f[n]]
    <3>2. h[k + 1] = G(k + 1, f[k]) /\ \A n \in 0..k : h[n] = f[n]
      OBVIOUS
    <3>3. 0 \in 0..k /\ k \in 0..k /\ \A n \in 1..(k + 1) : n = k + 1 \/ n \in 1..k
      OBVIOUS
    <3> HIDE DEF h
    <3>4. h[0] = G(0, <<>>) /\ h[k + 1] = G(k + 1, h[k])
      BY <3>1, <3>2, <3>3, Zenon
    <3>5. ASSUME NEW n \in 1..k
          PROVE  h[n] = G(n, h[n - 1])
      <4>1. n \in 0..k /\ n - 1 \in 0..k
        OBVIOUS
      <4> QED
        BY <3>1, <3>2, <4>1, Zenon
    <3>6. (k + 1) - 1 = k /\ k + 1 \in Nat
      OBVIOUS
    <3>7. h[k + 1] = G(k + 1, h[(k + 1) - 1])
      BY <3>4, <3>6, Zenon
    <3>8. \A n \in 1..(k + 1) : h[n] = G(n, h[n - 1])
      BY <3>3, <3>5, <3>7, Zenon
    <3> QED
      BY <3>4, <3>6, <3>8, Zenon
  <2> HIDE DEF P
  <2>3. MaxNesting \in S
    <3> HIDE DEF S
    <3>1. S \in SUBSET Nat
      BY DEF S
    <3> QED
      BY <1>1, <2>1, <2>2, <3>1, Induction
  <2>4. PICK f : f[0] = G(0, <<>>) /\ \A n \in 1..MaxNesting : f[n] = G(n, f[n - 1])
    BY <2>3 DEF P
  <2> DEFINE h == [n \in 0..MaxNesting |-> f[n]]
  <2>5. ASSUME NEW n \in 0..MaxNesting
        PROVE  h[n] = G(n, IF n = 0 THEN <<>> ELSE h[n - 1])
    <3>1. CASE n = 0
      BY <2>4, <3>1, Zenon
    <3>2. CASE n # 0
      <4>1. n \in 1..MaxNesting /\ n - 1 \in 0..MaxNesting
        BY <1>1, <3>2
      <4>2. h[n] = f[n] /\ h[n - 1] = f[n - 1]
        BY <4>1, Zenon
      <4> QED
        BY <2>4, <3>2, <4>1, <4>2, Zenon
    <3> QED
      BY <3>1, <3>2
  <2>6. h = F(h)
    BY <2>5, Zenon
  <2> QED
    BY <2>6, Zenon
<1>4. to_buffer = F(to_buffer)
  BY <1>3, Zenon
<1> HIDE DEF to_buffer
<1>5. \A n \in 0..MaxNesting :
          to_buffer[n] = G(n, IF n = 0 THEN <<>> ELSE to_buffer[n - 1])
  BY <1>4, Zenon
<1> QED
  BY <1>2, <1>5, Zenon DEF SendsOf, D

\* protobuf_c_message_pack_to_buffer sends what protobuf_c_message_pack writes of any
\* message: by induction along the levels, from the lowest.
LEMMA ToBufferSent ==
    ASSUME NEW message, Packable(message), NEW b, NEW h, NEW L, Good(L, Started(b, h))
    PROVE  Goes(L, Started(b, h), protobuf_c_message_pack_to_buffer(message, b, h),
                protobuf_c_message_pack(message))
<1> DEFINE D(n) == Nested(message)[MaxNesting - n]
<1>1. MaxNesting \in Nat
  BY NestingAssumption
<1>2. PICK to_buffer : SendsOf(to_buffer, message)
  BY SendLevels, Zenon
<1>3. PICK packed : PacksOf(packed, message)
  BY PackLevels, Zenon
<1> DEFINE S == {n \in 0..MaxNesting : Sends(to_buffer[n], packed[n], D(n))}
<1>4. ASSUME NEW n \in 0..MaxNesting, NEW m \in D(n)
      PROVE  /\ \A r \in Results : to_buffer[n][m][r]
                  = message_pack_to_buffer(IF n = 0 THEN <<>> ELSE to_buffer[n - 1], m, r)
             /\ packed[n][m] = message_pack(IF n = 0 THEN <<>> ELSE packed[n - 1], m)
  <2>1. to_buffer[n] = [x \in D(n) |-> [r \in Results |->
            message_pack_to_buffer(IF n = 0 THEN <<>> ELSE to_buffer[n - 1], x, r)]]
    BY <1>2, Zenon DEF SendsOf
  <2>2. packed[n] = [x \in D(n) |-> message_pack(IF n = 0 THEN <<>> ELSE packed[n - 1], x)]
    BY <1>3, Zenon DEF PacksOf
  <2>3. to_buffer[n][m] = [r \in Results |->
            message_pack_to_buffer(IF n = 0 THEN <<>> ELSE to_buffer[n - 1], m, r)]
    BY <2>1, Zenon
  <2> QED
    BY <2>2, <2>3, Zenon
<1>5. 0 \in S
  <2>1. 0 \in 0..MaxNesting
    BY <1>1
  <2>2. ASSUME NEW m \in D(0), NEW M, NEW r, Good(M, r)
        PROVE  Goes(M, r, to_buffer[0][m][r], packed[0][m])
    <3>1. IsMessage(m) /\ Submessages(m) = {}
      BY <2>1, Level, Zenon
    <3>2. Sends(<<>>, <<>>, Submessages(m))
      BY <3>1, Zenon DEF Sends
    <3>3. Goes(M, r, message_pack_to_buffer(<<>>, m, r), message_pack(<<>>, m))
      BY <2>2, <3>1, <3>2, MessageSent, Zenon
    <3>4. r \in Results
      BY <2>2, Zenon DEF Good
    <3> QED
      BY <1>4, <2>1, <3>3, <3>4, Zenon
  <2> QED
    BY <2>1, <2>2, Zenon DEF Sends
<1>6. ASSUME NEW n \in 1..MaxNesting, n - 1 \in S
      PROVE  n \in S
  <2>1. n \in 0..MaxNesting /\ n # 0
    BY <1>1
  <2>2. Sends(to_buffer[n - 1], packed[n - 1], D(n - 1))
    BY <1>6
  <2>3. ASSUME NEW m \in D(n), NEW M, NEW r, Good(M, r)
        PROVE  Goes(M, r, to_buffer[n][m][r], packed[n][m])
    <3>1. IsMessage(m) /\ Submessages(m) \in SUBSET D(n - 1)
      BY <2>1, Level, Zenon
    <3>2. Sends(to_buffer[n - 1], packed[n - 1], Submessages(m))
      BY <2>2, <3>1, Zenon DEF Sends
    <3>3. Goes(M, r, message_pack_to_buffer(to_buffer[n - 1], m, r),
               message_pack(packed[n - 1], m))
      BY <2>3, <3>1, <3>2, MessageSent, Zenon
    <3>4. r \in Results
      BY <2>3, Zenon DEF Good
    <3> QED
      BY <1>4, <2>1, <3>3, <3>4, Zenon
  <2> QED
    BY <2>1, <2>3, Zenon DEF Sends
<1>7. MaxNesting \in S
  <2> HIDE DEF S
  <2>1. \A n \in 0..MaxNesting : n \in S
    BY <1>1, <1>5, <1>6, Along
  <2> QED
    BY <1>1, <2>1
<1>8. message \in D(MaxNesting)
  <2>1. MaxNesting - MaxNesting = 0
    BY <1>1
  <2>2. Nested(message)[0] = {message}
    BY NestedLevels, Zenon
  <2> QED
    BY <2>1, <2>2, Zenon
<1>9. Goes(L, Started(b, h), to_buffer[MaxNesting][message][Started(b, h)],
           packed[MaxNesting][message])
  BY <1>7, <1>8, Zenon DEF Sends
<1> QED
  BY <1>2, <1>3, <1>9, Zenon DEF SendsOf, PacksOf

\* A heap that is new, or whose blocks are free, and a buffer that is new.
LEMMA FreshOutput ==
    ASSUME NEW h \in Heaps, h.live = {}
    PROVE  Good({}, [rv |-> 0, b |-> BufferSimple(BufferSize), h |-> h])
<1> DEFINE r == [rv |-> 0, b |-> BufferSimple(BufferSize), h |-> h]
<1>1. BufferSize \in Nat \ {0}
  BY BoundsAssumption
<1>2. r.rv = 0 /\ r.h = h /\ r.b = [data |-> <<>>, alloced |-> BufferSize, blk |-> 0]
  BY DEF BufferSimple
<1>3. r.b \in Buffers /\ r.b.data = <<>> /\ r.b.alloced = BufferSize /\ r.b.blk = 0
  <2> DEFINE b == [data |-> <<>>, alloced |-> BufferSize, blk |-> 0]
  <2>1. b \in Buffers /\ b.data = <<>> /\ b.alloced = BufferSize /\ b.blk = 0
    <3>1. <<>> \in Seq(Byte) /\ BufferSize \in Nat /\ 0 \in Nat
      BY <1>1
    <3> QED
      BY <3>1, Zenon DEF Buffers
  <2>2. r.b = b
    BY <1>2, Zenon
  <2> QED
    BY <2>1, <2>2, Zenon
<1>4. r \in Results
  BY <1>2, <1>3 DEF Results
<1>5. h.n \in Nat
  BY DEF Heaps
<1> HIDE DEF r
<1>6. Good({}, r)
  <2>1. Len(<<>>) <= BufferSize /\ 0 <= h.n /\ BufferSize # 0
    BY <1>1, <1>5
  <2>2. {} \in SUBSET Nat /\ (\A x \in {} : x # 0 /\ x <= r.h.n) /\ r.b.blk \notin {}
    OBVIOUS
  <2>3. r.h.live = {} \cup (IF r.b.blk = 0 THEN {} ELSE {r.b.blk})
    BY <1>2, <1>3
  <2> QED
    BY <1>2, <1>3, <1>4, <2>1, <2>2, <2>3, Zenon DEF Good
<1> QED
  BY <1>6 DEF r

\* The output is well-formed, and one sample's bytes once it was packed.
BufferInv ==
    /\ stage \in {"sending", "received", "unpacked", "buffered"}
    /\ Good({}, out)
    /\ stage = "buffered" => \E m \in Samples :
          /\ sent = <<m>>
          /\ protobuf_c_message_pack(m) \in Seq(Byte)
          /\ out.rv = Len(protobuf_c_message_pack(m))
          /\ ~Failed(out.h) => out.b.data = protobuf_c_message_pack(m) /\ out.h.faults = {}

\* The invariant holds at first.
LEMMA BufferStarts == Init => BufferInv
<1> SUFFICES ASSUME Init
             PROVE  BufferInv
  OBVIOUS
<1>1. stage = "sending" /\ out = NoOutput
  BY DEF Init
<1>2. Heap(0) \in Heaps /\ Heap(0).live = {}
  BY DEF Heap, Heaps
<1>3. Good({}, NoOutput)
  BY <1>2, FreshOutput, Zenon DEF NoOutput
<1> QED
  BY <1>1, <1>3 DEF BufferInv

\* Every step keeps the buffer: packing to it sends the message, and clearing it
\* frees the one block there is.
LEMMA BufferSteps == BufferInv /\ [Next]_vars => BufferInv'
<1> SUFFICES ASSUME BufferInv, [Next]_vars
             PROVE  BufferInv'
  OBVIOUS
<1>1. stage \in {"sending", "received", "unpacked", "buffered"} /\ Good({}, out)
  BY DEF BufferInv
<1>2. ASSUME stage' \in {"sending", "received", "unpacked"}, out' = out
      PROVE  BufferInv'
  BY <1>1, <1>2 DEF BufferInv
<1>3. ASSUME NEW m \in Samples, PackMessage(m)
      PROVE  BufferInv'
  BY <1>2, <1>3 DEF PackMessage
<1>4. ASSUME NEW m \in Samples, NEW fail \in 0..MaxFail, PackToBuffer(m, fail)
      PROVE  BufferInv'
  <2> DEFINE b == BufferSimple(BufferSize)
             r == Started(b, Heap(fail))
             bytes == protobuf_c_message_pack(m)
  <2>1. /\ stage' = "buffered" /\ sent' = <<m>>
        /\ out' = protobuf_c_message_pack_to_buffer(m, b, Heap(fail))
    BY <1>4, Zenon DEF PackToBuffer
  <2>2. Heap(fail) \in Heaps /\ Heap(fail).live = {} /\ Heap(fail).faults = {}
    BY BoundsAssumption DEF Heap, Heaps
  <2>3. Good({}, r)
    BY <2>2, FreshOutput, Zenon DEF Started
  <2>4. Goes({}, r, out', bytes)
    BY <2>1, <2>3, SamplePackable, ToBufferSent, Zenon
  <2>5. r.rv = 0 /\ r.b.data = <<>> /\ r.h.faults = {}
    BY <2>2 DEF Started, BufferSimple
  <2>6. Good({}, out') /\ bytes \in Seq(Byte) /\ out'.rv = r.rv + Len(bytes)
        /\ (~Failed(out'.h) => out'.b.data = r.b.data \o bytes /\ out'.h.faults = r.h.faults)
    BY <2>4, Zenon DEF Goes
  <2> HIDE DEF bytes, r
  <2>7. 0 + Len(bytes) = Len(bytes) /\ <<>> \o bytes = bytes
    BY <2>6
  <2>8. /\ out'.rv = Len(bytes)
        /\ ~Failed(out'.h) => out'.b.data = bytes /\ out'.h.faults = {}
    BY <2>5, <2>6, <2>7, Zenon
  <2>9. (~Failed(out.h))' = (~Failed(out'.h))
    BY DEF Failed
  <2> QED
    BY <2>1, <2>6, <2>8 DEF BufferInv, bytes, Failed
<1>5. ASSUME ClearBuffer
      PROVE  BufferInv'
  <2> DEFINE h == do_free(out.h, out.b.blk)
             g == [h EXCEPT !.n = 0, !.fail = 0]
  <2>1. stage' = "sending" /\ out' = [NoOutput EXCEPT !.h = g]
    BY <1>5, Zenon DEF ClearBuffer
  <2>2. out.h \in Heaps /\ out.b.blk \in Nat
    BY <1>1, GoodParts
  <2>3. out.h.live = IF out.b.blk = 0 THEN {} ELSE {out.b.blk}
    BY <1>1 DEF Good
  <2>4. h \in Heaps /\ h.live = {}
    BY <2>2, <2>3 DEF do_free, Heaps
  <2> HIDE DEF h
  <2>5. g \in Heaps /\ g.live = {}
    BY <2>4 DEF Heaps
  <2> HIDE DEF g
  <2>6. out' = [rv |-> 0, b |-> BufferSimple(BufferSize), h |-> g]
    BY <2>1 DEF NoOutput
  <2>7. Good({}, out')
    BY <2>5, <2>6, FreshOutput, Zenon
  <2> QED
    BY <2>1, <2>7 DEF BufferInv
<1>6. ASSUME NEW k, Receive(k)
      PROVE  BufferInv'
  BY <1>2, <1>6 DEF Receive
<1>7. ASSUME NEW type, NEW fail, Unpack(type, fail)
      PROVE  BufferInv'
  BY <1>2, <1>7 DEF Unpack
<1>8. ASSUME FreeUnpacked
      PROVE  BufferInv'
  BY <1>2, <1>8 DEF FreeUnpacked
<1>9. CASE UNCHANGED vars
  BY <1>9 DEF vars, BufferInv, Failed
<1> QED
  BY <1>3, <1>4, <1>5, <1>6, <1>7, <1>8, <1>9, Zenon DEF Next

\* protobuf_c_message_pack_to_buffer leaves no block but the buffer's, whichever
\* allocation fails: what a buffer grew out of is freed, and so is what a
\* submessage's buffer grew to.
THEOREM BuffersAreOwned == Spec => []BufferOwned
<1>1. BufferInv => BufferOwned
  BY DEF BufferInv, BufferOwned, Good
<1> QED
  BY <1>1, BufferStarts, BufferSteps, PTL DEF Spec

\* Without a failed allocation protobuf_c_message_pack_to_buffer appends the very
\* bytes protobuf_c_message_pack writes, says how many, and reads, writes and
\* frees only what it may: of every message, and of buffers of any first size.
THEOREM BuffersAreTheSame == Spec => []BufferSame
<1>1. BufferInv => BufferSame
  <2> SUFFICES ASSUME BufferInv, stage = "buffered", ~Failed(out.h)
               PROVE  /\ out.b.data = protobuf_c_message_pack(sent[1])
                      /\ out.rv = Len(out.b.data)
                      /\ Len(out.b.data) <= out.b.alloced
                      /\ out.h.faults = {}
    BY Zenon DEF BufferSame
  <2>1. PICK m \in Samples :
          /\ sent = <<m>>
          /\ out.rv = Len(protobuf_c_message_pack(m))
          /\ out.b.data = protobuf_c_message_pack(m) /\ out.h.faults = {}
    BY Zenon DEF BufferInv
  <2>2. sent[1] = m
    BY <2>1
  <2>3. Len(out.b.data) <= out.b.alloced
    BY Zenon DEF BufferInv, Good
  <2> QED
    BY <2>1, <2>2, <2>3, Zenon
<1> QED
  BY <1>1, BufferStarts, BufferSteps, PTL DEF Spec

-----------------------------------------------------------------------------
(* Binary search: g narrows what is left of N entries, of which those in H  *)
(* are hits, with at[i] to return.                                          *)

Narrowed(N) == {s \in [start : Nat, n : Nat, rv : Int] : s.start + s.n <= N}

Narrows(g, N, H, at) ==
    /\ g \in [Narrowed(N) -> Narrowed(N)] /\ H \in SUBSET (1..N) /\ at \in [H -> Nat]
    /\ \A s \in Narrowed(N) :
          LET mid == s.start + s.n \div 2
          IN  \/ Ended(s) /\ g[s] = s
              \/ ~Ended(s) /\ g[s] = Before(s, mid) /\ \A i \in H : i <= mid
              \/ ~Ended(s) /\ g[s] = After(s, mid) /\ \A i \in H : i > mid + 1
              \/ ~Ended(s) /\ mid + 1 \in H /\ g[s] = [s EXCEPT !.rv = at[mid + 1]]

Found(rv, H, at) == (rv = -1 /\ H = {}) \/ \E i \in H : rv = at[i]

\* After k rounds what is not yet found is among what is left.
Left(s, k, N, H, at) ==
    /\ s \in Narrowed(N)
    /\ s.rv = -1 => s.n <= N - k /\ \A i \in H : s.start < i /\ i <= s.start + s.n
    /\ s.rv # -1 => \E i \in H : s.rv = at[i]

\* The entry in the middle is one of those left, and so is what is left on either
\* side of it.
LEMMA StaysNarrowed ==
    ASSUME NEW N \in Nat, NEW s \in Narrowed(N), ~Ended(s)
    PROVE  LET mid == s.start + s.n \div 2
           IN  /\ mid \in Nat /\ mid + 1 \in 1..N
               /\ Before(s, mid) \in Narrowed(N) /\ After(s, mid) \in Narrowed(N)
               /\ \A v \in Int : [s EXCEPT !.rv = v] \in Narrowed(N)
<1> DEFINE half == s.n \div 2
           mid == s.start + half
<1>1. /\ s.start \in Nat /\ s.n \in Nat /\ s.rv \in Int /\ s.start + s.n <= N
      /\ s = [start |-> s.start, n |-> s.n, rv |-> s.rv]
  BY DEF Narrowed
<1>2. half \in Nat /\ half < s.n
  BY <1>1 DEF Ended
<1> HIDE DEF half
<1>3. mid \in Nat /\ mid + 1 \in 1..N
  BY <1>1, <1>2
<1>4. Before(s, mid) = [start |-> s.start, n |-> half, rv |-> s.rv]
  BY <1>1, <1>2 DEF Before
<1>5. /\ After(s, mid) \in [start : Int, n : Int, rv : Int]
      /\ After(s, mid).start = mid + 1 /\ After(s, mid).n = s.start + s.n - (mid + 1)
      /\ After(s, mid).rv = s.rv
  <2> HIDE DEF mid
  <2>1. s \in [start : Int, n : Int, rv : Int]
    BY <1>1
  <2>2. /\ After(s, mid).start = mid + 1 /\ After(s, mid).n = s.start + s.n - (mid + 1)
        /\ After(s, mid).rv = s.rv
    BY <1>1, <1>3 DEF After
  <2>3. mid + 1 \in Int /\ s.start + s.n - (mid + 1) \in Int
    BY <1>1, <1>3
  <2>4. After(s, mid) \in [start : Int, n : Int, rv : Int]
    BY <2>1, <2>3, Zenon DEF After
  <2> QED
    BY <2>2, <2>4, Zenon
<1>6. \A v \in Int : [s EXCEPT !.rv = v] = [start |-> s.start, n |-> s.n, rv |-> v]
  BY <1>1
<1>7. /\ s.start + half <= N
      /\ s.start + s.n - (mid + 1) \in Nat
      /\ mid + 1 + (s.start + s.n - (mid + 1)) <= N
  BY <1>1, <1>2, <1>3
<1>8. Before(s, mid) \in Narrowed(N)
  BY <1>1, <1>2, <1>4, <1>7 DEF Narrowed
<1>9. After(s, mid) \in Narrowed(N)
  BY <1>1, <1>3, <1>5, <1>7 DEF Narrowed
<1>10. \A v \in Int : [s EXCEPT !.rv = v] \in Narrowed(N)
  BY <1>1, <1>6 DEF Narrowed
<1> QED
  BY <1>3, <1>8, <1>9, <1>10 DEF half

\* A round halves what is left, and loses no hit.
LEMMA OneRound ==
    ASSUME NEW N \in Nat, NEW H, NEW at, NEW g, Narrows(g, N, H, at),
           NEW k \in 1..N, NEW s, Left(s, k - 1, N, H, at)
    PROVE  Left(g[s], k, N, H, at)
<1> DEFINE mid == s.start + s.n \div 2
           half == s.n \div 2
<1>1. /\ s \in Narrowed(N) /\ s.start \in Nat /\ s.n \in Nat /\ s.rv \in Int
      /\ s.start + s.n <= N
      /\ s = [start |-> s.start, n |-> s.n, rv |-> s.rv]
  BY DEF Left, Narrowed
<1>2. /\ s.rv = -1 => s.n <= N - (k - 1) /\ \A i \in H : s.start < i /\ i <= s.start + s.n
      /\ s.rv # -1 => \E i \in H : s.rv = at[i]
  BY DEF Left
<1>3. H \in SUBSET (1..N) /\ at \in [H -> Nat] /\ g[s] \in Narrowed(N)
  BY <1>1 DEF Narrows
<1>4. half \in Nat /\ (s.n # 0 => half < s.n) /\ mid = s.start + half
  BY <1>1
<1>5. \/ Ended(s) /\ g[s] = s
      \/ ~Ended(s) /\ g[s] = Before(s, mid) /\ \A i \in H : i <= mid
      \/ ~Ended(s) /\ g[s] = After(s, mid) /\ \A i \in H : i > mid + 1
      \/ ~Ended(s) /\ mid + 1 \in H /\ g[s] = [s EXCEPT !.rv = at[mid + 1]]
  BY <1>1, Zenon DEF Narrows
<1> HIDE DEF mid, half
<1>6. CASE Ended(s) /\ g[s] = s
  BY <1>1, <1>2, <1>6 DEF Left, Ended
<1>7. CASE ~Ended(s) /\ g[s] = Before(s, mid) /\ \A i \in H : i <= mid
  <2>1. s.n # 0 /\ s.rv = -1
    BY <1>7 DEF Ended
  <2>2. g[s].start = s.start /\ g[s].n = half /\ g[s].rv = -1
    BY <1>1, <1>4, <1>7, <2>1 DEF Before
  <2>3. half <= N - k
    BY <1>1, <1>2, <1>4, <2>1
  <2>4. \A i \in H : s.start < i /\ i <= s.start + half
    BY <1>2, <1>4, <1>7, <2>1
  <2> QED
    BY <1>3, <2>2, <2>3, <2>4 DEF Left
<1>8. CASE ~Ended(s) /\ g[s] = After(s, mid) /\ \A i \in H : i > mid + 1
  <2>1. s.n # 0 /\ s.rv = -1
    BY <1>8 DEF Ended
  <2>2. /\ g[s].start = mid + 1 /\ g[s].n = s.start + s.n - (mid + 1) /\ g[s].rv = -1
    BY <1>1, <1>8, <2>1 DEF After
  <2>3. /\ g[s].n <= N - k
        /\ mid + 1 + g[s].n = s.start + s.n
    BY <1>1, <1>2, <1>4, <2>1, <2>2
  <2>4. \A i \in H : mid + 1 < i /\ i <= mid + 1 + g[s].n
    BY <1>2, <1>3, <1>4, <1>8, <2>1, <2>3
  <2> QED
    BY <1>3, <2>2, <2>3, <2>4 DEF Left
<1>9. CASE ~Ended(s) /\ mid + 1 \in H /\ g[s] = [s EXCEPT !.rv = at[mid + 1]]
  <2>1. g[s].rv = at[mid + 1] /\ at[mid + 1] \in Nat
    BY <1>1, <1>3, <1>9
  <2>2. g[s].rv # -1
    BY <2>1
  <2> QED
    BY <1>3, <1>9, <2>1, <2>2, Zenon DEF Left
<1> QED
  BY <1>5, <1>6, <1>7, <1>8, <1>9, Zenon

\* A search that has gone as many rounds as there are entries has ended.
LEMMA SearchEnds ==
    ASSUME NEW N \in Nat, NEW H, NEW at, NEW g, Narrows(g, N, H, at),
           NEW f, f[0] = Search(N), \A k \in 1..N : f[k] = g[f[k - 1]]
    PROVE  Found(f[N].rv, H, at)
<1> DEFINE S == {k \in 0..N : Left(f[k], k, N, H, at)}
<1>1. 0 \in S
  <2>1. Search(N) = [start |-> 0, n |-> N, rv |-> -1]
    BY DEF Search
  <2>2. H \in SUBSET (1..N)
    BY DEF Narrows
  <2>3. Left(Search(N), 0, N, H, at)
    BY <2>1, <2>2 DEF Left, Narrowed
  <2> QED
    BY <2>3
<1>2. ASSUME NEW k \in 1..N, k - 1 \in S
      PROVE  k \in S
  <2>1. Left(f[k - 1], k - 1, N, H, at)
    BY <1>2
  <2>2. Left(g[f[k - 1]], k, N, H, at)
    BY <2>1, OneRound
  <2> QED
    BY <2>2
<1>3. Left(f[N], N, N, H, at)
  <2> HIDE DEF S
  <2>1. \A k \in 0..N : k \in S
    BY <1>1, <1>2, Along
  <2> QED
    BY <2>1 DEF S
<1>4. H \in SUBSET (1..N) /\ f[N].n \in Nat /\ f[N].start \in Nat
  BY <1>3 DEF Narrows, Left, Narrowed
<1>5. CASE f[N].rv = -1
  <2>1. f[N].n = 0 /\ \A i \in H : f[N].start < i /\ i <= f[N].start + f[N].n
    BY <1>3, <1>4, <1>5 DEF Left
  <2>2. H = {}
    BY <1>4, <2>1
  <2> QED
    BY <1>5, <2>2 DEF Found
<1>6. CASE f[N].rv # -1
  BY <1>3, <1>6, Zenon DEF Left, Found
<1> QED
  BY <1>5, <1>6

\* The rounds of a search.
LEMMA SearchRounds ==
    ASSUME NEW N \in Nat, NEW H, NEW at, NEW g, Narrows(g, N, H, at)
    PROVE  \E f \in [0..N -> Narrowed(N)] :
              f[0] = Search(N) /\ \A k \in 1..N : f[k] = g[f[k - 1]]
<1> DEFINE V == Narrowed(N)
           a == Search(N)
           h == [k \in 1..N |-> g]
<1>1. a \in V
  BY DEF Search, Narrowed
<1>2. g \in [V -> V]
  BY Zenon DEF Narrows
<1>3. h \in [1..N -> [V -> V]] /\ \A k \in 1..N : h[k] = g
  BY <1>2, Zenon
<1> HIDE DEF V, a, h
<1>4. PICK f : Recursive(f, N, V, a, h)
  BY <1>1, <1>3, Recursion
<1> QED
  BY <1>3, <1>4, Zenon DEF Recursive, V, a

-----------------------------------------------------------------------------
(* Lookup by number. *)

\* What Ranges says, of the first numbers and the indices of n ranges.
RangesOf(n, first, index, numbers) ==
    /\ n \in Nat /\ first \in [1..n -> Int] /\ index \in [1..(n + 1) -> Nat]
    /\ index[1] = 0 /\ DOMAIN numbers = 1..index[n + 1]
    /\ \A i \in 1..n :
          /\ index[i] < index[i + 1]
          /\ \A k \in (index[i] + 1)..index[i + 1] :
                numbers[k] = first[i] + (k - 1 - index[i])
          /\ i < n => first[i] + (index[i + 1] - index[i]) <= first[i + 1]

\* The ranges that hold a value.
Holding(n, first, index, value) ==
    {i \in 1..n : first[i] <= value /\ value < first[i] + (index[i + 1] - index[i])}

\* Indices and first numbers grow along the ranges.
LEMMA RangesGrow ==
    ASSUME NEW n, NEW first, NEW index, NEW numbers, RangesOf(n, first, index, numbers),
           NEW i \in 1..n, NEW j \in 1..n, i < j
    PROVE  /\ index[i + 1] <= index[j]
           /\ first[i] + (index[i + 1] - index[i]) <= first[j]
<1> DEFINE N == n - i
           P(d) == 0 < d => /\ index[i + 1] <= index[i + d]
                            /\ first[i] + (index[i + 1] - index[i]) <= first[i + d]
           S == {d \in Nat : P(d)}
<1>1. n \in Nat /\ N \in Nat
  BY DEF RangesOf
<1>2. 0 \in S
  OBVIOUS
<1>3. ASSUME NEW d \in 1..N, d - 1 \in S
      PROVE  d \in S
  <2> DEFINE b == i + (d - 1)
  <2>1. b \in 1..n /\ b + 1 = i + d /\ b + 1 \in 1..n /\ b < n
    BY <1>1
  <2>2. /\ first \in [1..n -> Int] /\ index \in [1..(n + 1) -> Nat]
        /\ index[b] < index[b + 1] /\ first[b] + (index[b + 1] - index[b]) <= first[b + 1]
    BY <2>1, Zenon DEF RangesOf
  <2>3. /\ i \in 1..(n + 1) /\ i + 1 \in 1..(n + 1) /\ b \in 1..(n + 1)
        /\ b + 1 \in 1..(n + 1)
    BY <1>1, <2>1
  <2>4. /\ first[i] \in Int /\ first[b] \in Int /\ first[b + 1] \in Int
        /\ index[i] \in Nat /\ index[i + 1] \in Nat /\ index[b] \in Nat
        /\ index[b + 1] \in Nat
    BY <2>1, <2>2, <2>3
  <2>5. 0 < d - 1 => /\ index[i + 1] <= index[b]
                     /\ first[i] + (index[i + 1] - index[i]) <= first[b]
    BY <1>3
  <2>6. d - 1 = 0 => b = i
    OBVIOUS
  <2> HIDE DEF b
  <2>7. /\ index[i + 1] <= index[b + 1]
        /\ first[i] + (index[i + 1] - index[i]) <= first[b + 1]
    <3>1. CASE d - 1 = 0
      BY <2>2, <2>4, <2>6, <3>1
    <3>2. CASE 0 < d - 1
      <4>1. \A x, y, z \in Int : x <= y /\ y < z => x <= z
        OBVIOUS
      <4>2. \A x, y, z, u, v \in Int : x <= y /\ y + (v - u) <= z /\ u < v => x <= z
        OBVIOUS
      <4>3. first[i] + (index[i + 1] - index[i]) \in Int
        BY <2>4
      <4>4. /\ index[i + 1] \in Int /\ index[b] \in Int /\ index[b + 1] \in Int
        BY <2>4
      <4> QED
        BY <2>2, <2>4, <2>5, <3>2, <4>1, <4>2, <4>3, <4>4, Zenon
    <3> QED
      BY <1>1, <3>1, <3>2
  <2> QED
    BY <2>1, <2>7
<1>4. j - i \in 0..N /\ j - i > 0 /\ i + (j - i) = j
  BY <1>1
<1> HIDE DEF S, N
<1>5. \A d \in 0..N : d \in S
  BY <1>1, <1>2, <1>3, Along
<1>6. P(j - i)
  BY <1>4, <1>5 DEF S
<1> QED
  BY <1>4, <1>6

\* Every row is in a range.
LEMMA RowInRange ==
    ASSUME NEW n, NEW first, NEW index, NEW numbers, RangesOf(n, first, index, numbers),
           NEW k \in DOMAIN numbers
    PROVE  \E i \in 1..n : index[i] < k /\ k <= index[i + 1]
<1> DEFINE P(j) == k <= index[j + 1] => \E i \in 1..n : index[i] < k /\ k <= index[i + 1]
           S == {j \in Nat : P(j)}
<1>1. /\ n \in Nat /\ index \in [1..(n + 1) -> Nat]
      /\ index[1] = 0 /\ DOMAIN numbers = 1..index[n + 1]
  BY Zenon DEF RangesOf
<1>2. index[n + 1] \in Nat /\ k \in Nat \ {0} /\ k <= index[n + 1]
  BY <1>1
<1>3. 0 \in S
  BY <1>1, <1>2
<1>4. ASSUME NEW j \in 1..n, j - 1 \in S
      PROVE  j \in S
  <2>1. /\ index[j] \in Nat /\ index[j + 1] \in Nat /\ (j - 1) + 1 = j
    BY <1>1
  <2>2. k <= index[j] => \E i \in 1..n : index[i] < k /\ k <= index[i + 1]
    BY <1>4, <2>1
  <2>3. index[j] < k /\ k <= index[j + 1] => \E i \in 1..n : index[i] < k /\ k <= index[i + 1]
    OBVIOUS
  <2>4. P(j)
    BY <1>2, <2>1, <2>2, <2>3
  <2> QED
    BY <2>4
<1> HIDE DEF P, S
<1>5. \A j \in 0..n : j \in S
  BY <1>1, <1>3, <1>4, Along
<1>6. n \in S
  BY <1>1, <1>5
<1>7. P(n)
  BY <1>6 DEF S
<1> QED
  BY <1>2, <1>7 DEF P

\* The row of a value in a range, which is the only one with that number.
LEMMA RowOfValue ==
    ASSUME NEW n, NEW first, NEW index, NEW numbers, RangesOf(n, first, index, numbers),
           NEW value \in Int, NEW i \in Holding(n, first, index, value)
    PROVE  /\ value - first[i] + index[i] \in Nat
           /\ value - first[i] + index[i] + 1 \in DOMAIN numbers
           /\ numbers[value - first[i] + index[i] + 1] = value
<1> DEFINE k == value - first[i] + index[i] + 1
<1>1. /\ n \in Nat /\ first \in [1..n -> Int] /\ index \in [1..(n + 1) -> Nat]
      /\ DOMAIN numbers = 1..index[n + 1]
  BY Zenon DEF RangesOf
<1>2. /\ i \in 1..n /\ first[i] <= value
      /\ value < first[i] + (index[i + 1] - index[i])
  BY DEF Holding
<1>3. /\ first[i] \in Int /\ index[i] \in Nat /\ index[i + 1] \in Nat
      /\ index[n] \in Nat /\ index[n + 1] \in Nat
  BY <1>1, <1>2
<1>4. k \in (index[i] + 1)..index[i + 1] /\ first[i] + (k - 1 - index[i]) = value
      /\ k - 1 = value - first[i] + index[i] /\ k - 1 \in Nat
  BY <1>2, <1>3
<1>5. numbers[k] = first[i] + (k - 1 - index[i])
  BY <1>2, <1>4, Zenon DEF RangesOf
<1>6. index[i + 1] <= index[n + 1]
  <2>1. CASE i = n
    BY <1>3, <2>1
  <2>2. CASE i # n
    <3>1. i < n /\ n \in 1..n
      BY <1>1, <1>2, <2>2
    <3>2. index[i + 1] <= index[n]
      BY <1>2, <3>1, RangesGrow
    <3>3. index[n] < index[n + 1]
      BY <3>1, Zenon DEF RangesOf
    <3> QED
      BY <1>3, <3>2, <3>3
  <2> QED
    BY <2>1, <2>2
<1> HIDE DEF k
<1>7. k \in 1..index[n + 1]
  BY <1>3, <1>4, <1>6
<1>8. k \in DOMAIN numbers /\ numbers[k] = value
  BY <1>1, <1>4, <1>5, <1>7
<1> QED
  BY <1>4, <1>8 DEF k

\* A range holds the value, and the row is where it says.
HeldAt(n, first, index, value, k) ==
    \E i \in Holding(n, first, index, value) : k = value - first[i] + index[i] + 1

\* The number of a row is held by the range the row is in.
LEMMA ValueOfRow ==
    ASSUME NEW n, NEW first, NEW index, NEW numbers, RangesOf(n, first, index, numbers),
           NEW k \in DOMAIN numbers
    PROVE  numbers[k] \in Int /\ HeldAt(n, first, index, numbers[k], k)
<1>1. PICK i \in 1..n : index[i] < k /\ k <= index[i + 1]
  BY RowInRange
<1>2. /\ n \in Nat /\ first \in [1..n -> Int] /\ index \in [1..(n + 1) -> Nat]
      /\ DOMAIN numbers = 1..index[n + 1]
  BY Zenon DEF RangesOf
<1>3. /\ first[i] \in Int /\ index[i] \in Nat /\ index[i + 1] \in Nat /\ k \in Nat
  BY <1>1, <1>2
<1>4. k \in (index[i] + 1)..index[i + 1]
  BY <1>1, <1>3
<1>5. numbers[k] = first[i] + (k - 1 - index[i])
  BY <1>1, <1>4, Zenon DEF RangesOf
<1> DEFINE v == numbers[k]
<1>6. v \in Int /\ first[i] <= v /\ v < first[i] + (index[i + 1] - index[i])
      /\ k = v - first[i] + index[i] + 1
  BY <1>1, <1>3, <1>5
<1>7. i \in Holding(n, first, index, v)
  BY <1>1, <1>6, Zenon DEF Holding
<1> QED
  BY <1>6, <1>7, Zenon DEF HeldAt

\* No two ranges hold one value.
LEMMA OneRange ==
    ASSUME NEW n, NEW first, NEW index, NEW numbers, RangesOf(n, first, index, numbers),
           NEW value \in Int, NEW i \in Holding(n, first, index, value),
           NEW j \in Holding(n, first, index, value)
    PROVE  i = j
<1>1. /\ n \in Nat /\ first \in [1..n -> Int] /\ index \in [1..(n + 1) -> Nat]
  BY Zenon DEF RangesOf
<1>2. /\ i \in 1..n /\ first[i] <= value /\ value < first[i] + (index[i + 1] - index[i])
      /\ j \in 1..n /\ first[j] <= value /\ value < first[j] + (index[j + 1] - index[j])
  BY DEF Holding
<1>3. /\ first[i] \in Int /\ index[i] \in Nat /\ index[i + 1] \in Nat
      /\ first[j] \in Int /\ index[j] \in Nat /\ index[j + 1] \in Nat
  BY <1>1, <1>2
<1>4. ~(i < j)
  <2>1. i < j => first[i] + (index[i + 1] - index[i]) <= first[j]
    BY <1>2, RangesGrow
  <2> QED
    BY <1>2, <1>3, <2>1
<1>5. ~(j < i)
  <2>1. j < i => first[j] + (index[j + 1] - index[j]) <= first[i]
    BY <1>2, RangesGrow
  <2> QED
    BY <1>2, <1>3, <2>1
<1> QED
  BY <1>1, <1>2, <1>4, <1>5

\* Ranges as functions of the number of a range.
LEMMA RangesParts ==
    ASSUME NEW ranges, NEW numbers, Ranges(ranges, numbers),
           NEW M \in Nat, DOMAIN numbers = 1..M, Len(numbers) = M
    PROVE  LET n == Len(ranges) - 1
           IN  /\ \A i \in 1..(n + 1) : ranges[i].start_value \in Int
               /\ RangesOf(n, [i \in 1..n |-> ranges[i].start_value],
                           [i \in 1..(n + 1) |-> ranges[i].orig_index], numbers)
<1> DEFINE n == Len(ranges) - 1
           R == [start_value : Int, orig_index : Nat]
           first == [i \in 1..n |-> ranges[i].start_value]
           index == [i \in 1..(n + 1) |-> ranges[i].orig_index]
<1>1. ranges \in Seq(R) /\ ranges # <<>>
  BY DEF Ranges
<1>2. n \in Nat /\ Len(ranges) = n + 1 /\ \A i \in 1..(n + 1) : ranges[i] \in R
  <2> HIDE DEF R
  <2> QED
    BY <1>1
<1>3. \A i \in 1..(n + 1) : ranges[i].start_value \in Int /\ ranges[i].orig_index \in Nat
  BY <1>2
<1>4. /\ ranges[1].orig_index = 0 /\ ranges[n + 1].orig_index = Len(numbers)
      /\ \A i \in 1..n :
            /\ ranges[i].orig_index < ranges[i + 1].orig_index
            /\ \A k \in (ranges[i].orig_index + 1)..ranges[i + 1].orig_index :
                  numbers[k] = ranges[i].start_value + (k - 1 - ranges[i].orig_index)
            /\ i < n => ranges[i].start_value
                          + (ranges[i + 1].orig_index - ranges[i].orig_index)
                          <= ranges[i + 1].start_value
  BY Zenon DEF Ranges
<1> HIDE DEF n
<1>5. /\ 1 \in 1..(n + 1) /\ n + 1 \in 1..(n + 1)
      /\ \A i \in 1..n : i \in 1..(n + 1) /\ i + 1 \in 1..(n + 1) /\ (i < n => i + 1 \in 1..n)
  BY <1>2
<1>6. first \in [1..n -> Int] /\ index \in [1..(n + 1) -> Nat]
  BY <1>3, <1>5
<1>7. /\ \A i \in 1..n : first[i] = ranges[i].start_value
      /\ \A i \in 1..(n + 1) : index[i] = ranges[i].orig_index
  OBVIOUS
<1> HIDE DEF first, index
<1>8. index[1] = 0 /\ DOMAIN numbers = 1..index[n + 1]
  BY <1>4, <1>5, <1>7, Zenon
<1>9. ASSUME NEW i \in 1..n
      PROVE  /\ index[i] < index[i + 1]
             /\ \A k \in (index[i] + 1)..index[i + 1] :
                   numbers[k] = first[i] + (k - 1 - index[i])
             /\ i < n => first[i] + (index[i + 1] - index[i]) <= first[i + 1]
  <2>1. /\ index[i] = ranges[i].orig_index /\ index[i + 1] = ranges[i + 1].orig_index
        /\ first[i] = ranges[i].start_value
        /\ i < n => first[i + 1] = ranges[i + 1].start_value
    BY <1>5, <1>7, Zenon
  <2> QED
    BY <1>4, <2>1, Zenon
<1>10. RangesOf(n, first, index, numbers)
  BY <1>2, <1>6, <1>8, <1>9, Zenon DEF RangesOf
<1> QED
  BY <1>3, <1>10, Zenon DEF first, index, n

\* A round of int_range_lookup narrows the ranges.
LEMMA RangeNarrows ==
    ASSUME NEW n, NEW first, NEW index, NEW numbers, RangesOf(n, first, index, numbers),
           NEW ranges, NEW value \in Int,
           \A i \in 1..n : ranges[i].start_value = first[i],
           \A i \in 1..(n + 1) : ranges[i].orig_index = index[i]
    PROVE  Narrows([s \in Narrowed(n) |-> narrow_ranges(ranges, value, s)], n,
                   Holding(n, first, index, value),
                   [i \in Holding(n, first, index, value) |-> value - first[i] + index[i]])
<1> DEFINE V == Narrowed(n)
           H == Holding(n, first, index, value)
           at == [i \in H |-> value - first[i] + index[i]]
           g == [s \in V |-> narrow_ranges(ranges, value, s)]
<1>1. n \in Nat /\ first \in [1..n -> Int] /\ index \in [1..(n + 1) -> Nat]
  BY Zenon DEF RangesOf
<1>2. H \in SUBSET (1..n)
  BY DEF Holding
<1>3. \A i \in H : value - first[i] + index[i] \in Nat
  BY RowOfValue
<1>4. at \in [H -> Nat] /\ \A i \in H : at[i] = value - first[i] + index[i]
  BY <1>3, Zenon
<1> HIDE DEF at
<1>5. ASSUME NEW s \in V
      PROVE  LET mid == s.start + s.n \div 2
                 t == narrow_ranges(ranges, value, s)
             IN  /\ t \in V
                 /\ \/ Ended(s) /\ t = s
                    \/ ~Ended(s) /\ t = Before(s, mid) /\ \A i \in H : i <= mid
                    \/ ~Ended(s) /\ t = After(s, mid) /\ \A i \in H : i > mid + 1
                    \/ ~Ended(s) /\ mid + 1 \in H /\ t = [s EXCEPT !.rv = at[mid + 1]]
  <2> DEFINE half == s.n \div 2
             mid == s.start + half
             t == narrow_ranges(ranges, value, s)
             m == mid + 1
             size == index[m + 1] - index[m]
  <2>1. /\ s.start \in Nat /\ s.n \in Nat /\ s.rv \in Int /\ s.start + s.n <= n
        /\ s = [start |-> s.start, n |-> s.n, rv |-> s.rv]
    BY DEF Narrowed
  <2>2. half \in Nat /\ (s.n # 0 => half < s.n)
    BY <2>1
  <2>3. CASE Ended(s)
    <3>1. t = s
      BY <2>3, Zenon DEF narrow_ranges
    <3> QED
      BY <2>3, <3>1, Zenon
  <2>4. CASE ~Ended(s)
    <3>1. s.n # 0
      BY <2>4 DEF Ended
    <3>2. m \in 1..n /\ m \in 1..(n + 1) /\ m + 1 \in 1..(n + 1) /\ m + 1 = mid + 2
          /\ mid \in Nat
      BY <1>1, <2>1, <2>2, <3>1, SMTT(30)
    <3>3. /\ first[m] \in Int /\ index[m] \in Nat /\ index[m + 1] \in Nat /\ size \in Int
      BY <1>1, <3>2
    <3>4. t = IF value < first[m] THEN Before(s, mid)
              ELSE IF value >= first[m] + size THEN After(s, mid)
              ELSE [s EXCEPT !.rv = value - first[m] + index[m]]
      <4>1. t = IF value < ranges[mid + 1].start_value THEN Before(s, mid)
                ELSE IF value >= ranges[mid + 1].start_value
                                 + (ranges[mid + 2].orig_index - ranges[mid + 1].orig_index)
                THEN After(s, mid)
                ELSE [s EXCEPT !.rv = value - ranges[mid + 1].start_value
                                            + ranges[mid + 1].orig_index]
        BY <2>4, Zenon DEF narrow_ranges
      <4>2. /\ ranges[mid + 1].start_value = first[m] /\ ranges[mid + 1].orig_index = index[m]
            /\ ranges[mid + 2].orig_index = index[m + 1]
        BY <3>2, Zenon
      <4> QED
        BY <4>1, <4>2, Zenon
    <3>5. CASE value < first[m]
      <4>1. t = Before(s, mid)
        BY <3>4, <3>5, Zenon
      <4>2. ASSUME NEW i \in H
            PROVE  i <= mid
        <5> SUFFICES ASSUME ~(i <= mid)
                     PROVE  FALSE
          OBVIOUS
        <5>1. i \in 1..n /\ first[i] <= value
          BY DEF Holding
        <5>2. m = i \/ m < i
          BY <3>2, <5>1
        <5>3. m # i
          <6>1. first[i] \in Int
            BY <1>1, <5>1
          <6> HIDE DEF m
          <6> QED
            BY <3>3, <3>5, <5>1, <6>1
        <5>4. first[m] + (index[m + 1] - index[m]) <= first[i] /\ index[m] < index[m + 1]
          <6>1. index[m] < index[m + 1]
            BY <3>2, Zenon DEF RangesOf
          <6> HIDE DEF m
          <6> QED
            BY <3>2, <5>1, <5>2, <5>3, <6>1, RangesGrow
        <5>5. first[i] \in Int
          BY <1>1, <5>1
        <5> HIDE DEF m
        <5> QED
          BY <3>3, <3>5, <5>1, <5>4, <5>5
      <4>3. t \in V
        BY <1>1, <2>4, <4>1, StaysNarrowed, Zenon
      <4> QED
        BY <2>4, <4>1, <4>2, <4>3, Zenon
    <3>6. CASE ~(value < first[m]) /\ value >= first[m] + size
      <4>1. t = After(s, mid)
        BY <3>4, <3>6, Zenon
      <4>2. ASSUME NEW i \in H
            PROVE  i > mid + 1
        <5> SUFFICES ASSUME ~(i > m)
                     PROVE  FALSE
          OBVIOUS
        <5>1. i \in 1..n /\ value < first[i] + (index[i + 1] - index[i])
          BY DEF Holding
        <5>2. /\ first[i] \in Int /\ index[i] \in Nat /\ index[i + 1] \in Nat
          BY <1>1, <5>1
        <5>3. m = i \/ i < m
          BY <3>2, <5>1
        <5>4. m # i
          BY <3>3, <3>6, <5>1, <5>2
        <5>5. first[i] + (index[i + 1] - index[i]) <= first[m]
          <6> HIDE DEF m
          <6> QED
            BY <3>2, <5>1, <5>3, <5>4, RangesGrow
        <5> HIDE DEF m
        <5> QED
          BY <3>3, <3>6, <5>1, <5>2, <5>5
      <4>3. t \in V
        BY <1>1, <2>4, <4>1, StaysNarrowed, Zenon
      <4> QED
        BY <2>4, <4>1, <4>2, <4>3, Zenon
    <3>7. CASE ~(value < first[m]) /\ ~(value >= first[m] + size)
      <4>1. t = [s EXCEPT !.rv = value - first[m] + index[m]]
        BY <3>4, <3>7, Zenon
      <4>2. m \in H
        <5>1. first[m] <= value /\ value < first[m] + size
          BY <3>3, <3>7
        <5> QED
          BY <3>2, <5>1, Zenon DEF Holding
      <4>3. at[m] = value - first[m] + index[m] /\ at[m] \in Nat
        BY <1>3, <1>4, <4>2, Zenon
      <4>4. t = [s EXCEPT !.rv = at[m]]
        BY <4>1, <4>3, Zenon
      <4> HIDE DEF m
      <4>5. t \in V
        BY <1>1, <2>1, <4>3, <4>4 DEF Narrowed
      <4> QED
        BY <2>4, <4>2, <4>4, <4>5, Zenon DEF m
    <3> QED
      BY <3>5, <3>6, <3>7
  <2> QED
    BY <2>3, <2>4
<1>6. g \in [V -> V] /\ \A s \in V : g[s] = narrow_ranges(ranges, value, s)
  BY <1>5, Zenon
<1> HIDE DEF g
<1>7. Narrows(g, n, H, at)
  BY <1>2, <1>4, <1>5, <1>6, Zenon DEF Narrows
<1> QED
  BY <1>7, Zenon DEF g, at

\* Where a value is in a column of M rows, and that it is there once.
Named(column, M, value) == {k \in 1..M : column[k] = value}
Sole(column, M, value) ==
    \A j, k \in 1..M : column[j] = value /\ column[k] = value => j = k
FromZero(M) == [k \in 1..M |-> k - 1]

\* What int_range_lookup returns: -1, or the row with this number, counted from 0.
LEMMA LookedUp ==
    ASSUME NEW ranges, NEW numbers, Ranges(ranges, numbers),
           NEW M \in Nat, DOMAIN numbers = 1..M, Len(numbers) = M, NEW value \in Int
    PROVE  /\ Found(int_range_lookup(ranges, value), Named(numbers, M, value), FromZero(M))
           /\ Sole(numbers, M, value)
<1> DEFINE n == Len(ranges) - 1
           first == [i \in 1..n |-> ranges[i].start_value]
           index == [i \in 1..(n + 1) |-> ranges[i].orig_index]
           H == Holding(n, first, index, value)
           at == [i \in H |-> value - first[i] + index[i]]
           g == [s \in Narrowed(n) |-> narrow_ranges(ranges, value, s)]
           F(f) == [k \in 0..n |-> IF k = 0 THEN Search(n)
                                   ELSE narrow_ranges(ranges, value, f[k - 1])]
           round == CHOOSE f : f = F(f)
           rows == Named(numbers, M, value)
<1>1. RangesOf(n, first, index, numbers)
  BY RangesParts, Zenon
<1>2. n \in Nat
  BY <1>1, Zenon DEF RangesOf
<1>3. /\ \A i \in 1..n : ranges[i].start_value = first[i]
      /\ \A i \in 1..(n + 1) : ranges[i].orig_index = index[i]
  BY Zenon
<1>4. int_range_lookup(ranges, value) = round[n].rv
  BY Zenon DEF int_range_lookup
<1> HIDE DEF n, first, index
<1>5. Narrows(g, n, H, at)
  BY <1>1, <1>3, RangeNarrows, Zenon
<1>6. /\ \A s \in Narrowed(n) : g[s] = narrow_ranges(ranges, value, s)
      /\ \A i \in H : at[i] = value - first[i] + index[i]
  BY Zenon
<1> HIDE DEF g, H, at
<1>7. \A k \in 1..n : k \in 0..n /\ k # 0 /\ k - 1 \in 0..n
  BY <1>2
<1>8. 0 \in 0..n /\ \A k \in 0..n : k # 0 => k \in 1..n
  BY <1>2
<1>9. PICK f \in [0..n -> Narrowed(n)] :
        f[0] = Search(n) /\ \A k \in 1..n : f[k] = g[f[k - 1]]
  BY <1>2, <1>5, SearchRounds
<1>10. f = F(f)
  <2>1. \A k \in 1..n : f[k] = narrow_ranges(ranges, value, f[k - 1])
    BY <1>6, <1>7, <1>9, Zenon
  <2>2. \A k \in 0..n : f[k] = IF k = 0 THEN Search(n)
                               ELSE narrow_ranges(ranges, value, f[k - 1])
    BY <1>8, <1>9, <2>1, Zenon
  <2>3. f = [k \in 0..n |-> f[k]]
    BY <1>9
  <2> QED
    BY <2>2, <2>3, Zenon
<1>11. round = F(round)
  BY <1>10, Zenon
<1> HIDE DEF round
<1>12. round = f
  <2>1. round[0] = Search(n) /\ \A k \in 1..n : round[k] = narrow_ranges(ranges, value, round[k - 1])
    BY <1>7, <1>8, <1>11, Zenon
  <2> DEFINE S == {k \in 0..n : round[k] = f[k]}
  <2>2. 0 \in S
    BY <1>8, <1>9, <2>1, Zenon
  <2>3. ASSUME NEW k \in 1..n, k - 1 \in S
        PROVE  k \in S
    BY <1>6, <1>7, <1>9, <2>1, <2>3, Zenon
  <2> HIDE DEF S
  <2>4. \A k \in 0..n : k \in S
    BY <1>2, <2>2, <2>3, Along
  <2>5. \A k \in 0..n : round[k] = f[k]
    BY <2>4, Zenon DEF S
  <2>6. round = [k \in 0..n |-> round[k]] /\ f = [k \in 0..n |-> f[k]]
    BY <1>9, <1>11, Zenon
  <2> QED
    BY <2>5, <2>6, Zenon
<1>13. ASSUME NEW k \in 1..M, numbers[k] = value
       PROVE  \E i \in H : k = value - first[i] + index[i] + 1
  <2>1. k \in DOMAIN numbers
    OBVIOUS
  <2>2. HeldAt(n, first, index, numbers[k], k)
    BY <1>1, <2>1, ValueOfRow
  <2> QED
    BY <1>13, <2>2, Zenon DEF H, HeldAt
<1>14. ASSUME NEW j \in 1..M, NEW k \in 1..M, numbers[j] = value, numbers[k] = value
       PROVE  j = k
  <2>1. PICK i \in H : j = value - first[i] + index[i] + 1
    BY <1>13, <1>14, Zenon
  <2>2. PICK e \in H : k = value - first[e] + index[e] + 1
    BY <1>13, <1>14, Zenon
  <2>3. i = e
    BY <1>1, <2>1, <2>2, OneRange, Zenon DEF H
  <2> QED
    BY <2>1, <2>2, <2>3, Zenon
<1>15. CASE round[n].rv = -1 /\ H = {}
  <2>1. rows = {}
    <3> SUFFICES ASSUME NEW k \in 1..M, numbers[k] = value
                 PROVE  FALSE
      BY Zenon DEF Named
    <3> QED
      BY <1>13, <1>15, Zenon
  <2> QED
    BY <1>4, <1>14, <1>15, <2>1, Zenon DEF Found, Sole
<1>16. CASE \E i \in H : round[n].rv = at[i]
  <2>1. PICK i \in H : round[n].rv = at[i]
    BY <1>16
  <2> DEFINE k == value - first[i] + index[i] + 1
  <2>2. value - first[i] + index[i] \in Nat /\ k \in 1..M /\ numbers[k] = value
    <3>1. i \in Holding(n, first, index, value)
      BY <2>1, Zenon DEF H
    <3>2. /\ value - first[i] + index[i] \in Nat
          /\ value - first[i] + index[i] + 1 \in DOMAIN numbers
          /\ numbers[value - first[i] + index[i] + 1] = value
      BY <1>1, <3>1, RowOfValue
    <3> QED
      BY <3>2, Zenon
  <2>3. round[n].rv = k - 1
    BY <1>6, <2>1, <2>2
  <2> HIDE DEF k
  <2>4. k \in rows /\ FromZero(M)[k] = k - 1
    BY <2>2, Zenon DEF Named, FromZero
  <2> QED
    BY <1>4, <1>14, <2>3, <2>4, Zenon DEF Found, Sole
<1>17. Found(round[n].rv, H, at)
  BY <1>2, <1>5, <1>9, <1>12, SearchEnds
<1> QED
  BY <1>15, <1>16, <1>17, Zenon DEF Found

-----------------------------------------------------------------------------
(* Lookup by name. *)

Place(name) == CHOOSE i \in DOMAIN Names : Names[i] = name

\* strcmp compares two names by their places in the order of names.
LEMMA Places ==
    ASSUME NEW a \in ToSet(Names), NEW b \in ToSet(Names)
    PROVE  /\ Place(a) \in Int /\ Names[Place(a)] = a
           /\ strcmp(a, b) = Place(a) - Place(b)
<1>1. \E i \in DOMAIN Names : Names[i] = a
  BY Zenon DEF ToSet
<1>2. Place(a) \in DOMAIN Names /\ Names[Place(a)] = a
  BY <1>1, Zenon DEF Place
<1>3. Names \in Seq(STRING)
  BY TablesAssumption
<1>4. Place(a) \in Int
  BY <1>2, <1>3
<1> QED
  BY <1>2, <1>4, Zenon DEF strcmp, Place

\* n names in the order of strcmp.
Sorted(sorted, n) ==
    /\ n \in Nat /\ \A i \in 1..n : sorted[i] \in ToSet(Names)
    /\ \A i, j \in 1..n : i < j => strcmp(sorted[i], sorted[j]) < 0

\* A round of the search by name narrows the sorted names.
LEMMA NameNarrows ==
    ASSUME NEW n, NEW sorted, Sorted(sorted, n), NEW name \in ToSet(Names)
    PROVE  Narrows([s \in Narrowed(n) |-> narrow_names(sorted, name, s)], n,
                   Named(sorted, n, name), [i \in Named(sorted, n, name) |-> i - 1])
<1> DEFINE V == Narrowed(n)
           H == Named(sorted, n, name)
           at == [i \in H |-> i - 1]
           g == [s \in V |-> narrow_names(sorted, name, s)]
<1>1. /\ n \in Nat /\ \A i \in 1..n : sorted[i] \in ToSet(Names)
      /\ \A i, j \in 1..n : i < j => strcmp(sorted[i], sorted[j]) < 0
  BY Zenon DEF Sorted
<1>2. H \in SUBSET (1..n) /\ \A i \in H : sorted[i] = name
  BY DEF Named
<1>3. at \in [H -> Nat] /\ \A i \in H : at[i] = i - 1
  BY <1>2
<1> HIDE DEF at
<1>4. ASSUME NEW s \in V
      PROVE  LET mid == s.start + s.n \div 2
                 t == narrow_names(sorted, name, s)
             IN  /\ t \in V
                 /\ \/ Ended(s) /\ t = s
                    \/ ~Ended(s) /\ t = Before(s, mid) /\ \A i \in H : i <= mid
                    \/ ~Ended(s) /\ t = After(s, mid) /\ \A i \in H : i > mid + 1
                    \/ ~Ended(s) /\ mid + 1 \in H /\ t = [s EXCEPT !.rv = at[mid + 1]]
  <2> DEFINE mid == s.start + s.n \div 2
             t == narrow_names(sorted, name, s)
             m == mid + 1
             rv == strcmp(sorted[m], name)
  <2>1. CASE Ended(s)
    <3>1. t = s
      BY <2>1, Zenon DEF narrow_names
    <3> QED
      BY <2>1, <3>1, Zenon
  <2>2. CASE ~Ended(s)
    <3>1. /\ mid \in Nat /\ m \in 1..n
          /\ Before(s, mid) \in V /\ After(s, mid) \in V
          /\ \A v \in Int : [s EXCEPT !.rv = v] \in V
      BY <1>1, <2>2, StaysNarrowed, Zenon
    <3>2. t = IF rv = 0 THEN [s EXCEPT !.rv = mid]
              ELSE IF rv < 0 THEN After(s, mid) ELSE Before(s, mid)
      BY <2>2, Zenon DEF narrow_names
    <3> HIDE DEF mid
    <3>3. sorted[m] \in ToSet(Names)
      BY <1>1, <3>1, Zenon
    <3>4. /\ Place(sorted[m]) \in Int /\ Names[Place(sorted[m])] = sorted[m]
          /\ Place(name) \in Int /\ Names[Place(name)] = name
          /\ rv = Place(sorted[m]) - Place(name)
      BY <3>3, Places, Zenon
    <3>5. ASSUME NEW i \in H
          PROVE  /\ i < m => Place(name) < Place(sorted[m])
                 /\ m < i => Place(sorted[m]) < Place(name)
                 /\ i = m => Place(sorted[m]) = Place(name)
      <4>1. i \in 1..n /\ sorted[i] = name
        BY <1>2
      <4>2. /\ i < m => strcmp(name, sorted[m]) < 0
            /\ m < i => strcmp(sorted[m], name) < 0
        BY <1>1, <3>1, <4>1, Zenon
      <4>3. strcmp(name, sorted[m]) = Place(name) - Place(sorted[m])
        BY <3>3, Places, Zenon
      <4>4. i = m => Place(sorted[m]) = Place(name)
        BY <4>1, Zenon
      <4> HIDE DEF m
      <4> QED
        BY <3>4, <4>2, <4>3, <4>4
    <3>6. CASE rv = 0
      <4>1. t = [s EXCEPT !.rv = mid]
        BY <3>2, <3>6, Zenon
      <4>2. Place(sorted[m]) = Place(name)
        <5> HIDE DEF m, rv
        <5> QED
          BY <3>4, <3>6
      <4>3. m \in H
        BY <3>1, <3>4, <4>2, Zenon DEF Named
      <4>4. at[m] = mid
        BY <1>3, <3>1, <4>3
      <4>5. t \in V
        BY <3>1, <4>1
      <4> QED
        BY <2>2, <4>1, <4>3, <4>4, <4>5, Zenon DEF mid
    <3>7. CASE rv # 0 /\ rv < 0
      <4>1. t = After(s, mid)
        BY <3>2, <3>7, Zenon
      <4>2. Place(sorted[m]) < Place(name)
        <5> HIDE DEF m, rv
        <5> QED
          BY <3>4, <3>7
      <4>3. ASSUME NEW i \in H
            PROVE  i > mid + 1
        <5>1. i \in 1..n
          BY <1>2
        <5>2. ~(i < m) /\ i # m
          <6> HIDE DEF m
          <6> QED
            BY <3>4, <3>5, <4>2
        <5> QED
          BY <3>1, <5>1, <5>2
      <4> QED
        BY <2>2, <3>1, <4>1, <4>3, Zenon DEF mid
    <3>8. CASE rv # 0 /\ ~(rv < 0)
      <4>1. t = Before(s, mid)
        BY <3>2, <3>8, Zenon
      <4>2. Place(name) < Place(sorted[m])
        <5> HIDE DEF m, rv
        <5> QED
          BY <3>4, <3>8
      <4>3. ASSUME NEW i \in H
            PROVE  i <= mid
        <5>1. i \in 1..n
          BY <1>2
        <5>2. ~(m < i) /\ i # m
          <6> HIDE DEF m
          <6> QED
            BY <3>4, <3>5, <4>2
        <5> QED
          BY <3>1, <5>1, <5>2
      <4> QED
        BY <2>2, <3>1, <4>1, <4>3, Zenon DEF mid
    <3> QED
      BY <3>6, <3>7, <3>8
  <2> QED
    BY <2>1, <2>2
<1>5. g \in [V -> V] /\ \A s \in V : g[s] = narrow_names(sorted, name, s)
  BY <1>4, Zenon
<1> HIDE DEF g
<1>6. Narrows(g, n, H, at)
  BY <1>2, <1>3, <1>4, <1>5, Zenon DEF Narrows
<1> QED
  BY <1>6, Zenon DEF g, at

\* What NameSearch returns: -1, or where the name is, counted from 0.
LEMMA NameSearched ==
    ASSUME NEW n, NEW sorted, Sorted(sorted, n), NEW name \in ToSet(Names)
    PROVE  \/ NameSearch(sorted, name, n) = -1 /\ Named(sorted, n, name) = {}
           \/ \E i \in Named(sorted, n, name) : NameSearch(sorted, name, n) = i - 1
<1> DEFINE H == Named(sorted, n, name)
           at == [i \in H |-> i - 1]
           g == [s \in Narrowed(n) |-> narrow_names(sorted, name, s)]
           F(f) == [k \in 0..n |-> IF k = 0 THEN Search(n)
                                   ELSE narrow_names(sorted, name, f[k - 1])]
           round == CHOOSE f : f = F(f)
<1>1. n \in Nat
  BY Zenon DEF Sorted
<1>2. NameSearch(sorted, name, n) = round[n].rv
  BY Zenon DEF NameSearch
<1>3. Narrows(g, n, H, at)
  BY NameNarrows, Zenon
<1>4. /\ \A s \in Narrowed(n) : g[s] = narrow_names(sorted, name, s)
      /\ \A i \in H : at[i] = i - 1
  BY Zenon
<1> HIDE DEF g, H, at
<1>5. \A k \in 1..n : k \in 0..n /\ k # 0 /\ k - 1 \in 0..n
  BY <1>1
<1>6. 0 \in 0..n /\ \A k \in 0..n : k # 0 => k \in 1..n
  BY <1>1
<1>7. PICK f \in [0..n -> Narrowed(n)] :
        f[0] = Search(n) /\ \A k \in 1..n : f[k] = g[f[k - 1]]
  BY <1>1, <1>3, SearchRounds
<1>8. f = F(f)
  <2>1. \A k \in 1..n : f[k] = narrow_names(sorted, name, f[k - 1])
    BY <1>4, <1>5, <1>7, Zenon
  <2>2. \A k \in 0..n : f[k] = IF k = 0 THEN Search(n)
                               ELSE narrow_names(sorted, name, f[k - 1])
    BY <1>6, <1>7, <2>1, Zenon
  <2>3. f = [k \in 0..n |-> f[k]]
    BY <1>7
  <2> QED
    BY <2>2, <2>3, Zenon
<1>9. round = F(round)
  BY <1>8, Zenon
<1> HIDE DEF round
<1>10. round = f
  <2>1. round[0] = Search(n) /\ \A k \in 1..n : round[k] = narrow_names(sorted, name, round[k - 1])
    BY <1>5, <1>6, <1>9, Zenon
  <2> DEFINE S == {k \in 0..n : round[k] = f[k]}
  <2>2. 0 \in S
    BY <1>6, <1>7, <2>1, Zenon
  <2>3. ASSUME NEW k \in 1..n, k - 1 \in S
        PROVE  k \in S
    BY <1>4, <1>5, <1>7, <2>1, <2>3, Zenon
  <2> HIDE DEF S
  <2>4. \A k \in 0..n : k \in S
    BY <1>1, <2>2, <2>3, Along
  <2>5. \A k \in 0..n : round[k] = f[k]
    BY <2>4, Zenon DEF S
  <2>6. round = [k \in 0..n |-> round[k]] /\ f = [k \in 0..n |-> f[k]]
    BY <1>7, <1>9, Zenon
  <2> QED
    BY <2>5, <2>6, Zenon
<1>11. Found(round[n].rv, H, at)
  BY <1>1, <1>3, <1>7, <1>10, SearchEnds
<1> QED
  BY <1>2, <1>4, <1>11, Zenon DEF Found, H

\* What a lookup through a sorted index returns, of the rows with these names.
NameFound(index, names, M, name, at) ==
    /\ \/ at = -1 /\ \A k \in 1..M : names[k] # name
       \/ at \in Nat /\ \E k \in 1..M : index[at + 1] + 1 = k /\ names[k] = name
    /\ Sole(names, M, name)

\* What a search by name finds, taken through the index, is the row with the name.
LEMMA NameLookedUp ==
    ASSUME NEW index, NEW names, SortedIndex(index, names), NEW M \in Nat,
           DOMAIN names = 1..M, Len(names) = M, NEW name \in ToSet(Names), NEW sorted,
           sorted = [k \in DOMAIN index |-> names[index[k] + 1]]
    PROVE  NameFound(index, names, M, name, NameSearch(sorted, name, Len(index)))
<1> DEFINE n == Len(index)
           at == NameSearch(sorted, name, n)
<1>1. /\ index \in Seq(0..(M - 1))
      /\ \A k \in 1..M : \E i \in DOMAIN index : index[i] = k - 1
      /\ \A i, j \in DOMAIN index : i < j => strcmp(names[index[i] + 1], names[index[j] + 1]) < 0
      /\ \A k \in 1..M : names[k] \in ToSet(Names)
  BY Zenon DEF SortedIndex
<1>2. n \in Nat /\ DOMAIN index = 1..n /\ \A i \in 1..n : index[i] + 1 \in 1..M
  BY <1>1
<1> HIDE DEF n
<1>3. \A i \in 1..n : sorted[i] = names[index[i] + 1]
  BY <1>2, Zenon
<1>4. Sorted(sorted, n)
  BY <1>1, <1>2, <1>3, Zenon DEF Sorted
<1>5. \A k \in 1..M : names[k] = name =>
          \E i \in Named(sorted, n, name) : index[i] + 1 = k
  <2> SUFFICES ASSUME NEW k \in 1..M, names[k] = name
               PROVE  \E i \in Named(sorted, n, name) : index[i] + 1 = k
    OBVIOUS
  <2>1. PICK i \in 1..n : index[i] = k - 1
    BY <1>1, <1>2, Zenon
  <2>2. index[i] + 1 = k
    BY <2>1
  <2>3. sorted[i] = name
    BY <1>3, <2>2, Zenon
  <2> QED
    BY <2>2, <2>3, Zenon DEF Named
<1>6. \A i, j \in Named(sorted, n, name) : i = j
  <2> SUFFICES ASSUME NEW i \in Named(sorted, n, name), NEW j \in Named(sorted, n, name)
               PROVE  ~(i < j)
    BY <1>2 DEF Named
  <2>1. i \in 1..n /\ sorted[i] = name /\ j \in 1..n /\ sorted[j] = name
    BY DEF Named
  <2>2. strcmp(name, name) = Place(name) - Place(name) /\ Place(name) \in Int
    BY Places
  <2>3. i < j => strcmp(name, name) < 0
    BY <1>4, <2>1, Zenon DEF Sorted
  <2> QED
    BY <2>2, <2>3
<1>7. Sole(names, M, name)
  <2> SUFFICES ASSUME NEW j \in 1..M, NEW k \in 1..M, names[j] = name, names[k] = name
               PROVE  j = k
    BY Zenon DEF Sole
  <2>1. PICK i \in Named(sorted, n, name) : index[i] + 1 = j
    BY <1>5, Zenon
  <2>2. PICK e \in Named(sorted, n, name) : index[e] + 1 = k
    BY <1>5, Zenon
  <2>3. i = e
    BY <1>6, Zenon
  <2> QED
    BY <2>1, <2>2, <2>3, Zenon
<1>8. CASE at = -1 /\ Named(sorted, n, name) = {}
  BY <1>5, <1>7, <1>8, Zenon DEF NameFound, n
<1>9. CASE \E i \in Named(sorted, n, name) : at = i - 1
  <2>1. PICK i \in Named(sorted, n, name) : at = i - 1
    BY <1>9
  <2>2. i \in 1..n /\ sorted[i] = name
    BY DEF Named
  <2> HIDE DEF at
  <2>3. at \in Nat /\ at + 1 = i
    BY <2>1, <2>2
  <2>4. index[at + 1] + 1 \in 1..M /\ names[index[at + 1] + 1] = name
    BY <1>2, <1>3, <2>2, <2>3, Zenon
  <2> QED
    BY <1>7, <2>3, <2>4, Zenon DEF NameFound, at, n
<1> QED
  BY <1>4, <1>8, <1>9, NameSearched, Zenon

-----------------------------------------------------------------------------
(* The lookups over the generated tables. *)

\* A row that is the only one with its value is the one a look through all finds.
LEMMA OnlyOne ==
    ASSUME NEW rows, NEW M, NEW column, NEW value, Sole(column, M, value),
           NEW k \in 1..M, column[k] = value
    PROVE  Only(rows, Named(column, M, value)) = <<rows[k]>>
<1> DEFINE S == Named(column, M, value)
           e == CHOOSE j \in S : TRUE
<1>1. k \in S
  BY Zenon DEF Named
<1>2. e \in S
  BY <1>1, Zenon
<1>3. e = k
  BY <1>2, Zenon DEF Named, Sole
<1> QED
  BY <1>1, <1>3, Zenon DEF Only

\* A table of rows, and what is looked for in them.
NumberAgrees(ranges, rows, numbers, M, value) ==
    (IF int_range_lookup(ranges, value) < 0 THEN NULL
     ELSE <<rows[int_range_lookup(ranges, value) + 1]>>)
      = Only(rows, Named(numbers, M, value))

\* A lookup by number finds what a look through all rows finds.
LEMMA NumberFound ==
    ASSUME NEW ranges, NEW numbers, Ranges(ranges, numbers), NEW rows,
           NEW M \in Nat, DOMAIN numbers = 1..M, Len(numbers) = M, NEW value \in Int
    PROVE  NumberAgrees(ranges, rows, numbers, M, value)
<1> DEFINE i == int_range_lookup(ranges, value)
           S == Named(numbers, M, value)
           at == FromZero(M)
<1>1. Found(i, S, at) /\ Sole(numbers, M, value)
  BY LookedUp, Zenon
<1> HIDE DEF i
<1>2. CASE i = -1 /\ S = {}
  <2>1. i < 0
    BY <1>2
  <2> QED
    BY <1>2, <2>1, Zenon DEF NumberAgrees, Only, i
<1>3. CASE \E k \in S : i = at[k]
  <2>1. PICK k \in S : i = at[k]
    BY <1>3
  <2>2. k \in 1..M /\ numbers[k] = value
    BY DEF Named
  <2>3. at[k] = k - 1
    BY <2>2, Zenon DEF FromZero
  <2>4. ~(i < 0) /\ i + 1 = k
    BY <2>1, <2>2, <2>3
  <2>5. Only(rows, S) = <<rows[k]>>
    BY <1>1, <2>2, OnlyOne, Zenon
  <2> QED
    BY <2>4, <2>5, Zenon DEF NumberAgrees, i
<1> QED
  BY <1>1, <1>2, <1>3, Zenon DEF Found

NameAgrees(index, sorted, n, rows, names, M, name) ==
    (IF NameSearch(sorted, name, n) < 0 THEN NULL
     ELSE <<rows[index[NameSearch(sorted, name, n) + 1] + 1]>>)
      = Only(rows, Named(names, M, name))

\* A lookup by name finds what a look through all rows finds.
LEMMA NamedRowFound ==
    ASSUME NEW index, NEW names, SortedIndex(index, names), NEW M \in Nat, NEW rows,
           DOMAIN names = 1..M, Len(names) = M, NEW name \in ToSet(Names), NEW sorted,
           sorted = [k \in DOMAIN index |-> names[index[k] + 1]]
    PROVE  NameAgrees(index, sorted, Len(index), rows, names, M, name)
<1> DEFINE at == NameSearch(sorted, name, Len(index))
           S == Named(names, M, name)
<1>1. NameFound(index, names, M, name, at)
  BY NameLookedUp, Zenon
<1> HIDE DEF at
<1>2. Sole(names, M, name)
  BY <1>1, Zenon DEF NameFound
<1>3. CASE at = -1 /\ \A k \in 1..M : names[k] # name
  <2>1. at < 0
    BY <1>3
  <2>2. S = {}
    BY <1>3, Zenon DEF Named
  <2> QED
    BY <2>1, <2>2, Zenon DEF NameAgrees, Only, at
<1>4. CASE at \in Nat /\ \E k \in 1..M : index[at + 1] + 1 = k /\ names[k] = name
  <2>1. PICK k \in 1..M : index[at + 1] + 1 = k /\ names[k] = name
    BY <1>4
  <2>2. ~(at < 0)
    BY <1>4
  <2>3. Only(rows, S) = <<rows[k]>>
    BY <1>2, <2>1, OnlyOne, Zenon
  <2> QED
    BY <2>1, <2>2, <2>3, Zenon DEF NameAgrees, at
<1> QED
  BY <1>1, <1>3, <1>4, Zenon DEF NameFound

\* A column of a table.
LEMMA Column ==
    ASSUME NEW rows, IsTable(rows), NEW column, DOMAIN column = DOMAIN rows,
           column = [k \in DOMAIN rows |-> column[k]]
    PROVE  /\ Len(rows) \in Nat /\ DOMAIN rows = 1..Len(rows)
           /\ DOMAIN column = 1..Len(rows) /\ Len(column) = Len(rows)
<1> DEFINE M == Len(rows)
           V == {column[k] : k \in 1..M}
<1>1. M \in Nat /\ DOMAIN rows = 1..M
  BY Zenon DEF IsTable
<1>2. column \in [1..M -> V]
  BY <1>1, Zenon
<1> HIDE DEF M, V
<1>3. Len(column) = M
  BY <1>1, <1>2, FunctionSeq, Zenon
<1> QED
  BY <1>1, <1>3, Zenon DEF M

\* get_field and get_field_by_name over the table of any message.
LEMMA FieldsAgree ==
    ASSUME NEW type \in DOMAIN Descriptors
    PROVE  FieldsFound(Descriptors[type])
<1> DEFINE desc == Descriptors[type]
           rows == desc.fields
           M == Len(rows)
           ids == [k \in DOMAIN rows |-> rows[k].id]
           names == [k \in DOMAIN rows |-> rows[k].name]
           index == desc.fields_sorted_by_name
           sorted == [k \in DOMAIN index |-> rows[index[k] + 1].name]
<1>1. TableOf(desc)
  BY TablesAssumption, Zenon
<1> HIDE DEF desc
<1>2. IsTable(rows) /\ Ranges(desc.field_ranges, ids)
  BY <1>1, Zenon DEF TableOf
<1>3. /\ \A k \in DOMAIN rows : ids[k] = rows[k].id /\ names[k] = rows[k].name
      /\ DOMAIN ids = DOMAIN rows /\ ids = [k \in DOMAIN rows |-> ids[k]]
      /\ DOMAIN names = DOMAIN rows /\ names = [k \in DOMAIN rows |-> names[k]]
  BY Zenon
<1> HIDE DEF rows, ids, names
<1>4. /\ M \in Nat /\ DOMAIN rows = 1..M /\ DOMAIN ids = 1..M /\ Len(ids) = M
      /\ DOMAIN names = 1..M /\ Len(names) = M
  BY <1>3, <1>2, Column, Zenon
<1> HIDE DEF M
<1>5. /\ \A k \in 1..M : ids[k] = rows[k].id
      /\ \A k \in 1..M : names[k] = rows[k].name
  BY <1>3, <1>4, Zenon
<1>6. ASSUME NEW n \in Int
      PROVE  get_field(desc, n) = Only(rows, {k \in DOMAIN rows : rows[k].id = n})
  <2>1. NumberAgrees(desc.field_ranges, rows, ids, M, n)
    BY <1>2, <1>4, NumberFound, Zenon
  <2>2. get_field(desc, n) = Only(rows, Named(ids, M, n))
    BY <2>1, Zenon DEF NumberAgrees, get_field, rows
  <2>3. Named(ids, M, n) = {k \in DOMAIN rows : rows[k].id = n}
    BY <1>4, <1>5, Zenon DEF Named
  <2> QED
    BY <2>2, <2>3, Zenon
<1>7. ASSUME index # NULL, NEW s \in ToSet(Names)
      PROVE  get_field_by_name(desc, s) = Only(rows, {k \in DOMAIN rows : rows[k].name = s})
  <2>1. SortedIndex(index, names) /\ Len(index) = M
    BY <1>1, <1>7, Zenon DEF TableOf, names, M, rows
  <2>2. \A k \in DOMAIN index : index[k] + 1 \in 1..M
    <3>1. index \in Seq(0..(Len(names) - 1))
      BY <2>1, Zenon DEF SortedIndex
    <3> HIDE DEF index
    <3> QED
      BY <1>4, <3>1
  <2>3. sorted = [k \in DOMAIN index |-> names[index[k] + 1]]
    BY <1>5, <2>2, Zenon
  <2>4. NameAgrees(index, sorted, Len(index), rows, names, M, s)
    BY <1>4, <2>1, <2>3, NamedRowFound, Zenon
  <2>5. get_field_by_name(desc, s) = Only(rows, Named(names, M, s))
    BY <2>1, <2>4, Zenon DEF NameAgrees, get_field_by_name, M, rows
  <2>6. Named(names, M, s) = {k \in DOMAIN rows : rows[k].name = s}
    BY <1>4, <1>5, Zenon DEF Named
  <2> QED
    BY <2>5, <2>6, Zenon
<1>8. Near({rows[k].id : k \in DOMAIN rows}) \in SUBSET Int
  <2>1. ASSUME NEW k \in DOMAIN rows
        PROVE  rows[k].id \in Int
    <3>1. IsField(rows[k])
      BY <1>1, Zenon DEF TableOf, rows
    <3>2. rows[k].id \in FieldNumbers
      BY <3>1, Zenon DEF IsField
    <3> QED
      BY <3>2 DEF FieldNumbers
  <2> QED
    BY <2>1 DEF Near
<1>9. FieldsFound(desc)
  BY <1>6, <1>7, <1>8, Zenon DEF FieldsFound, rows
<1> QED
  BY <1>9 DEF desc

\* get_value and get_value_by_name over the table of any enumeration.
LEMMA ValuesAgree ==
    ASSUME NEW type \in DOMAIN Enums
    PROVE  ValuesFound(Enums[type])
<1> DEFINE e == Enums[type]
           rows == e.values
           M == Len(rows)
           ids == [k \in DOMAIN rows |-> rows[k].value]
           names == [k \in DOMAIN rows |-> rows[k].name]
           index == e.values_by_name
           sorted == [k \in DOMAIN index |-> rows[index[k] + 1].name]
<1>1. EnumOf(e)
  BY TablesAssumption, Zenon
<1> HIDE DEF e
<1>2. IsTable(rows) /\ Ranges(e.value_ranges, ids) /\ SortedIndex(index, names)
  BY <1>1, Zenon DEF EnumOf
<1>3. /\ \A k \in DOMAIN rows : ids[k] = rows[k].value /\ names[k] = rows[k].name
      /\ DOMAIN ids = DOMAIN rows /\ ids = [k \in DOMAIN rows |-> ids[k]]
      /\ DOMAIN names = DOMAIN rows /\ names = [k \in DOMAIN rows |-> names[k]]
  BY Zenon
<1> HIDE DEF rows, ids, names
<1>4. /\ M \in Nat /\ DOMAIN rows = 1..M /\ DOMAIN ids = 1..M /\ Len(ids) = M
      /\ DOMAIN names = 1..M /\ Len(names) = M
  BY <1>3, <1>2, Column, Zenon
<1> HIDE DEF M
<1>5. /\ \A k \in 1..M : ids[k] = rows[k].value
      /\ \A k \in 1..M : names[k] = rows[k].name
  BY <1>3, <1>4, Zenon
<1>6. ASSUME NEW k \in DOMAIN rows
      PROVE  rows[k].value \in Int
  <2>1. RangesOf(Len(e.value_ranges) - 1,
                 [i \in 1..(Len(e.value_ranges) - 1) |-> e.value_ranges[i].start_value],
                 [i \in 1..((Len(e.value_ranges) - 1) + 1) |-> e.value_ranges[i].orig_index],
                 ids)
    BY <1>2, <1>4, RangesParts, Zenon
  <2>2. ids[k] \in Int
    BY <1>4, <2>1, ValueOfRow, Zenon
  <2> QED
    BY <1>4, <1>5, <2>2, Zenon
<1>7. ASSUME NEW n \in Int
      PROVE  get_value(e, n) = Only(rows, {k \in DOMAIN rows : rows[k].value = n})
  <2>1. NumberAgrees(e.value_ranges, rows, ids, M, n)
    BY <1>2, <1>4, NumberFound, Zenon
  <2>2. get_value(e, n) = Only(rows, Named(ids, M, n))
    BY <2>1, Zenon DEF NumberAgrees, get_value, rows
  <2>3. Named(ids, M, n) = {k \in DOMAIN rows : rows[k].value = n}
    BY <1>4, <1>5, Zenon DEF Named
  <2> QED
    BY <2>2, <2>3, Zenon
<1>8. ASSUME NEW s \in ToSet(Names)
      PROVE  get_value_by_name(e, s) = Only(rows, {k \in DOMAIN rows : rows[k].name = s})
  <2>2. \A k \in DOMAIN index : index[k] + 1 \in 1..M
    <3>1. index \in Seq(0..(Len(names) - 1))
      BY <1>2, Zenon DEF SortedIndex
    <3> HIDE DEF index
    <3> QED
      BY <1>4, <3>1
  <2>3. sorted = [k \in DOMAIN index |-> names[index[k] + 1]]
    BY <1>5, <2>2, Zenon
  <2>4. NameAgrees(index, sorted, Len(index), rows, names, M, s)
    BY <1>2, <1>4, <2>3, NamedRowFound, Zenon
  <2>5. get_value_by_name(e, s) = Only(rows, Named(names, M, s))
    BY <2>4, Zenon DEF NameAgrees, get_value_by_name, rows
  <2>6. Named(names, M, s) = {k \in DOMAIN rows : rows[k].name = s}
    BY <1>4, <1>5, Zenon DEF Named
  <2> QED
    BY <2>5, <2>6, Zenon
<1>9. Near({rows[k].value : k \in DOMAIN rows}) \in SUBSET Int
  BY <1>6 DEF Near
<1>10. ValuesFound(e)
  BY <1>7, <1>8, <1>9, Zenon DEF ValuesFound, rows
<1> QED
  BY <1>10 DEF e

\* The one item of a sequence.
LEMMA FirstOfSeq ==
    ASSUME NEW S, NEW s \in Seq(S), Len(s) = 1
    PROVE  s[1] \in S
OBVIOUS

\* The binary searches of protobuf-c find what a look through all rows finds, by
\* number and by name, in every table the generator can make: an entry that is
\* there is found, and what is not there is not, at every border of a range.
THEOREM LookupsFindAll == Spec => []LookupsAgree
<1>1. SizeInv => LookupsAgree
  <2> SUFFICES ASSUME SizeInv, stage = "sending", Len(sent) = 1
               PROVE  /\ FieldsFound(Descriptors[sent[1].descriptor])
                      /\ \A t \in DOMAIN Enums : ValuesFound(Enums[t])
    BY Zenon DEF LookupsAgree
  <2>1. sent \in Seq(Samples)
    BY Zenon DEF SizeInv
  <2>2. sent[1] \in Samples
    BY <2>1, FirstOfSeq
  <2>3. IsMessage(sent[1])
    <3>1. Packable(sent[1])
      BY <2>2, SamplePackable
    <3>2. 0 \in 0..MaxNesting
      BY NestingAssumption
    <3>3. sent[1] \in Nested(sent[1])[0]
      BY NestedLevels, Zenon
    <3> QED
      BY <3>1, <3>2, <3>3, Zenon DEF Packable
  <2>4. sent[1].descriptor \in DOMAIN Descriptors
    BY <2>3, Zenon DEF IsMessage
  <2> QED
    BY <2>4, FieldsAgree, ValuesAgree, Zenon
<1> QED
  BY <1>1, SizeStarts, SizeSteps, PTL DEF Spec
=============================================================================
