---------------------------- MODULE BuffersProofs ----------------------------
(***************************************************************************)
(* Theorems about Buffers.  First lists, each member of which stands in    *)
(* them once, and what is picked of a sequence at some positions; then who *)
(* holds each string buffer, whose text is in it, and how long the pools   *)
(* last, one invariant on top of the other and one lemma for each action.  *)
(***************************************************************************)
EXTENDS Buffers, FiniteSetTheorems, SequenceTheorems, TLAPS
-----------------------------------------------------------------------------
(***************************************************************************)
(* Lists.                                                                  *)
(***************************************************************************)
(* s has each member of S once and nothing else.                           *)
Lists(s, S) ==
  /\ s \in Seq(S)
  /\ \A i, j \in 1 .. Len(s) : s[i] = s[j] => i = j
  /\ \A b \in S : \E i \in 1 .. Len(s) : s[i] = b

(* What a list is made of.                                                 *)
LEMMA ListFacts ==
  ASSUME NEW s, NEW S, Lists(s, S)
  PROVE  /\ s \in Seq(S) /\ Len(s) \in Nat /\ DOMAIN s = 1 .. Len(s)
         /\ \A i \in 1 .. Len(s) : s[i] \in S
         /\ ToSet(s) = S
<1>1. s \in Seq(S)
  BY DEF Lists
<1>2. Len(s) \in Nat /\ DOMAIN s = 1 .. Len(s)
  BY <1>1, LenProperties
<1>3. \A i \in 1 .. Len(s) : s[i] \in S
  BY <1>1, ElementOfSeq
<1>4. ToSet(s) = S
  BY <1>2, <1>3 DEF Lists, ToSet
<1> QED BY <1>1, <1>2, <1>3, <1>4

(* A function on an initial segment of the numbers is a sequence.          *)
LEMMA SegmentIsSeq ==
  ASSUME NEW n \in Nat, NEW S, NEW f \in [1 .. n -> S]
  PROVE  f \in Seq(S) /\ Len(f) = n
<1>1. f \in Seq(S)
  BY SeqDef
<1>2. DOMAIN f = 1 .. Len(f) /\ Len(f) \in Nat
  BY <1>1, LenProperties
<1>3. DOMAIN f = 1 .. n
  OBVIOUS
<1>4. Len(f) = n
  <2>1. 1 .. Len(f) = 1 .. n
    BY <1>2, <1>3
  <2> QED BY <1>2, <2>1
<1> QED BY <1>1, <1>4

(* The empty list.                                                         *)
LEMMA ListsNothing == Lists(<<>>, {})
<1>1. <<>> \in Seq({}) /\ Len(<<>>) = 0
  BY EmptySeq
<1> QED BY <1>1 DEF Lists

(* A list of two.                                                          *)
LEMMA ListsPair ==
  ASSUME NEW x, NEW y, x # y
  PROVE  Lists(<<x, y>>, {x, y})
<1>1. <<x, y>> \in Seq({x, y}) /\ Len(<<x, y>>) = 2
  OBVIOUS
<1>2. <<x, y>>[1] = x /\ <<x, y>>[2] = y
  OBVIOUS
<1>3. 1 .. Len(<<x, y>>) = {1, 2}
  BY <1>1
<1>4. \A i, j \in {1, 2} : <<x, y>>[i] = <<x, y>>[j] => i = j
  BY <1>2
<1>5. \A b \in {x, y} : \E i \in {1, 2} : <<x, y>>[i] = b
  BY <1>2
<1> QED BY <1>1, <1>3, <1>4, <1>5 DEF Lists

(* A list of one.                                                          *)
LEMMA ListsOne ==
  ASSUME NEW x
  PROVE  Lists(<<x>>, {x})
<1>1. <<x>> \in Seq({x}) /\ Len(<<x>>) = 1
  OBVIOUS
<1>2. <<x>>[1] = x
  OBVIOUS
<1>3. 1 .. Len(<<x>>) = {1}
  BY <1>1
<1> QED BY <1>1, <1>2, <1>3 DEF Lists

(* One list behind another.                                                *)
LEMMA ListsConcat ==
  ASSUME NEW s, NEW S, NEW t, NEW T, Lists(s, S), Lists(t, T), S \cap T = {}
  PROVE  Lists(s \o t, S \cup T)
<1>1. s \in Seq(S \cup T) /\ t \in Seq(S \cup T)
  BY ListFacts, SeqMonotonic
<1>0. PICK u : u = s \o t
  OBVIOUS
<1>2. PICK m \in Nat, n \in Nat : u = s \o t /\ m = Len(s) /\ n = Len(t)
  BY <1>0, ListFacts
<1>3. /\ u \in Seq(S \cup T) /\ Len(u) = m + n
      /\ \A i \in 1 .. m + n : u[i] = IF i <= m THEN s[i] ELSE t[i - m]
  BY <1>1, <1>2, ConcatProperties
<1>4. \A i \in 1 .. m : s[i] \in S
  BY <1>2, ListFacts
<1>5. \A i \in 1 .. n : t[i] \in T
  BY <1>2, ListFacts
<1>6. ASSUME NEW i \in 1 .. m + n, NEW j \in 1 .. m + n, u[i] = u[j]
      PROVE  i = j
  <2>1. CASE i <= m /\ j <= m
    BY <1>2, <1>3, <1>6, <2>1 DEF Lists
  <2>2. CASE i > m /\ j > m
    <3>1. t[i - m] = t[j - m] /\ i - m \in 1 .. n /\ j - m \in 1 .. n
      BY <1>3, <1>6, <2>2
    <3>2. i - m = j - m
      BY <1>2, <3>1 DEF Lists
    <3> QED BY <3>2
  <2>3. CASE i <= m /\ j > m
    <3>1. s[i] = t[j - m] /\ i \in 1 .. m /\ j - m \in 1 .. n
      BY <1>3, <1>6, <2>3
    <3> QED BY <1>4, <1>5, <3>1
  <2>4. CASE i > m /\ j <= m
    <3>1. t[i - m] = s[j] /\ j \in 1 .. m /\ i - m \in 1 .. n
      BY <1>3, <1>6, <2>4
    <3> QED BY <1>4, <1>5, <3>1
  <2> QED BY <2>1, <2>2, <2>3, <2>4
<1>7. ASSUME NEW b \in S \cup T
      PROVE  \E i \in 1 .. m + n : u[i] = b
  <2>1. CASE b \in S
    <3>1. PICK i \in 1 .. m : s[i] = b
      BY <1>2, <2>1 DEF Lists
    <3> QED BY <1>3, <3>1
  <2>2. CASE b \in T
    <3>1. PICK i \in 1 .. n : t[i] = b
      BY <1>2, <2>2 DEF Lists
    <3>2. i + m \in 1 .. m + n /\ ~(i + m <= m) /\ (i + m) - m = i
      OBVIOUS
    <3>3. u[i + m] = t[i]
      BY <1>3, <3>2
    <3> QED BY <3>1, <3>2, <3>3
  <2> QED BY <2>1, <2>2
<1> QED BY <1>2, <1>3, <1>6, <1>7 DEF Lists

(* A list without its head.                                                *)
LEMMA ListsTail ==
  ASSUME NEW s, NEW S, Lists(s, S), s # <<>>
  PROVE  /\ Lists(Tail(s), S \ {s[1]}) /\ s[1] \in S /\ Head(s) = s[1]
         /\ Len(Tail(s)) = Len(s) - 1
<1>1. s \in Seq(S)
  BY ListFacts
<1>0. PICK u : u = Tail(s)
  OBVIOUS
<1>2. PICK n \in Nat : u = Tail(s) /\ n = Len(s)
  BY <1>0, ListFacts
<1>3. n > 0 /\ Head(s) = s[1]
  BY <1>1, <1>2, EmptySeq, HeadTailProperties
<1>4. /\ u \in Seq(S) /\ Len(u) = n - 1
      /\ \A i \in 1 .. n - 1 : u[i] = s[i + 1]
  BY <1>1, <1>2, <1>3, HeadTailProperties
<1>5. s[1] \in S
  BY <1>2, <1>3, ListFacts
<1>6. PICK k \in Nat : k = n - 1
  BY <1>3
<1>7. ASSUME NEW i \in 1 .. k PROVE u[i] \in S \ {s[1]}
  <2>1. u[i] = s[i + 1] /\ i + 1 \in 1 .. n /\ 1 \in 1 .. n /\ i + 1 # 1
    BY <1>3, <1>4, <1>6
  <2> QED BY <1>2, <2>1, ListFacts DEF Lists
<1>8. u \in [1 .. k -> S \ {s[1]}]
  <2>1. u \in [1 .. k -> S]
    BY <1>4, <1>6, LenProperties
  <2> QED BY <1>7, <2>1
<1>9. u \in Seq(S \ {s[1]}) /\ Len(u) = k
  BY <1>8, SegmentIsSeq
<1>10. ASSUME NEW i \in 1 .. k, NEW j \in 1 .. k, u[i] = u[j]
       PROVE  i = j
  <2>1. s[i + 1] = s[j + 1] /\ i + 1 \in 1 .. n /\ j + 1 \in 1 .. n
    BY <1>4, <1>6, <1>10
  <2>2. i + 1 = j + 1
    BY <1>2, <2>1 DEF Lists
  <2> QED BY <2>2
<1>11. ASSUME NEW b \in S \ {s[1]}
       PROVE  \E i \in 1 .. k : u[i] = b
  <2>1. PICK i \in 1 .. n : s[i] = b
    BY <1>2 DEF Lists
  <2>2. i - 1 \in 1 .. k /\ (i - 1) + 1 = i
    BY <1>6, <2>1
  <2>3. u[i - 1] = s[(i - 1) + 1]
    BY <1>4, <1>6, <2>2
  <2> QED BY <2>1, <2>2, <2>3
<1> QED BY <1>2, <1>3, <1>4, <1>5, <1>9, <1>10, <1>11 DEF Lists

(* A list without its first two.                                           *)
LEMMA ListsRest ==
  ASSUME NEW s, NEW S, Lists(s, S), Len(s) >= 2
  PROVE  /\ Lists(Rest(s), S \ {s[1], s[2]}) /\ Len(Rest(s)) = Len(s) - 2
         /\ s[1] \in S /\ s[2] \in S /\ s[1] # s[2]
<1>1. s \in Seq(S)
  BY ListFacts
<1>0. PICK u : u = Rest(s)
  OBVIOUS
<1>2. PICK n \in Nat : u = Rest(s) /\ n = Len(s) /\ n >= 2
  BY <1>0, ListFacts
<1>3. PICK k \in Nat : k = n - 2
  BY <1>2
<1>4. /\ u \in Seq(S) /\ Len(u) = k
      /\ \A i \in 1 .. k : u[i] = s[i + 2]
  <2>1. u = SubSeq(s, 3, n) /\ 3 \in 1 .. n + 1 /\ n \in 3 - 1 .. n
    BY <1>2 DEF Rest
  <2>2. SubSeq(s, 3, n) \in Seq(S) /\ Len(SubSeq(s, 3, n)) = n - 3 + 1
        /\ \A i \in 1 .. n - 3 + 1 : SubSeq(s, 3, n)[i] = s[3 + i - 1]
    BY <1>1, <1>2, <2>1, SubSeqProperties
  <2>3. n - 3 + 1 = k
    BY <1>3
  <2>4. \A i \in 1 .. k : 3 + i - 1 = i + 2
    OBVIOUS
  <2> QED BY <2>1, <2>2, <2>3, <2>4
<1>5. s[1] \in S /\ s[2] \in S /\ s[1] # s[2]
  <2>1. 1 \in 1 .. n /\ 2 \in 1 .. n
    BY <1>2
  <2> QED BY <1>2, <2>1, ListFacts DEF Lists
<1>6. ASSUME NEW i \in 1 .. k PROVE u[i] \in S \ {s[1], s[2]}
  <2>1. u[i] = s[i + 2] /\ i + 2 \in 1 .. n /\ 1 \in 1 .. n /\ 2 \in 1 .. n /\ i + 2 # 1 /\ i + 2 # 2
    BY <1>2, <1>3, <1>4
  <2> QED BY <1>2, <2>1, ListFacts DEF Lists
<1>7. u \in [1 .. k -> S \ {s[1], s[2]}]
  <2>1. u \in [1 .. k -> S]
    BY <1>4, LenProperties
  <2> QED BY <1>6, <2>1
<1>8. u \in Seq(S \ {s[1], s[2]})
  BY <1>7, SegmentIsSeq
<1>9. ASSUME NEW i \in 1 .. k, NEW j \in 1 .. k, u[i] = u[j]
      PROVE  i = j
  <2>1. s[i + 2] = s[j + 2] /\ i + 2 \in 1 .. n /\ j + 2 \in 1 .. n
    BY <1>3, <1>4, <1>9
  <2>2. i + 2 = j + 2
    BY <1>2, <2>1 DEF Lists
  <2> QED BY <2>2
<1>10. ASSUME NEW b \in S \ {s[1], s[2]}
       PROVE  \E i \in 1 .. k : u[i] = b
  <2>1. PICK i \in 1 .. n : s[i] = b
    BY <1>2 DEF Lists
  <2>2. i # 1 /\ i # 2
    BY <2>1
  <2>3. i - 2 \in 1 .. k /\ (i - 2) + 2 = i
    BY <1>3, <2>1, <2>2
  <2>4. u[i - 2] = s[(i - 2) + 2]
    BY <1>4, <2>3
  <2> QED BY <2>1, <2>3, <2>4
<1> QED BY <1>2, <1>3, <1>4, <1>5, <1>8, <1>9, <1>10 DEF Lists

(* A list backwards.                                                       *)
LEMMA ListsReverse ==
  ASSUME NEW s, NEW S, Lists(s, S)
  PROVE  /\ Lists(Reverse(s), S) /\ Len(Reverse(s)) = Len(s)
         /\ \A i \in 1 .. Len(s) : Reverse(s)[i] = s[(Len(s) - i) + 1]
<1>0. PICK u : u = Reverse(s)
  OBVIOUS
<1>1. PICK n \in Nat : u = Reverse(s) /\ n = Len(s)
  BY <1>0, ListFacts
<1>2. u = [i \in 1 .. n |-> s[(n - i) + 1]]
  BY <1>1 DEF Reverse
<1>3. \A i \in 1 .. n : (n - i) + 1 \in 1 .. n
  OBVIOUS
<1>4. u \in [1 .. n -> S]
  BY <1>1, <1>2, <1>3, ListFacts
<1>5. u \in Seq(S) /\ Len(u) = n
  BY <1>4, SegmentIsSeq
<1>6. ASSUME NEW i \in 1 .. n, NEW j \in 1 .. n, u[i] = u[j]
      PROVE  i = j
  <2>1. s[(n - i) + 1] = s[(n - j) + 1]
    BY <1>2, <1>6
  <2>2. (n - i) + 1 = (n - j) + 1
    BY <1>1, <1>3, <2>1 DEF Lists
  <2> QED BY <2>2
<1>7. ASSUME NEW b \in S
      PROVE  \E i \in 1 .. n : u[i] = b
  <2>1. PICK i \in 1 .. n : s[i] = b
    BY <1>1 DEF Lists
  <2>2. (n - i) + 1 \in 1 .. n /\ (n - ((n - i) + 1)) + 1 = i
    OBVIOUS
  <2>3. u[(n - i) + 1] = s[(n - ((n - i) + 1)) + 1]
    BY <1>2, <2>2
  <2> QED BY <2>1, <2>2, <2>3
<1> QED BY <1>1, <1>2, <1>5, <1>6, <1>7 DEF Lists

(* A list of 1 .. n has length n.                                          *)
LEMMA ListsLength ==
  ASSUME NEW s, NEW n \in Nat, Lists(s, 1 .. n)
  PROVE  Len(s) = n
<1>1. PICK m \in Nat : m = Len(s)
  BY ListFacts
<1>2. s \in Bijection(1 .. m, 1 .. n)
  <2>1. s \in [1 .. m -> 1 .. n]
    BY <1>1, LenProperties, ListFacts
  <2> QED BY <1>1, <2>1 DEF Lists, Bijection, Injection, Surjection, IsInjective
<1>3. ExistsBijection(1 .. m, 1 .. n)
  BY <1>2 DEF ExistsBijection
<1>4. Cardinality(1 .. n) = m
  BY <1>3, FS_CountingElements
<1>5. Cardinality(1 .. n) = n
  <2>1. 1 \in Int /\ n \in Int
    OBVIOUS
  <2>2. Cardinality(1 .. n) = IF 1 > n THEN 0 ELSE n - 1 + 1
    BY <2>1, FS_Interval
  <2> QED BY <2>2
<1> QED BY <1>1, <1>4, <1>5
-----------------------------------------------------------------------------
(***************************************************************************)
(* What Picked picks.                                                      *)
(***************************************************************************)
(* How many of I are up to i.                                              *)
Rank(I, i) == Cardinality({j \in I : j <= i})

(* An initial segment of the numbers is finite.                            *)
LEMMA FiniteSegment ==
  ASSUME NEW n \in Nat
  PROVE  IsFiniteSet(1 .. n) /\ Cardinality(1 .. n) = n
<1>1. 1 \in Int /\ n \in Int
  OBVIOUS
<1>2. IsFiniteSet(1 .. n) /\ Cardinality(1 .. n) = IF 1 > n THEN 0 ELSE n - 1 + 1
  BY <1>1, FS_Interval
<1> QED BY <1>2

(* The ranks of the members of I are 1, 2, ... up to their number.         *)
LEMMA RankFacts ==
  ASSUME NEW n \in Nat, NEW I \in SUBSET (1 .. n)
  PROVE  /\ IsFiniteSet(I) /\ Cardinality(I) \in Nat
         /\ \A i \in I : Rank(I, i) \in 1 .. Cardinality(I)
         /\ \A i, j \in I : Rank(I, i) = Rank(I, j) => i = j
         /\ \A k \in 1 .. Cardinality(I) : \E i \in I : Rank(I, i) = k
<1>1. IsFiniteSet(I)
  BY FiniteSegment, FS_Subset
<1>2. PICK c \in Nat : c = Cardinality(I)
  BY <1>1, FS_CardinalityType
<1>3. ASSUME NEW i \in I PROVE Rank(I, i) \in 1 .. c
  <2> DEFINE L == {j \in I : j <= i}
  <2>1. L \in SUBSET I /\ i \in L
    OBVIOUS
  <2> HIDE DEF L
  <2>2. IsFiniteSet(L) /\ Cardinality(L) <= Cardinality(I)
    BY <1>1, <2>1, FS_Subset
  <2>3. PICK a \in Nat : a = Cardinality(L)
    BY <2>2, FS_CardinalityType
  <2>4. a # 0
    BY <2>1, <2>2, <2>3, FS_EmptySet
  <2>5. a <= c
    BY <1>2, <2>2, <2>3
  <2>6. a \in 1 .. c
    BY <2>4, <2>5
  <2> QED BY <2>3, <2>6 DEF Rank, L
<1>4. ASSUME NEW i \in I, NEW j \in I, i < j PROVE Rank(I, i) # Rank(I, j)
  <2> DEFINE L == {k \in I : k <= i}
             M == {k \in I : k <= j}
  <2>1. i \in Nat /\ j \in Nat /\ \A k \in I : k \in Nat
    OBVIOUS
  <2>2. L \in SUBSET M /\ j \in M /\ j \notin L /\ M \in SUBSET I
    <3>1. i <= j /\ ~(j <= i) /\ j <= j
      BY <1>4, <2>1
    <3>2. \A k \in I : k <= i => k <= j
      BY <2>1, <3>1
    <3> QED BY <3>1, <3>2
  <2> HIDE DEF L, M
  <2>3. IsFiniteSet(M)
    BY <1>1, <2>2, FS_Subset
  <2>4. Cardinality(L) # Cardinality(M)
    BY <2>2, <2>3, FS_Subset
  <2> QED BY <2>4 DEF Rank, L, M
<1>5. ASSUME NEW i \in I, NEW j \in I, Rank(I, i) = Rank(I, j) PROVE i = j
  <2>1. i \in Nat /\ j \in Nat
    OBVIOUS
  <2>2. ~(i < j) /\ ~(j < i)
    BY <1>4, <1>5
  <2> QED BY <2>1, <2>2
<1>6. ASSUME NEW k \in 1 .. c PROVE \E i \in I : Rank(I, i) = k
  <2> DEFINE r == [i \in I |-> Rank(I, i)]
  <2>1. r \in [I -> 1 .. c] /\ \A i \in I : r[i] = Rank(I, i)
    BY <1>3
  <2> HIDE DEF r
  <2>2. r \in Injection(I, 1 .. c)
    BY <1>5, <2>1 DEF Injection, IsInjective
  <2>3. r \in Surjection(I, 1 .. c)
    <3>1. IsFiniteSet(1 .. c) /\ Cardinality(1 .. c) = c
      BY FiniteSegment
    <3> QED BY <1>2, <2>2, <3>1, FS_Injection
  <2> QED BY <2>1, <2>3 DEF Surjection
<1> QED BY <1>1, <1>2, <1>3, <1>5, <1>6

(* Each of the members of q at I is picked, and once.                      *)
LEMMA PickedFacts ==
  ASSUME NEW n \in Nat, NEW q, DOMAIN q = 1 .. n, NEW I \in SUBSET (1 .. n)
  PROVE  \E f : /\ f \in [1 .. Cardinality(I) -> I]
                /\ \A k, l \in 1 .. Cardinality(I) : f[k] = f[l] => k = l
                /\ \A i \in I : \E k \in 1 .. Cardinality(I) : f[k] = i
                /\ Picked(q, I) = [k \in 1 .. Cardinality(I) |-> q[f[k]]]
                /\ Cardinality(I) \in Nat
<1> DEFINE At(k) == CHOOSE i \in I : Cardinality({j \in I : j <= i}) = k
           f == [k \in 1 .. Cardinality(I) |-> At(k)]
<1>1. \A k \in 1 .. Cardinality(I) : At(k) \in I /\ Rank(I, At(k)) = k
  <2> SUFFICES ASSUME NEW k \in 1 .. Cardinality(I) PROVE At(k) \in I /\ Rank(I, At(k)) = k
    BY Zenon
  <2>1. \E i \in I : Rank(I, i) = k
    BY RankFacts
  <2>2. \E i \in I : Cardinality({j \in I : j <= i}) = k
    BY <2>1 DEF Rank
  <2>3. At(k) \in I /\ Cardinality({j \in I : j <= At(k)}) = k
    BY <2>2, Zenon
  <2> HIDE DEF At
  <2> QED BY <2>3 DEF Rank
<1>2. Picked(q, I) = [k \in 1 .. Cardinality(I) |-> q[At(k)]]
  BY Zenon DEF Picked
<1> HIDE DEF At
<1>3. f \in [1 .. Cardinality(I) -> I] /\ \A k \in 1 .. Cardinality(I) : f[k] = At(k)
  BY <1>1
<1>4. [k \in 1 .. Cardinality(I) |-> q[f[k]]] = [k \in 1 .. Cardinality(I) |-> q[At(k)]]
  BY <1>3
<1> HIDE DEF f
<1>5. ASSUME NEW k \in 1 .. Cardinality(I), NEW l \in 1 .. Cardinality(I), f[k] = f[l]
      PROVE  k = l
  BY <1>1, <1>3, <1>5
<1>6. ASSUME NEW i \in I PROVE \E k \in 1 .. Cardinality(I) : f[k] = i
  <2>1. PICK k \in 1 .. Cardinality(I) : k = Rank(I, i)
    BY RankFacts
  <2>2. f[k] \in I /\ Rank(I, f[k]) = k
    BY <1>1, <1>3
  <2>3. f[k] = i
    BY <2>1, <2>2, RankFacts
  <2> QED BY <2>3
<1>7. Cardinality(I) \in Nat
  BY RankFacts
<1> QED BY <1>2, <1>3, <1>4, <1>5, <1>6, <1>7

-----------------------------------------------------------------------------
(***************************************************************************)
(* Queues of snapshots.                                                    *)
(***************************************************************************)
SnapRec == [number : 0 .. MaxAsk, buf : Nat, state : {"active", "over"},
            size : FileChunks, out : 0 .. MaxOut]

(* The buffers of the snapshots in q.                                      *)
BufsOf(q) == [i \in DOMAIN q |-> q[i].buf]

(* A queue of snapshots, and their buffers.                                *)
LEMMA QueueFacts ==
  ASSUME NEW q \in Seq(SnapRec)
  PROVE  /\ Len(q) \in Nat /\ DOMAIN q = 1 .. Len(q) /\ q \in [1 .. Len(q) -> SnapRec]
         /\ BufsOf(q) \in Seq(Nat) /\ Len(BufsOf(q)) = Len(q)
         /\ \A i \in 1 .. Len(q) : BufsOf(q)[i] = q[i].buf
<1>1. PICK n \in Nat : n = Len(q)
  BY LenProperties
<1>2. DOMAIN q = 1 .. n /\ q \in [1 .. n -> SnapRec]
  BY <1>1, LenProperties
<1>3. BufsOf(q) \in [1 .. n -> Nat] /\ \A i \in 1 .. n : BufsOf(q)[i] = q[i].buf
  BY <1>2 DEF BufsOf, SnapRec
<1>4. BufsOf(q) \in Seq(Nat) /\ Len(BufsOf(q)) = n
  BY <1>3, SegmentIsSeq
<1> QED BY <1>1, <1>2, <1>3, <1>4

(* One snapshot more.                                                      *)
LEMMA QueueAdds ==
  ASSUME NEW q \in Seq(SnapRec), NEW s \in SnapRec
  PROVE  /\ <<s>> \o q \in Seq(SnapRec) /\ Len(<<s>> \o q) = Len(q) + 1
         /\ (<<s>> \o q)[1] = s /\ \A i \in 1 .. Len(q) : (<<s>> \o q)[i + 1] = q[i]
<1>1. PICK n \in Nat : n = Len(q)
  BY LenProperties
<1>2. <<s>> \in Seq(SnapRec) /\ Len(<<s>>) = 1 /\ <<s>>[1] = s
  OBVIOUS
<1>3. PICK t : t = <<s>>
  OBVIOUS
<1>4. PICK r : r = t \o q
  OBVIOUS
<1>5. r \in Seq(SnapRec) /\ Len(r) = 1 + n /\ \A i \in 1 .. 1 + n : r[i] = IF i <= 1 THEN t[i] ELSE q[i - 1]
  BY <1>1, <1>2, <1>3, <1>4, ConcatProperties
<1>6. r[1] = s
  <2>1. 1 \in 1 .. 1 + n
    OBVIOUS
  <2> QED BY <1>2, <1>3, <1>5, <2>1
<1>7. \A i \in 1 .. n : r[i + 1] = q[i]
  <2>1. \A i \in 1 .. n : i + 1 \in 1 .. 1 + n /\ ~(i + 1 <= 1) /\ (i + 1) - 1 = i
    OBVIOUS
  <2> QED BY <1>5, <2>1
<1> QED BY <1>1, <1>3, <1>4, <1>5, <1>6, <1>7

(* The buffers after a snapshot was put in front.                          *)
LEMMA BufsAdd ==
  ASSUME NEW q \in Seq(SnapRec), NEW s \in SnapRec, NEW K, Lists(BufsOf(q), K), s.buf \notin K
  PROVE  Lists(BufsOf(<<s>> \o q), K \cup {s.buf})
<1>1. PICK n \in Nat : n = Len(q)
  BY LenProperties
<1>2. PICK r : r = <<s>> \o q
  OBVIOUS
<1>3. /\ r \in Seq(SnapRec) /\ Len(r) = n + 1 /\ r[1] = s
      /\ \A i \in 1 .. n : r[i + 1] = q[i]
  BY <1>1, <1>2, QueueAdds
<1>4. PICK b, c : b = BufsOf(q) /\ c = BufsOf(r)
  OBVIOUS
<1>5. b \in Seq(Nat) /\ Len(b) = n /\ \A i \in 1 .. n : b[i] = q[i].buf
  BY <1>1, <1>4, QueueFacts
<1>6. c \in Seq(Nat) /\ Len(c) = n + 1 /\ \A i \in 1 .. n + 1 : c[i] = r[i].buf
  BY <1>3, <1>4, QueueFacts
<1>7. PICK x \in Nat : x = s.buf
  BY DEF SnapRec
<1>8. PICK t : t = <<x>>
  OBVIOUS
<1>9. t \in Seq(Nat) /\ Len(t) = 1 /\ t[1] = x /\ Lists(t, {x})
  <2>1. <<x>> \in Seq(Nat) /\ Len(<<x>>) = 1 /\ <<x>>[1] = x
    OBVIOUS
  <2>2. Lists(<<x>>, {x})
    BY ListsOne
  <2> QED BY <1>8, <2>1, <2>2
<1>10. PICK u : u = t \o b
  OBVIOUS
<1>11. u \in Seq(Nat) /\ Len(u) = 1 + n /\ \A i \in 1 .. 1 + n : u[i] = IF i <= 1 THEN t[i] ELSE b[i - 1]
  <2>1. t \in Seq(Nat) /\ b \in Seq(Nat)
    BY <1>5, <1>9
  <2>2. /\ u \in Seq(Nat) /\ Len(u) = Len(t) + Len(b)
        /\ \A i \in 1 .. Len(t) + Len(b) : u[i] = IF i <= Len(t) THEN t[i] ELSE b[i - Len(t)]
    BY <1>10, <2>1, ConcatProperties
  <2>3. Len(t) = 1 /\ Len(b) = n
    BY <1>5, <1>9
  <2> QED BY <2>2, <2>3
<1>12. ASSUME NEW i \in 1 .. n + 1 PROVE c[i] = u[i]
  <2>1. CASE i = 1
    <3>1. u[i] = t[i]
      BY <1>11, <2>1
    <3> QED BY <1>3, <1>6, <1>7, <1>9, <2>1, <3>1
  <2>2. CASE i # 1
    <3>1. i - 1 \in 1 .. n /\ ~(i <= 1) /\ (i - 1) + 1 = i /\ i \in 1 .. 1 + n
      BY <2>2
    <3>2. u[i] = b[i - 1]
      BY <1>11, <3>1
    <3>3. b[i - 1] = q[i - 1].buf
      BY <1>5, <3>1
    <3>4. r[i] = q[i - 1]
      <4>1. r[(i - 1) + 1] = q[i - 1]
        BY <1>3, <3>1
      <4> QED BY <3>1, <4>1
    <3> QED BY <1>6, <3>2, <3>3, <3>4
  <2> QED BY <2>1, <2>2
<1>13. c = u
  BY <1>6, <1>11, <1>12, SeqEqual
<1>14. Lists(u, {x} \cup K)
  BY <1>4, <1>7, <1>9, <1>10, ListsConcat
<1>15. {x} \cup K = K \cup {s.buf}
  BY <1>7
<1> QED BY <1>2, <1>4, <1>13, <1>14, <1>15

(* Some of the snapshots.                                                  *)
LEMMA QueuePicked ==
  ASSUME NEW q \in Seq(SnapRec), NEW I \in SUBSET DOMAIN q
  PROVE  Picked(q, I) \in Seq(SnapRec)
<1>1. PICK n \in Nat : n = Len(q)
  BY LenProperties
<1>2. DOMAIN q = 1 .. n /\ q \in [1 .. n -> SnapRec]
  BY <1>1, LenProperties
<1>3. PICK f : /\ f \in [1 .. Cardinality(I) -> I]
               /\ Picked(q, I) = [k \in 1 .. Cardinality(I) |-> q[f[k]]]
               /\ Cardinality(I) \in Nat
  BY <1>2, PickedFacts
<1>4. PICK c \in Nat : c = Cardinality(I)
  BY <1>3
<1>5. [k \in 1 .. c |-> q[f[k]]] \in [1 .. c -> SnapRec]
  BY <1>2, <1>3, <1>4
<1> QED BY <1>3, <1>4, <1>5, SegmentIsSeq

(* The buffers of the snapshots picked.                                    *)
LEMMA BufsPicked ==
  ASSUME NEW q \in Seq(SnapRec), NEW I \in SUBSET DOMAIN q, NEW K, Lists(BufsOf(q), K)
  PROVE  Lists(BufsOf(Picked(q, I)), {q[i].buf : i \in I})
<1>1. PICK n \in Nat : n = Len(q)
  BY LenProperties
<1>2. DOMAIN q = 1 .. n /\ q \in [1 .. n -> SnapRec]
  BY <1>1, LenProperties
<1>3. PICK f : /\ f \in [1 .. Cardinality(I) -> I]
               /\ \A k, l \in 1 .. Cardinality(I) : f[k] = f[l] => k = l
               /\ \A i \in I : \E k \in 1 .. Cardinality(I) : f[k] = i
               /\ Picked(q, I) = [k \in 1 .. Cardinality(I) |-> q[f[k]]]
               /\ Cardinality(I) \in Nat
  BY <1>2, PickedFacts
<1>4. PICK c \in Nat : c = Cardinality(I)
  BY <1>3
<1>5. PICK p : p = Picked(q, I)
  OBVIOUS
<1>6. DOMAIN p = 1 .. c /\ \A k \in 1 .. c : p[k] = q[f[k]] /\ f[k] \in I /\ f[k] \in 1 .. n
  BY <1>2, <1>3, <1>4, <1>5
<1>7. PICK b : b = BufsOf(p)
  OBVIOUS
<1> DEFINE B == {q[i].buf : i \in I}
<1>8. b \in [1 .. c -> B] /\ \A k \in 1 .. c : b[k] = q[f[k]].buf
  BY <1>6, <1>7 DEF BufsOf
<1> HIDE DEF B
<1>9. b \in Seq(B) /\ Len(b) = c
  BY <1>8, SegmentIsSeq
<1>10. \A i, j \in 1 .. n : q[i].buf = q[j].buf => i = j
  <2>1. \A i, j \in 1 .. Len(BufsOf(q)) : BufsOf(q)[i] = BufsOf(q)[j] => i = j
    BY DEF Lists
  <2>2. Len(BufsOf(q)) = n /\ \A i \in 1 .. n : BufsOf(q)[i] = q[i].buf
    BY <1>1, QueueFacts
  <2> QED BY <2>1, <2>2
<1>11. ASSUME NEW k \in 1 .. c, NEW l \in 1 .. c, b[k] = b[l] PROVE k = l
  BY <1>3, <1>4, <1>6, <1>8, <1>10, <1>11
<1>12. ASSUME NEW x \in B PROVE \E k \in 1 .. c : b[k] = x
  <2>1. PICK i \in I : x = q[i].buf
    BY DEF B
  <2> QED BY <1>3, <1>4, <1>8, <2>1
<1>13. Lists(b, B)
  BY <1>9, <1>11, <1>12 DEF Lists
<1> QED BY <1>5, <1>7, <1>13 DEF B

(* A snapshot that changes keeps its buffer.                               *)
LEMMA QueueChanges ==
  ASSUME NEW q \in Seq(SnapRec), NEW i \in DOMAIN q, NEW s \in SnapRec, s.buf = q[i].buf
  PROVE  /\ [q EXCEPT ![i] = s] \in Seq(SnapRec) /\ DOMAIN [q EXCEPT ![i] = s] = DOMAIN q
         /\ BufsOf([q EXCEPT ![i] = s]) = BufsOf(q)
         /\ Len([q EXCEPT ![i] = s]) = Len(q)
<1>1. PICK n \in Nat : n = Len(q)
  BY LenProperties
<1>2. DOMAIN q = 1 .. n /\ q \in [1 .. n -> SnapRec]
  BY <1>1, LenProperties
<1>3. PICK r : r = [q EXCEPT ![i] = s]
  OBVIOUS
<1>4. r \in [1 .. n -> SnapRec] /\ \A j \in 1 .. n : r[j] = IF j = i THEN s ELSE q[j]
  BY <1>2, <1>3
<1>5. r \in Seq(SnapRec) /\ DOMAIN r = 1 .. n /\ Len(r) = n
  BY <1>4, SegmentIsSeq
<1>6. BufsOf(r) = BufsOf(q)
  BY <1>2, <1>4, <1>5 DEF BufsOf
<1> QED BY <1>1, <1>2, <1>3, <1>5, <1>6

-----------------------------------------------------------------------------
(***************************************************************************)
(* Who holds the buffers.                                                  *)
(***************************************************************************)
TInv ==
  /\ made \in Nat /\ made >= StrbufAlloc /\ N_in_Q \in Nat
  /\ at \in {"idle", "READER", "WRITER", "reply"}
  /\ cmd \in [number : 0 .. MaxAsk, kind : Kind] /\ shown \subseteq 0 .. MaxAsk
  /\ snapQ \in Seq(SnapRec) /\ lost \in Nat
  /\ chunkQ \in Nat /\ N_in_chunkQ \in Nat /\ crashed \in {"no", "strbuf", "chunk", "file"}

(* How many buffers the command under way has.                             *)
RingInv ==
  /\ at = "idle" => chain = <<>>
  /\ at \in {"READER", "WRITER"} => Len(chain) = 2
  /\ at = "reply" => Len(chain) >= 1

(* F are free, R with the command and K with snapshots.                    *)
HoldersAre(F, R, K) ==
  /\ Lists(sbufQ, F) /\ Lists(chain, R) /\ Lists(BufsOf(snapQ), K)
  /\ F \cap R = {} /\ F \cap K = {} /\ R \cap K = {}
  /\ F \cup R \cup K = 1 .. made

(* Every buffer has one holder.                                            *)
Held == \E F, R, K : HoldersAre(F, R, K)

(* The inductive invariant of OneHolder.                                   *)
HInv == TInv /\ RingInv /\ Held

(* At the start every buffer is free.                                      *)
LEMMA HInit == Init => HInv
<1> SUFFICES ASSUME Init PROVE HInv
  OBVIOUS
<1>0. StrbufAlloc \in Nat /\ StrbufAlloc >= 2 /\ MaxAsk \in Nat
  BY BuffersConstants
<1>1. TInv
  <2>1. cmd \in [number : 0 .. MaxAsk, kind : Kind]
    BY <1>0 DEF Init, Kind
  <2>2. snapQ \in Seq(SnapRec)
    BY EmptySeq DEF Init
  <2>3. N_in_Q \in Nat
    BY <1>0 DEF Init, CountAfter
  <2> QED BY <1>0, <2>1, <2>2, <2>3 DEF Init, TInv
<1>2. RingInv
  BY DEF Init, RingInv
<1>3. Lists(sbufQ, 1 .. made)
  <2>1. sbufQ \in [1 .. made -> 1 .. made] /\ \A i \in 1 .. made : sbufQ[i] = i
    BY DEF Init
  <2>2. made \in Nat
    BY <1>0 DEF Init
  <2>3. sbufQ \in Seq(1 .. made) /\ Len(sbufQ) = made
    BY <2>1, <2>2, SegmentIsSeq
  <2> QED BY <2>1, <2>3 DEF Lists
<1>4. Lists(chain, {})
  BY ListsNothing DEF Init
<1>5. Lists(BufsOf(snapQ), {})
  <2>1. BufsOf(snapQ) \in Seq(Nat) /\ Len(BufsOf(snapQ)) = Len(snapQ)
    BY <1>1, QueueFacts DEF TInv
  <2>2. Len(snapQ) = 0
    BY EmptySeq DEF Init
  <2>3. BufsOf(snapQ) = <<>>
    BY <2>1, <2>2, EmptySeq
  <2> QED BY <2>3, ListsNothing
<1>6. HoldersAre(1 .. made, {}, {})
  BY <1>3, <1>4, <1>5 DEF HoldersAre
<1> QED BY <1>1, <1>2, <1>6 DEF HInv, Held

(* What MAIN takes from: new buffers first, if there are.                  *)
LEMMA FreeFacts ==
  ASSUME TInv, NEW F, Lists(sbufQ, F), F \subseteq 1 .. made
  PROVE  /\ More \in Nat /\ (More = 0 \/ More = StrbufAlloc)
         /\ Lists(Free, F \cup (made + 1 .. made + More))
         /\ Len(sbufQ) \in Nat /\ Len(Free) = More + Len(sbufQ)
<1>0. StrbufAlloc \in Nat /\ made \in Nat
  BY BuffersConstants DEF TInv
<1>1. PICK m \in Nat : m = More /\ (m = 0 \/ m = StrbufAlloc)
  BY <1>0 DEF More
<1> DEFINE t == [i \in 1 .. m |-> made + i]
           T == made + 1 .. made + m
<1>2. t \in [1 .. m -> T] /\ \A i \in 1 .. m : t[i] = made + i
  BY <1>0
<1>3. \A b \in T : \E i \in 1 .. m : made + i = b
  <2> SUFFICES ASSUME NEW b \in T PROVE \E i \in 1 .. m : made + i = b
    OBVIOUS
  <2>1. b - made \in 1 .. m /\ made + (b - made) = b
    BY <1>0
  <2> QED BY <2>1
<1>4. \A i, j \in 1 .. m : made + i = made + j => i = j
  BY <1>0
<1>5. F \cap T = {}
  BY <1>0
<1> HIDE DEF t, T
<1>6. t \in Seq(T) /\ Len(t) = m
  BY <1>2, SegmentIsSeq
<1>7. Lists(t, T)
  BY <1>2, <1>3, <1>4, <1>6 DEF Lists
<1>8. T \cap F = {}
  BY <1>5
<1>9. Lists(t \o sbufQ, T \cup F)
  BY <1>7, <1>8, ListsConcat
<1>10. Free = t \o sbufQ
  BY <1>1 DEF Free, t
<1>11. T \cup F = F \cup (made + 1 .. made + More)
  BY <1>1 DEF T
<1>12. Len(sbufQ) \in Nat
  BY ListFacts
<1>13. Len(t \o sbufQ) = m + Len(sbufQ)
  <2>1. t \in Seq(T \cup F) /\ sbufQ \in Seq(T \cup F)
    BY <1>6, ListFacts, SeqMonotonic
  <2>2. Len(t \o sbufQ) = Len(t) + Len(sbufQ)
    BY <2>1, ConcatProperties
  <2> QED BY <1>6, <2>2
<1> QED BY <1>1, <1>9, <1>10, <1>11, <1>12, <1>13

(* MAIN takes two of them.                                                 *)
LEMMA TakenFacts ==
  ASSUME TInv, NEW F, NEW R, NEW K, HoldersAre(F, R, K), at = "idle", RingInv, Len(Free) >= 2
  PROVE  \E G : /\ Lists(Rest(Free), G) /\ C \in 1 .. made + More /\ E \in 1 .. made + More
                /\ C # E /\ C \notin G /\ E \notin G /\ G \cap K = {} /\ C \notin K /\ E \notin K
                /\ G \cup {C, E} \cup K = 1 .. made + More
                /\ Lists(<<C, E>>, {C, E}) /\ Len(<<C, E>>) = 2 /\ More \in Nat
<1>0. made \in Nat
  BY DEF TInv
<1>1. R = {}
  <2>1. chain = <<>>
    BY DEF RingInv
  <2>2. Len(chain) = 0
    BY <2>1, EmptySeq
  <2>3. \A b \in R : \E i \in 1 .. 0 : chain[i] = b
    BY <2>2 DEF HoldersAre, Lists
  <2> QED BY <2>3
<1>2. /\ F \subseteq 1 .. made /\ K \subseteq 1 .. made /\ F \cap K = {} /\ F \cup K = 1 .. made
      /\ Lists(sbufQ, F)
  BY <1>1 DEF HoldersAre
<1>3. PICK m \in Nat : m = More
  BY <1>2, FreeFacts
<1> DEFINE A == F \cup (made + 1 .. made + m)
<1>4. Lists(Free, A)
  BY <1>2, <1>3, FreeFacts
<1>5. A \cap K = {} /\ A \cup K = 1 .. made + m
  BY <1>0, <1>2
<1> HIDE DEF A
<1>6. PICK x, y : x = C /\ y = E
  OBVIOUS
<1>7. Lists(Rest(Free), A \ {x, y}) /\ x \in A /\ y \in A /\ x # y
  BY <1>4, <1>6, ListsRest DEF C, E
<1>8. Lists(<<x, y>>, {x, y}) /\ Len(<<x, y>>) = 2
  <2>1. Len(<<x, y>>) = 2
    OBVIOUS
  <2> QED BY <1>7, <2>1, ListsPair
<1> DEFINE G == A \ {x, y}
<1>9. /\ x \in 1 .. made + m /\ y \in 1 .. made + m /\ x \notin G /\ y \notin G
      /\ G \cap K = {} /\ x \notin K /\ y \notin K /\ G \cup {x, y} \cup K = 1 .. made + m
  BY <1>5, <1>7
<1> QED BY <1>3, <1>6, <1>7, <1>8, <1>9

(* A ring that is released lists what it did.                              *)
LEMMA ListsReleased ==
  ASSUME NEW s, NEW S, Lists(s, S), s # <<>>
  PROVE  Lists(Released(s), S)
<1>1. Lists(Tail(s), S \ {s[1]}) /\ s[1] \in S /\ Head(s) = s[1]
  BY ListsTail
<1>2. Lists(<<s[1]>>, {s[1]})
  BY ListsOne
<1>3. Lists(Tail(s) \o <<s[1]>>, (S \ {s[1]}) \cup {s[1]})
  <2>1. (S \ {s[1]}) \cap {s[1]} = {}
    OBVIOUS
  <2> QED BY <1>1, <1>2, <2>1, ListsConcat
<1>4. (S \ {s[1]}) \cup {s[1]} = S
  BY <1>1
<1> QED BY <1>1, <1>3, <1>4 DEF Released

(* When too few are free, none are new.                                    *)
LEMMA CrashIsSame ==
  ASSUME HInv, Len(Free) < 2
  PROVE  More = 0 /\ made + More = made
<1>1. PICK F, R, K : HoldersAre(F, R, K)
  BY DEF HInv, Held
<1>2. Lists(sbufQ, F) /\ F \subseteq 1 .. made /\ TInv
  BY <1>1 DEF HoldersAre, HInv
<1>3. PICK m \in Nat, n \in Nat : m = More /\ (m = 0 \/ m = StrbufAlloc) /\ Len(Free) = m + n
  BY <1>2, FreeFacts
<1>4. StrbufAlloc \in Nat /\ StrbufAlloc >= 2 /\ made \in Nat
  BY <1>2, BuffersConstants DEF TInv
<1> QED BY <1>3, <1>4

(* Nothing that holds a buffer is touched.                                 *)
LEMMA HeldSame ==
  ASSUME Held, sbufQ' = sbufQ, chain' = chain, made' = made, BufsOf(snapQ)' = BufsOf(snapQ)
  PROVE  Held'
<1>1. PICK F, R, K : HoldersAre(F, R, K)
  BY DEF Held
<1>2. HoldersAre(F, R, K)'
  BY <1>1 DEF HoldersAre
<1> QED BY <1>2 DEF Held

(* MAIN takes two buffers and passes them on.                              *)
LEMMA HForward ==
  ASSUME HInv, NEW kind \in Kind, MainForward(kind)
  PROVE  RingInv' /\ Held'
<1>0. kind # "own" /\ Takes(kind)
  BY DEF MainForward
<1>1. CASE Crashes
  <2>1. made' = made
    <3>1. made' = made + More /\ Len(Free) < 2
      BY <1>0, <1>1 DEF Takes, Crashes
    <3> QED BY <3>1, CrashIsSame
  <2>2. sbufQ' = sbufQ /\ chain' = chain /\ snapQ' = snapQ /\ at' = at
    BY <1>1 DEF Crashes
  <2>3. Held'
    BY <2>1, <2>2, HeldSame DEF HInv
  <2>4. RingInv'
    BY <2>2 DEF HInv, RingInv
  <2> QED BY <2>3, <2>4
<1>2. CASE /\ Len(Free) >= 2 /\ sbufQ' = Rest(Free) /\ chain' = <<C, E>>
           /\ at' = (IF kind = "reader" THEN "READER" ELSE "WRITER") /\ snapQ' = snapQ
  <2>1. PICK F, R, K : HoldersAre(F, R, K)
    BY DEF HInv, Held
  <2>2. at = "idle" /\ made' = made + More /\ TInv /\ RingInv
    BY <1>0 DEF Takes, HInv
  <2>c. PICK c, e : c = C /\ e = E
    OBVIOUS
  <2>3. PICK G : /\ Lists(Rest(Free), G) /\ c \notin G /\ e \notin G /\ G \cap K = {}
                 /\ c \notin K /\ e \notin K /\ G \cup {c, e} \cup K = 1 .. made + More
                 /\ Lists(<<c, e>>, {c, e}) /\ Len(<<c, e>>) = 2
    BY <1>2, <2>1, <2>2, <2>c, TakenFacts
  <2>4. /\ sbufQ' = Rest(Free) /\ chain' = <<c, e>> /\ snapQ' = snapQ
        /\ G \cup {c, e} \cup K = 1 .. made'
    BY <1>2, <2>2, <2>3, <2>c
  <2>5. HoldersAre(G, {c, e}, K)'
    <3>1. Lists(sbufQ', G) /\ Lists(chain', {c, e})
      BY <2>3, <2>4
    <3>2. Lists(BufsOf(snapQ'), K)
      BY <2>1, <2>4 DEF HoldersAre
    <3>3. G \cap {c, e} = {} /\ G \cap K = {} /\ {c, e} \cap K = {}
      BY <2>3
    <3> QED BY <2>4, <3>1, <3>2, <3>3 DEF HoldersAre
  <2>6. Held'
    BY <2>5 DEF Held
  <2>7. RingInv'
    BY <1>2, <2>3, <2>4 DEF RingInv
  <2> QED BY <2>6, <2>7
<1> QED BY <1>1, <1>2 DEF MainForward

(* MAIN answers by itself.                                                 *)
LEMMA HMainAnswer ==
  ASSUME HInv, MainAnswer
  PROVE  RingInv' /\ Held'
<1>0. Takes("own")
  BY DEF MainAnswer
<1>1. CASE Crashes
  <2>1. made' = made
    <3>1. made' = made + More /\ Len(Free) < 2
      BY <1>0, <1>1 DEF Takes, Crashes
    <3> QED BY <3>1, CrashIsSame
  <2>2. sbufQ' = sbufQ /\ chain' = chain /\ snapQ' = snapQ /\ at' = at
    BY <1>1 DEF Crashes
  <2>3. Held'
    BY <2>1, <2>2, HeldSame DEF HInv
  <2>4. RingInv'
    BY <2>2 DEF HInv, RingInv
  <2> QED BY <2>3, <2>4
<1>2. CASE /\ Len(Free) >= 2 /\ sbufQ' = Rest(Free) \o Released(<<C, E>>)
           /\ at' = at /\ chain' = chain /\ snapQ' = snapQ
  <2>1. PICK F, R, K : HoldersAre(F, R, K)
    BY DEF HInv, Held
  <2>2. at = "idle" /\ made' = made + More /\ TInv /\ RingInv
    BY <1>0 DEF Takes, HInv
  <2>c. PICK c, e : c = C /\ e = E
    OBVIOUS
  <2>3. PICK G : /\ Lists(Rest(Free), G) /\ c \notin G /\ e \notin G /\ G \cap K = {}
                 /\ c \notin K /\ e \notin K /\ G \cup {c, e} \cup K = 1 .. made + More
                 /\ Lists(<<c, e>>, {c, e}) /\ Len(<<c, e>>) = 2
    BY <1>2, <2>1, <2>2, <2>c, TakenFacts
  <2>4. PICK s : s = <<c, e>> /\ s # <<>>
    <3>1. <<c, e>> # <<>>
      OBVIOUS
    <3> QED BY <3>1
  <2>5. Lists(Released(s), {c, e})
    BY <2>3, <2>4, ListsReleased
  <2>6. /\ sbufQ' = Rest(Free) \o Released(s) /\ chain' = chain /\ snapQ' = snapQ
        /\ G \cup {c, e} \cup K = 1 .. made'
    BY <1>2, <2>2, <2>3, <2>4, <2>c
  <2>7. Lists(Rest(Free) \o Released(s), G \cup {c, e})
    <3>1. G \cap {c, e} = {}
      BY <2>3
    <3> QED BY <2>3, <2>5, <3>1, ListsConcat
  <2>8. chain = <<>>
    BY <2>2 DEF RingInv
  <2>9. HoldersAre(G \cup {c, e}, {}, K)'
    <3>1. Lists(sbufQ', G \cup {c, e})
      BY <2>6, <2>7
    <3>2. Lists(chain', {})
      BY <2>6, <2>8, ListsNothing
    <3>3. Lists(BufsOf(snapQ'), K)
      BY <2>1, <2>6 DEF HoldersAre
    <3>4. (G \cup {c, e}) \cap K = {} /\ (G \cup {c, e}) \cup {} \cup K = 1 .. made'
      BY <2>3, <2>6
    <3> QED BY <3>1, <3>2, <3>3, <3>4 DEF HoldersAre
  <2>10. Held'
    BY <2>9 DEF Held
  <2>11. RingInv'
    BY <1>2, <2>2 DEF RingInv
  <2> QED BY <2>10, <2>11
<1> QED BY <1>1, <1>2 DEF MainAnswer

(* MAIN gives the buffers of the reply back.                               *)
LEMMA HReply ==
  ASSUME HInv, MainReply
  PROVE  RingInv' /\ Held'
<1>1. PICK F, R, K : HoldersAre(F, R, K)
  BY DEF HInv, Held
<1>2. /\ at = "reply" /\ at' = "idle" /\ sbufQ' = sbufQ \o Released(chain) /\ chain' = <<>>
      /\ made' = made /\ snapQ' = snapQ
  BY DEF MainReply, ReleaseStrbuf
<1>3. chain # <<>>
  <2>1. Len(chain) >= 1
    BY <1>2 DEF HInv, RingInv
  <2>2. Len(<<>>) = 0
    OBVIOUS
  <2> QED BY <2>1, <2>2
<1>4. Lists(Released(chain), R)
  BY <1>1, <1>3, ListsReleased DEF HoldersAre
<1>5. Lists(sbufQ \o Released(chain), F \cup R)
  <2>1. F \cap R = {} /\ Lists(sbufQ, F)
    BY <1>1 DEF HoldersAre
  <2> QED BY <1>4, <2>1, ListsConcat
<1>6. HoldersAre(F \cup R, {}, K)'
  <2>1. Lists(sbufQ', F \cup R)
    BY <1>2, <1>5
  <2>2. Lists(chain', {})
    BY <1>2, ListsNothing
  <2>3. Lists(BufsOf(snapQ'), K) /\ made' = made
    BY <1>1, <1>2 DEF HoldersAre
  <2>4. (F \cup R) \cap K = {} /\ (F \cup R) \cup {} \cup K = 1 .. made
    BY <1>1 DEF HoldersAre
  <2> QED BY <2>1, <2>2, <2>3, <2>4 DEF HoldersAre
<1>7. RingInv'
  BY <1>2 DEF RingInv
<1> QED BY <1>6, <1>7 DEF Held

(* READER or WRITER puts its answer first.                                 *)
LEMMA HAnswer ==
  ASSUME HInv, Answer
  PROVE  RingInv' /\ Held'
<1>1. PICK F, R, K : HoldersAre(F, R, K)
  BY DEF HInv, Held
<1>2. /\ at \in {"READER", "WRITER"} /\ at' = "reply" /\ chain' = Reverse(chain)
      /\ sbufQ' = sbufQ /\ made' = made /\ snapQ' = snapQ
  BY DEF Answer, Replies, strbufVars
<1>3. Lists(Reverse(chain), R) /\ Len(Reverse(chain)) = Len(chain)
  BY <1>1, ListsReverse DEF HoldersAre
<1>4. HoldersAre(F, R, K)'
  <2>1. Lists(chain', R)
    BY <1>2, <1>3
  <2>2. Lists(sbufQ', F) /\ Lists(BufsOf(snapQ'), K)
    BY <1>1, <1>2 DEF HoldersAre
  <2>3. F \cap R = {} /\ F \cap K = {} /\ R \cap K = {} /\ F \cup R \cup K = 1 .. made'
    BY <1>1, <1>2 DEF HoldersAre
  <2> QED BY <2>1, <2>2, <2>3 DEF HoldersAre
<1>5. RingInv'
  <2>1. Len(chain') = 2
    BY <1>2, <1>3 DEF HInv, RingInv
  <2> QED BY <1>2, <2>1 DEF RingInv
<1> QED BY <1>4, <1>5 DEF Held

(* The two of a command that a thread has.                                 *)
LEMMA ChainFacts ==
  ASSUME NEW F, NEW R, NEW K, HoldersAre(F, R, K), RingInv, at \in {"READER", "WRITER"}
  PROVE  /\ Len(chain) = 2 /\ chain # <<>> /\ chain[1] \in R /\ chain[2] \in R
         /\ chain[1] # chain[2] /\ R = {chain[1], chain[2]}
<1>1. Len(chain) = 2 /\ Lists(chain, R)
  BY DEF RingInv, HoldersAre
<1>2. chain # <<>>
  <2>1. Len(<<>>) = 0
    OBVIOUS
  <2> QED BY <1>1, <2>1
<1>3. 1 .. Len(chain) = {1, 2}
  BY <1>1
<1>4. chain[1] \in R /\ chain[2] \in R
  BY <1>1, <1>3, ListFacts
<1>5. chain[1] # chain[2] /\ \A b \in R : b = chain[1] \/ b = chain[2]
  BY <1>1, <1>3 DEF Lists
<1> QED BY <1>1, <1>2, <1>4, <1>5

(* The snapshot that a Snap makes.                                         *)
LEMMA NewSnapFacts ==
  ASSUME TInv, NEW F, NEW R, NEW K, HoldersAre(F, R, K), RingInv, at = "WRITER",
         NEW size \in FileChunks
  PROVE  /\ NewSnap(size) \in SnapRec /\ [NewSnap(size) EXCEPT !.state = "over"] \in SnapRec
         /\ NewSnap(size).buf = chain[1] /\ [NewSnap(size) EXCEPT !.state = "over"].buf = chain[1]
         /\ NewSnap(size).number = Number /\ [NewSnap(size) EXCEPT !.state = "over"].number = Number
         /\ Number \in 0 .. MaxAsk
<1>1. chain[1] \in Nat
  <2>1. chain[1] \in R /\ R \subseteq 1 .. made /\ made \in Nat
    BY ChainFacts DEF HoldersAre, TInv
  <2>2. \A b \in 1 .. made : b \in Nat
    BY <2>1
  <2> QED BY <2>1, <2>2, Zenon
<1>2. Number \in 0 .. MaxAsk
  BY DEF Number, TInv
<1>3. 0 \in 0 .. MaxOut
  BY BuffersConstants
<1> QED BY <1>1, <1>2, <1>3 DEF NewSnap, SnapRec

(* Snap keeps one buffer of its own.                                       *)
LEMMA HSnap ==
  ASSUME HInv, NEW size \in FileChunks, WriterSnap(size)
  PROVE  RingInv' /\ Held' /\ snapQ' \in Seq(SnapRec)
<1>1. PICK F, R, K : HoldersAre(F, R, K)
  BY DEF HInv, Held
<1>2. at = "WRITER" /\ at' = "reply" /\ chain' = Tail(chain) /\ sbufQ' = sbufQ /\ made' = made
  BY DEF WriterSnap, SnapReply, Replies, strbufVars
<1>3. PICK s \in SnapRec : snapQ' = <<s>> \o snapQ /\ s.buf = chain[1]
  <2>1. \/ snapQ' = <<NewSnap(size)>> \o snapQ
        \/ snapQ' = <<[NewSnap(size) EXCEPT !.state = "over"]>> \o snapQ
    BY DEF WriterSnap
  <2>2. TInv /\ RingInv
    BY DEF HInv
  <2>3. /\ NewSnap(size) \in SnapRec /\ [NewSnap(size) EXCEPT !.state = "over"] \in SnapRec
        /\ NewSnap(size).buf = chain[1] /\ [NewSnap(size) EXCEPT !.state = "over"].buf = chain[1]
    BY <1>1, <1>2, <2>2, NewSnapFacts
  <2> QED BY <2>1, <2>3
<1>4. PICK c : c = chain[1]
  OBVIOUS
<1>5. c \in R /\ Len(chain) = 2 /\ chain # <<>>
  BY <1>1, <1>2, <1>4, ChainFacts DEF HInv
<1>6. snapQ \in Seq(SnapRec) /\ c \notin K /\ Lists(BufsOf(snapQ), K)
  BY <1>1, <1>5 DEF HInv, TInv, HoldersAre
<1>7. Lists(BufsOf(snapQ'), K \cup {c})
  BY <1>3, <1>4, <1>6, BufsAdd
<1>8. Lists(chain', R \ {c}) /\ Len(chain') = 1
  <2>1. Lists(chain, R)
    BY <1>1 DEF HoldersAre
  <2>2. Lists(Tail(chain), R \ {chain[1]}) /\ Len(Tail(chain)) = Len(chain) - 1
    BY <1>5, <2>1, ListsTail
  <2> QED BY <1>2, <1>4, <1>5, <2>2
<1>9. HoldersAre(F, R \ {c}, K \cup {c})'
  <2>1. Lists(sbufQ', F)
    BY <1>1, <1>2 DEF HoldersAre
  <2>2. /\ F \cap (R \ {c}) = {} /\ F \cap (K \cup {c}) = {} /\ (R \ {c}) \cap (K \cup {c}) = {}
        /\ F \cup (R \ {c}) \cup (K \cup {c}) = 1 .. made'
    BY <1>1, <1>2, <1>5 DEF HoldersAre
  <2> QED BY <1>7, <1>8, <2>1, <2>2 DEF HoldersAre
<1>10. RingInv'
  BY <1>2, <1>8 DEF RingInv
<1>11. snapQ' \in Seq(SnapRec)
  BY <1>3, <1>6, QueueAdds
<1> QED BY <1>9, <1>10, <1>11 DEF Held

(* The snapshots that a Ztatus drops, and what it does with their buffers. *)
OverAmong(looked) == {i \in DOMAIN snapQ : snapQ[i].number \in looked /\ Over(snapQ[i])}

(* Ztatus moves the buffers of the snapshots that are over into the reply. *)
LEMMA ZtatusEffect ==
  ASSUME HInv, NEW looked, WriterZtatus(looked), NEW F, NEW R, NEW K, HoldersAre(F, R, K)
  PROVE  /\ RingInv' /\ Held' /\ snapQ' \in Seq(SnapRec)
         /\ snapQ' = Picked(snapQ, DOMAIN snapQ \ OverAmong(looked))
         /\ Lists(chain', R \cup {snapQ[i].buf : i \in OverAmong(looked)})
<1> DEFINE asked == {i \in DOMAIN snapQ : snapQ[i].number \in looked}
           over == {i \in asked : Over(snapQ[i])}
           new == Picked(snapQ, over)
<1>2. /\ at = "WRITER" /\ at' = "reply" /\ sbufQ' = sbufQ /\ made' = made
      /\ chain' = Reverse(chain) \o Reverse(BufsOf(new))
      /\ snapQ' = Picked(snapQ, DOMAIN snapQ \ over)
  BY DEF WriterZtatus, Replies, strbufVars, Linked, BufsOf
<1>3. over \in SUBSET DOMAIN snapQ /\ DOMAIN snapQ \ over \in SUBSET DOMAIN snapQ
  OBVIOUS
<1> HIDE DEF over, new
<1>4. snapQ \in Seq(SnapRec) /\ Lists(BufsOf(snapQ), K)
  BY DEF HInv, TInv, HoldersAre
<1>p. PICK N, L : N = {snapQ[i].buf : i \in over} /\ L = {snapQ[i].buf : i \in DOMAIN snapQ \ over}
  OBVIOUS
<1>5. Lists(BufsOf(new), N) /\ Lists(BufsOf(snapQ'), L) /\ snapQ' \in Seq(SnapRec)
  <2>1. Lists(BufsOf(Picked(snapQ, over)), N)
    BY <1>p, <1>3, <1>4, BufsPicked
  <2>2. Lists(BufsOf(Picked(snapQ, DOMAIN snapQ \ over)), L)
    BY <1>p, <1>3, <1>4, BufsPicked
  <2>3. Picked(snapQ, DOMAIN snapQ \ over) \in Seq(SnapRec)
    BY <1>3, <1>4, QueuePicked
  <2> QED BY <1>2, <2>1, <2>2, <2>3 DEF new
<1>6. N \cap L = {} /\ N \cup L = K
  <2>1. PICK n \in Nat : n = Len(snapQ) /\ DOMAIN snapQ = 1 .. n
    BY <1>4, QueueFacts
  <2>2. Len(BufsOf(snapQ)) = n /\ \A i \in 1 .. n : BufsOf(snapQ)[i] = snapQ[i].buf
    BY <1>4, <2>1, QueueFacts
  <2>3. \A i, j \in 1 .. n : snapQ[i].buf = snapQ[j].buf => i = j
    BY <1>4, <2>2 DEF Lists
  <2>4. \A b \in K : \E i \in 1 .. n : snapQ[i].buf = b
    BY <1>4, <2>2 DEF Lists
  <2>5. \A i \in 1 .. n : snapQ[i].buf \in K
    BY <1>4, <2>2, ListFacts
  <2>6. N \cap L = {}
    BY <1>p, <1>3, <2>1, <2>3
  <2>7. N \cup L \subseteq K
    BY <1>p, <1>3, <2>1, <2>5
  <2>8. K \subseteq N \cup L
    BY <1>p, <2>1, <2>4
  <2> QED BY <2>6, <2>7, <2>8
<1>7. Lists(Reverse(chain), R) /\ Len(Reverse(chain)) = 2
  <2>1. Lists(chain, R) /\ Len(chain) = 2
    BY <1>2 DEF HInv, RingInv, HoldersAre
  <2> QED BY <2>1, ListsReverse
<1>8. Lists(Reverse(BufsOf(new)), N)
  BY <1>5, ListsReverse
<1>9. R \cap N = {}
  BY <1>6 DEF HoldersAre
<1>10. Lists(chain', R \cup N)
  BY <1>2, <1>7, <1>8, <1>9, ListsConcat
<1>11. Len(chain') >= 2
  <2>1. PICK s, t : s = Reverse(chain) /\ t = Reverse(BufsOf(new))
    OBVIOUS
  <2>2. s \in Seq(R \cup N) /\ t \in Seq(R \cup N)
    BY <1>7, <1>8, <2>1, ListFacts, SeqMonotonic
  <2>3. Len(s \o t) = Len(s) + Len(t) /\ Len(t) \in Nat
    BY <2>2, ConcatProperties, LenProperties
  <2>4. Len(s) = 2 /\ chain' = s \o t
    BY <1>2, <1>7, <2>1
  <2> QED BY <2>3, <2>4
<1>12. HoldersAre(F, R \cup N, L)'
  <2>1. Lists(sbufQ', F)
    BY <1>2 DEF HoldersAre
  <2>2. /\ F \cap (R \cup N) = {} /\ F \cap L = {} /\ (R \cup N) \cap L = {}
        /\ F \cup (R \cup N) \cup L = 1 .. made'
    BY <1>2, <1>6 DEF HoldersAre
  <2> QED BY <1>5, <1>10, <2>1, <2>2 DEF HoldersAre
<1>13. RingInv'
  BY <1>2, <1>11 DEF RingInv
<1>14. over = OverAmong(looked)
  BY DEF over, OverAmong
<1> QED BY <1>2, <1>5, <1>10, <1>12, <1>13, <1>14, <1>p DEF Held

(* So each is still with one holder.                                       *)
LEMMA HZtatus ==
  ASSUME HInv, NEW looked, WriterZtatus(looked)
  PROVE  RingInv' /\ Held' /\ snapQ' \in Seq(SnapRec)
<1>1. PICK F, R, K : HoldersAre(F, R, K)
  BY DEF HInv, Held
<1> QED BY <1>1, ZtatusEffect

(* What becomes of a snapshot in progress: nothing but its status and the  *)
(* number of chunks that are out.                                          *)
LEMMA InProgress ==
  ASSUME TInv, NEW i \in DOMAIN snapQ,
         WriterSends(i) \/ ReaderReturns(i) \/ FileEnds(i) \/ NextFile(i) \/ WriterMapFails(i)
  PROVE  /\ \/ UNCHANGED snapQ
            \/ \E s \in SnapRec : /\ snapQ' = [snapQ EXCEPT ![i] = s] /\ s.buf = snapQ[i].buf
                                  /\ s.number = snapQ[i].number /\ s.size = snapQ[i].size
         /\ UNCHANGED <<strbufVars, mainVars>>
<1>1. snapQ[i] \in SnapRec
  BY QueueFacts DEF TInv
<1>2. PICK r \in SnapRec : r = snapQ[i]
  BY <1>1
<1>3. r.out \in 0 .. MaxOut /\ MaxOut \in Nat
  BY BuffersConstants DEF SnapRec
<1>4. CASE WriterSends(i)
  <2>1. r.out < MaxOut /\ snapQ' = [snapQ EXCEPT ![i] = [r EXCEPT !.out = r.out + 1]]
    BY <1>2, <1>4 DEF WriterSends, Becomes
  <2>2. r.out + 1 \in 0 .. MaxOut
    BY <1>3, <2>1
  <2>3. [r EXCEPT !.out = r.out + 1] \in SnapRec /\ [r EXCEPT !.out = r.out + 1].buf = r.buf
        /\ [r EXCEPT !.out = r.out + 1].number = r.number /\ [r EXCEPT !.out = r.out + 1].size = r.size
    BY <2>2 DEF SnapRec
  <2>4. UNCHANGED <<strbufVars, mainVars>>
    BY <1>4 DEF WriterSends, asideSnaps
  <2> QED BY <1>2, <2>1, <2>3, <2>4
<1>5. CASE ReaderReturns(i)
  <2>1. r.out > 0 /\ snapQ' = [snapQ EXCEPT ![i] = [r EXCEPT !.out = r.out - 1]]
    BY <1>2, <1>5 DEF ReaderReturns, Becomes
  <2>2. r.out - 1 \in 0 .. MaxOut
    BY <1>3, <2>1
  <2>3. [r EXCEPT !.out = r.out - 1] \in SnapRec /\ [r EXCEPT !.out = r.out - 1].buf = r.buf
        /\ [r EXCEPT !.out = r.out - 1].number = r.number /\ [r EXCEPT !.out = r.out - 1].size = r.size
    BY <2>2 DEF SnapRec
  <2>4. UNCHANGED <<strbufVars, mainVars>>
    BY <1>5 DEF ReaderReturns, asideSnaps
  <2> QED BY <1>2, <2>1, <2>3, <2>4
<1>6. [r EXCEPT !.state = "over"] \in SnapRec /\ [r EXCEPT !.state = "over"].buf = r.buf
      /\ [r EXCEPT !.state = "over"].number = r.number /\ [r EXCEPT !.state = "over"].size = r.size
  BY DEF SnapRec
<1>7. CASE FileEnds(i)
  <2>1. snapQ' = [snapQ EXCEPT ![i] = [r EXCEPT !.state = "over"]] /\ UNCHANGED <<strbufVars, mainVars>>
    BY <1>2, <1>7 DEF FileEnds, Becomes, asideSnaps
  <2> QED BY <1>2, <1>6, <2>1
<1>8. CASE NextFile(i)
  <2>1. UNCHANGED snapQ \/ snapQ' = [snapQ EXCEPT ![i] = [r EXCEPT !.state = "over"]]
    BY <1>2, <1>8 DEF NextFile, Becomes
  <2>2. UNCHANGED <<strbufVars, mainVars>>
    BY <1>8 DEF NextFile, asideSnaps
  <2> QED BY <1>2, <1>6, <2>1, <2>2
<1>9. CASE WriterMapFails(i)
  <2>1. snapQ' = [snapQ EXCEPT ![i] = [r EXCEPT !.state = "over", !.out = 0]]
        /\ UNCHANGED <<strbufVars, mainVars>>
    BY <1>2, <1>9 DEF WriterMapFails, Becomes, asideSnaps
  <2>2. [r EXCEPT !.state = "over", !.out = 0] \in SnapRec
        /\ [r EXCEPT !.state = "over", !.out = 0].buf = r.buf
        /\ [r EXCEPT !.state = "over", !.out = 0].number = r.number
        /\ [r EXCEPT !.state = "over", !.out = 0].size = r.size
    <3>1. 0 \in 0 .. MaxOut
      BY <1>3
    <3>2. PICK t \in SnapRec : t = [r EXCEPT !.state = "over"]
      BY <1>6
    <3>3. [t EXCEPT !.out = 0] = [r EXCEPT !.state = "over", !.out = 0]
      BY <3>2
    <3>4. [t EXCEPT !.out = 0] \in SnapRec /\ [t EXCEPT !.out = 0].buf = t.buf
          /\ [t EXCEPT !.out = 0].number = t.number /\ [t EXCEPT !.out = 0].size = t.size
      BY <3>1 DEF SnapRec
    <3> QED BY <1>6, <3>2, <3>3, <3>4
  <2> QED BY <1>2, <2>1, <2>2
<1> QED BY <1>4, <1>5, <1>7, <1>8, <1>9

(* A snapshot in progress keeps its buffer.                                *)
LEMMA HInProgress ==
  ASSUME HInv, NEW i \in DOMAIN snapQ,
         WriterSends(i) \/ ReaderReturns(i) \/ FileEnds(i) \/ NextFile(i) \/ WriterMapFails(i)
  PROVE  RingInv' /\ Held' /\ snapQ' \in Seq(SnapRec)
<1>1. TInv /\ snapQ \in Seq(SnapRec)
  BY DEF HInv, TInv
<1>2. UNCHANGED <<strbufVars, mainVars>>
  BY <1>1, InProgress
<1>3. \/ UNCHANGED snapQ
      \/ \E s \in SnapRec : snapQ' = [snapQ EXCEPT ![i] = s] /\ s.buf = snapQ[i].buf
  BY <1>1, InProgress
<1>4. BufsOf(snapQ') = BufsOf(snapQ) /\ snapQ' \in Seq(SnapRec)
  <2>1. CASE UNCHANGED snapQ
    BY <1>1, <2>1
  <2>2. CASE \E s \in SnapRec : snapQ' = [snapQ EXCEPT ![i] = s] /\ s.buf = snapQ[i].buf
    <3>1. PICK s \in SnapRec : snapQ' = [snapQ EXCEPT ![i] = s] /\ s.buf = snapQ[i].buf
      BY <2>2
    <3> QED BY <1>1, <3>1, QueueChanges
  <2> QED BY <1>3, <2>1, <2>2
<1>5. Held'
  <2>1. sbufQ' = sbufQ /\ chain' = chain /\ made' = made
    BY <1>2 DEF strbufVars, mainVars
  <2> QED BY <1>4, <2>1, HeldSame DEF HInv
<1>6. RingInv'
  BY <1>2 DEF HInv, RingInv, mainVars
<1> QED BY <1>4, <1>5, <1>6

(* A late chunk moves no buffer.                                           *)
LEMMA HLost ==
  ASSUME HInv, ReaderReturnsLost
  PROVE  RingInv' /\ Held' /\ snapQ' \in Seq(SnapRec)
<1>1. UNCHANGED <<strbufVars, mainVars, snapQ>>
  BY DEF ReaderReturnsLost, asideSnaps
<1>2. Held'
  BY <1>1, HeldSame DEF HInv, strbufVars, mainVars
<1>3. RingInv'
  BY <1>1 DEF HInv, RingInv, mainVars
<1> QED BY <1>1, <1>2, <1>3 DEF HInv, TInv

-----------------------------------------------------------------------------
(* What alloc_chunk leaves.                                                *)
LEMMA AllocFacts ==
  ASSUME NEW free \in Nat, NEW counted \in Nat, NEW nr \in Nat, crashed = "no",
         AllocChunk(free, counted, nr)
  PROVE  chunkQ' \in Nat /\ N_in_chunkQ' \in Nat /\ crashed' \in {"no", "strbuf", "chunk", "file"}
<1>1. PICK batch \in Nat :
        /\ N_in_chunkQ' = counted + batch
        /\ IF free + batch >= nr THEN chunkQ' = free + batch - nr /\ crashed' = crashed
           ELSE chunkQ' = 0 /\ crashed' = "chunk"
  <2>1. ChunkAlloc \in Nat
    BY BuffersConstants
  <2> QED BY <2>1 DEF AllocChunk
<1>2. CASE free + batch >= nr
  BY <1>1, <1>2
<1>3. CASE ~(free + batch >= nr)
  BY <1>1, <1>3
<1> QED BY <1>2, <1>3

(* What TInv does not speak of.                                            *)
LEMMA TSame ==
  ASSUME TInv, UNCHANGED <<made, N_in_Q, cmd>>, at' \in {"idle", "READER", "WRITER", "reply"},
         shown' \subseteq 0 .. MaxAsk, snapQ' \in Seq(SnapRec), lost' \in Nat,
         chunkQ' \in Nat, N_in_chunkQ' \in Nat, crashed' \in {"no", "strbuf", "chunk", "file"}
  PROVE  TInv'
BY DEF TInv

(* The types of what MAIN changes.                                         *)
LEMMA TakesFacts ==
  ASSUME TInv, NEW kind \in Kind, Takes(kind)
  PROVE  /\ made' \in Nat /\ made' >= StrbufAlloc /\ More \in Nat /\ N_in_Q + More \in Nat
         /\ cmd' \in [number : 0 .. MaxAsk, kind : Kind] /\ cmd'.number = Number + 1
<1>1. More \in Nat /\ StrbufAlloc \in Nat /\ MaxAsk \in Nat
  BY BuffersConstants DEF More
<1>2. made \in Nat /\ made >= StrbufAlloc /\ N_in_Q \in Nat /\ made' = made + More
  BY DEF TInv, Takes
<1>3. Number \in 0 .. MaxAsk /\ Number < MaxAsk
  BY DEF TInv, Takes, Number
<1>4. Number + 1 \in 0 .. MaxAsk
  BY <1>1, <1>3
<1>5. cmd' = [number |-> Number + 1, kind |-> kind]
  BY DEF Takes
<1> QED BY <1>1, <1>2, <1>4, <1>5

(* Every step keeps the types.                                             *)
LEMMA NextTInv ==
  ASSUME HInv, Next
  PROVE  TInv'
<1>0. TInv
  BY DEF HInv
<1>1. ASSUME NEW kind \in Kind, MainForward(kind) PROVE TInv'
  <2>1. Takes(kind)
    BY <1>1 DEF MainForward
  <2>2. /\ made' \in Nat /\ made' >= StrbufAlloc /\ N_in_Q + More \in Nat
        /\ cmd' \in [number : 0 .. MaxAsk, kind : Kind]
    BY <1>0, <2>1, TakesFacts
  <2>3. N_in_Q' \in Nat /\ at' \in {"idle", "READER", "WRITER", "reply"}
    BY <1>0, <1>1, <2>2 DEF MainForward, Crashes, CountAfter, TInv
  <2>4. /\ UNCHANGED <<shown, snapQ, lost, chunkVars>> /\ crashed' \in {"no", "strbuf", "chunk", "file"}
    BY <1>0, <1>1 DEF MainForward, Crashes, TInv
  <2> QED BY <1>0, <2>2, <2>3, <2>4 DEF TInv, chunkVars
<1>2. CASE MainAnswer
  <2>1. Takes("own") /\ "own" \in Kind
    BY <1>2 DEF MainAnswer, Kind
  <2>2. /\ made' \in Nat /\ made' >= StrbufAlloc /\ N_in_Q + More \in Nat
        /\ cmd' \in [number : 0 .. MaxAsk, kind : Kind]
    BY <1>0, <2>1, TakesFacts
  <2>3. N_in_Q' \in Nat /\ at' \in {"idle", "READER", "WRITER", "reply"}
    BY <1>0, <1>2, <2>2 DEF MainAnswer, Crashes, CountAfter, TInv
  <2>4. /\ UNCHANGED <<shown, snapQ, lost, chunkVars>> /\ crashed' \in {"no", "strbuf", "chunk", "file"}
    BY <1>0, <1>2 DEF MainAnswer, Crashes, TInv
  <2> QED BY <1>0, <2>2, <2>3, <2>4 DEF TInv, chunkVars
<1>3. CASE MainReply
  <2>1. Len(chain) \in Nat
    BY ListFacts DEF HInv, Held, HoldersAre
  <2>2. N_in_Q' \in Nat
    BY <1>0, <1>3, <2>1 DEF MainReply, ReleaseStrbuf, TInv
  <2> QED BY <1>0, <1>3, <2>2 DEF MainReply, ReleaseStrbuf, TInv, chunkVars
<1>4. CASE Answer
  BY <1>0, <1>4 DEF Answer, Replies, TInv, strbufVars, chunkVars
<1>5. ASSUME NEW size \in FileChunks, WriterSnap(size) PROVE TInv'
  <2>1. snapQ' \in Seq(SnapRec)
    BY <1>5, HSnap
  <2>2. UNCHANGED <<strbufVars, cmd, shown, lost>> /\ at' = "reply" /\ crashed = "no"
    BY <1>5 DEF WriterSnap, Replies
  <2>3. chunkQ' \in Nat /\ N_in_chunkQ' \in Nat /\ crashed' \in {"no", "strbuf", "chunk", "file"}
    <3>1. chunkQ \in Nat /\ N_in_chunkQ \in Nat /\ size \in Nat
      BY <1>0, BuffersConstants DEF TInv
    <3>2. AllocChunk(chunkQ, N_in_chunkQ, size) \/ UNCHANGED <<chunkVars, crashed>>
      BY <1>5 DEF WriterSnap
    <3> QED BY <2>2, <3>1, <3>2, AllocFacts DEF chunkVars
  <2> QED BY <1>0, <2>1, <2>2, <2>3, TSame DEF TInv, strbufVars
<1>6. ASSUME NEW looked \in Looks, WriterZtatus(looked) PROVE TInv'
  <2>1. snapQ' \in Seq(SnapRec)
    BY <1>6, HZtatus
  <2>2. UNCHANGED <<strbufVars, cmd, lost, chunkVars, crashed>> /\ at' = "reply" /\ shown' = looked
    BY <1>6 DEF WriterZtatus, Replies
  <2>3. looked \subseteq 0 .. MaxAsk
    <3>1. \A i \in DOMAIN snapQ : snapQ[i].number \in 0 .. MaxAsk
      BY <1>0, QueueFacts DEF TInv, SnapRec
    <3> QED BY <3>1 DEF Looks
  <2> QED BY <1>0, <2>1, <2>2, <2>3, TSame DEF TInv, strbufVars, chunkVars
<1>7. ASSUME NEW i \in DOMAIN snapQ,
             WriterSends(i) \/ ReaderReturns(i) \/ FileEnds(i) \/ NextFile(i) \/ WriterMapFails(i)
      PROVE  TInv'
  <2>1. snapQ' \in Seq(SnapRec)
    BY <1>7, HInProgress
  <2>2. UNCHANGED <<strbufVars, mainVars>>
    BY <1>0, <1>7, InProgress
  <2>3. PICK z \in Nat, o \in Nat : z = snapQ[i].size /\ o = snapQ[i].out
    <3>1. snapQ[i] \in SnapRec
      BY <1>0, QueueFacts DEF TInv
    <3>2. snapQ[i].size \in FileChunks /\ snapQ[i].out \in 0 .. MaxOut
      BY <3>1 DEF SnapRec
    <3>3. FileChunks \subseteq Nat /\ MaxOut \in Nat
      BY BuffersConstants
    <3>5. \A x \in 0 .. MaxOut : x \in Nat
      BY <3>3
    <3>4. snapQ[i].size \in Nat /\ snapQ[i].out \in Nat
      BY <3>2, <3>3, <3>5, Zenon
    <3> QED BY <3>4
  <2>4. chunkQ \in Nat /\ N_in_chunkQ \in Nat /\ lost \in Nat /\ crashed \in {"no", "strbuf", "chunk", "file"}
        /\ chunkQ + z \in Nat /\ N_in_chunkQ + z \in Nat /\ lost + o \in Nat
    BY <1>0 DEF TInv
  <2>5. /\ chunkQ' \in Nat /\ N_in_chunkQ' \in Nat /\ lost' \in Nat
        /\ crashed' \in {"no", "strbuf", "chunk", "file"}
    <3>1. CASE WriterSends(i) \/ ReaderReturns(i)
      BY <2>4, <3>1 DEF WriterSends, ReaderReturns, chunkVars
    <3>2. CASE FileEnds(i) \/ WriterMapFails(i)
      BY <2>3, <2>4, <3>2 DEF FileEnds, WriterMapFails, ReleaseChunk, FreeAfter
    <3>3. CASE NextFile(i)
      <4>1. crashed = "no" /\ lost' = lost
        BY <3>3 DEF NextFile, Active
      <4>2. CASE AllocChunk(chunkQ + z, N_in_chunkQ + z, z)
        BY <2>3, <2>4, <4>1, <4>2, AllocFacts
      <4>3. CASE ReleaseChunk(z) /\ crashed' = crashed
        BY <2>4, <4>1, <4>3 DEF ReleaseChunk, FreeAfter
      <4> QED BY <2>3, <3>3, <4>2, <4>3 DEF NextFile, FreeAfter
    <3> QED BY <1>7, <3>1, <3>2, <3>3
  <2> QED BY <1>0, <2>1, <2>2, <2>5, TSame DEF TInv, strbufVars, mainVars
<1>8. CASE ReaderReturnsLost
  <2>1. lost' \in Nat
    BY <1>0, <1>8 DEF ReaderReturnsLost, TInv
  <2>2. /\ UNCHANGED <<strbufVars, mainVars, snapQ, chunkVars>>
        /\ crashed' \in {"no", "strbuf", "chunk", "file"}
    BY <1>8 DEF ReaderReturnsLost, asideSnaps
  <2> QED BY <1>0, <2>1, <2>2 DEF TInv, strbufVars, mainVars, chunkVars
<1> QED BY <1>1, <1>2, <1>3, <1>4, <1>5, <1>6, <1>7, <1>8 DEF Next

(* Every step keeps the invariant.                                         *)
LEMMA NextHInv ==
  ASSUME HInv, [Next]_vars
  PROVE  HInv'
<1>1. CASE Next
  <2>1. TInv'
    BY <1>1, NextTInv
  <2>2. RingInv' /\ Held'
    BY <1>1, HForward, HMainAnswer, HReply, HAnswer, HSnap, HZtatus, HInProgress, HLost DEF Next
  <2> QED BY <2>1, <2>2 DEF HInv
<1>2. CASE UNCHANGED vars
  <2>1. Held'
    BY <1>2, HeldSame DEF HInv, vars, strbufVars, mainVars
  <2>2. RingInv' /\ TInv'
    BY <1>2 DEF HInv, vars, RingInv, TInv, strbufVars, mainVars, chunkVars
  <2> QED BY <2>1, <2>2 DEF HInv
<1> QED BY <1>1, <1>2

(* The three lists one after the other are what OneHolder counts.          *)
LEMMA HeldOnce == HInv => OneHolder
<1> SUFFICES ASSUME HInv PROVE OneHolder
  OBVIOUS
<1>1. PICK F, R, K : HoldersAre(F, R, K)
  BY DEF HInv, Held
<1>2. F \cap R = {} /\ (F \cup R) \cap K = {} /\ (F \cup R) \cup K = 1 .. made
  BY <1>1 DEF HoldersAre
<1>3. Lists(sbufQ \o chain, F \cup R)
  BY <1>1, <1>2, ListsConcat DEF HoldersAre
<1>4. Lists((sbufQ \o chain) \o BufsOf(snapQ), 1 .. made)
  <2>1. Lists(BufsOf(snapQ), K)
    BY <1>1 DEF HoldersAre
  <2>2. Lists((sbufQ \o chain) \o BufsOf(snapQ), (F \cup R) \cup K)
    BY <1>2, <1>3, <2>1, ListsConcat
  <2> QED BY <1>2, <2>2
<1>5. made \in Nat
  BY DEF HInv, TInv
<1>6. PICK w : w = (sbufQ \o chain) \o BufsOf(snapQ)
  OBVIOUS
<1>7. Len(w) = made /\ ToSet(w) = 1 .. made
  BY <1>4, <1>5, <1>6, ListsLength, ListFacts
<1> QED BY <1>6, <1>7 DEF OneHolder, BufsOf

(* Every buffer has one holder, for any size of the pools and any number   *)
(* of commands and snapshots.                                              *)
THEOREM BuffersHaveOneHolder == Spec => []OneHolder
<1>1. Spec => []HInv
  <2>1. Init => HInv
    BY HInit
  <2>2. HInv /\ [Next]_vars => HInv'
    BY NextHInv
  <2> QED BY <2>1, <2>2, PTL DEF Spec
<1> QED BY <1>1, HeldOnce, PTL

-----------------------------------------------------------------------------
(***************************************************************************)
(* Whose text is in the buffers.                                           *)
(***************************************************************************)
Texts == SUBSET (-MaxAsk .. MaxAsk)
TextTyped == text \in [1 .. made -> Texts]

(* The second half of TextIsOwn, of one snapshot.                          *)
OwnText(i) == text[snapQ[i].buf] \subseteq {0, snapQ[i].number}

(* The inductive invariant of TextIsOwn.                                   *)
XInv == HInv /\ TextTyped /\ TextIsOwn

(* Snapshots hold different buffers, and none that the command has.        *)
LEMMA KeptFacts ==
  ASSUME TInv, NEW F, NEW R, NEW K, HoldersAre(F, R, K)
  PROVE  /\ \A i \in DOMAIN snapQ : /\ snapQ[i].buf \in K /\ snapQ[i].buf \in 1 .. made
                                    /\ snapQ[i].buf \notin R
                                    /\ snapQ[i].number \in 0 .. MaxAsk
         /\ \A i, j \in DOMAIN snapQ : snapQ[i].buf = snapQ[j].buf => i = j
         /\ ToSet(chain) = R /\ R \subseteq 1 .. made
<1>1. PICK n \in Nat : n = Len(snapQ) /\ DOMAIN snapQ = 1 .. n
  BY QueueFacts DEF TInv
<1>2. Len(BufsOf(snapQ)) = n /\ \A i \in 1 .. n : BufsOf(snapQ)[i] = snapQ[i].buf
  BY <1>1, QueueFacts DEF TInv
<1>3. Lists(BufsOf(snapQ), K)
  BY DEF HoldersAre
<1>4. \A i, j \in 1 .. n : snapQ[i].buf = snapQ[j].buf => i = j
  BY <1>2, <1>3 DEF Lists
<1>5. \A i \in 1 .. n : snapQ[i].buf \in K
  BY <1>2, <1>3, ListFacts
<1>6. K \subseteq 1 .. made /\ K \cap R = {} /\ R \subseteq 1 .. made
  BY DEF HoldersAre
<1>7. ToSet(chain) = R
  BY ListFacts DEF HoldersAre
<1>8. \A i \in 1 .. n : snapQ[i].number \in 0 .. MaxAsk
  BY <1>1, QueueFacts DEF TInv, SnapRec
<1> QED BY <1>1, <1>4, <1>5, <1>6, <1>7, <1>8

(* The texts there are.                                                    *)
LEMMA TextFacts ==
  /\ MaxAsk \in Nat /\ {} \in Texts /\ {0} \in Texts
  /\ \A k \in 0 .. MaxAsk : {k} \in Texts /\ {Of(k)} \in Texts
  /\ \A a, b \in Texts : a \cup b \in Texts
<1>1. MaxAsk \in Nat
  BY BuffersConstants
<1>2. \A k \in 0 .. MaxAsk : k \in -MaxAsk .. MaxAsk /\ Of(k) \in -MaxAsk .. MaxAsk
  BY <1>1 DEF Of
<1>3. 0 \in -MaxAsk .. MaxAsk
  BY <1>1
<1> QED BY <1>1, <1>2, <1>3 DEF Texts

(* At the start no buffer has a text.                                      *)
LEMMA XInit == Init => TextTyped /\ TextIsOwn
<1> SUFFICES ASSUME Init PROVE TextTyped /\ TextIsOwn
  OBVIOUS
<1>1. TextTyped
  BY TextFacts DEF Init, TextTyped
<1>2. DOMAIN snapQ = {}
  BY DEF Init
<1> QED BY <1>1, <1>2 DEF Init, TextIsOwn

(* What is said to the two that are taken does not touch a snapshot's.     *)
LEMMA SaidKeeps ==
  ASSUME XInv, NEW kind \in Kind, Takes(kind), Len(Free) >= 2, NEW c \in Texts, NEW e \in Texts,
         Said(c, e), snapQ' = snapQ
  PROVE  TextTyped' /\ \A i \in DOMAIN snapQ' : OwnText(i)'
<1>1. PICK F, R, K : HoldersAre(F, R, K)
  BY DEF XInv, HInv, Held
<1>2. at = "idle" /\ made' = made + More /\ TInv /\ RingInv
  BY DEF Takes, XInv, HInv
<1>3. PICK x, y : x = C /\ y = E
  OBVIOUS
<1>4. x \notin K /\ y \notin K /\ More \in Nat /\ made \in Nat
  BY <1>1, <1>2, <1>3, TakenFacts DEF TInv
<1>5. text' = [b \in 1 .. made' |-> IF b = x THEN c ELSE IF b = y THEN e
                                    ELSE IF b > made THEN {} ELSE text[b]]
  BY <1>2, <1>3 DEF Said
<1>6. \A b \in 1 .. made' : b > made \/ b \in 1 .. made
  BY <1>2, <1>4
<1>7. TextTyped'
  <2>1. {} \in Texts /\ text \in [1 .. made -> Texts]
    BY TextFacts DEF XInv, TextTyped
  <2>2. text' \in [1 .. made' -> Texts]
    BY <1>5, <1>6, <2>1
  <2>3. Texts' = Texts
    BY DEF Texts
  <2> QED BY <2>2, <2>3 DEF TextTyped
<1>8. ASSUME NEW i \in DOMAIN snapQ PROVE OwnText(i)'
  <2>1. PICK b : b = snapQ[i].buf
    OBVIOUS
  <2>2. b \in K /\ b \in 1 .. made
    BY <1>1, <1>2, <2>1, KeptFacts
  <2>3. b \in 1 .. made' /\ ~(b > made) /\ b # x /\ b # y
    BY <1>2, <1>4, <2>2
  <2>4. text'[b] = text[b]
    BY <1>5, <2>3
  <2>5. text[b] \subseteq {0, snapQ[i].number}
    BY <2>1 DEF XInv, TextIsOwn
  <2> QED BY <2>1, <2>4, <2>5 DEF OwnText
<1> QED BY <1>7, <1>8

(* The texts as they were.                                                 *)
LEMMA XSame ==
  ASSUME XInv, UNCHANGED <<text, made, snapQ>>
  PROVE  TextTyped' /\ \A i \in DOMAIN snapQ' : OwnText(i)'
<1>1. TextTyped'
  BY DEF XInv, TextTyped, Texts
<1>2. \A i \in DOMAIN snapQ : OwnText(i)
  BY DEF XInv, TextIsOwn, OwnText
<1>3. \A i \in DOMAIN snapQ' : OwnText(i)'
  BY <1>2 DEF OwnText
<1> QED BY <1>1, <1>3

(* MAIN writes only to the buffers it has just taken.                      *)
LEMMA XMain ==
  ASSUME XInv, MainAnswer \/ MainReply \/ \E kind \in Kind : MainForward(kind)
  PROVE  (TextTyped /\ TextIsOwn)'
<1>0. TInv
  BY DEF XInv, HInv
<1>1. \A kind \in Kind : Takes(kind) => Number + 1 \in 0 .. MaxAsk
  <2> SUFFICES ASSUME NEW kind \in Kind, Takes(kind) PROVE Number + 1 \in 0 .. MaxAsk
    OBVIOUS
  <2>1. cmd' \in [number : 0 .. MaxAsk, kind : Kind] /\ cmd'.number = Number + 1
    BY <1>0, TakesFacts
  <2> QED BY <2>1
<1>2. (at' # "reply") /\ TextTyped' /\ \A i \in DOMAIN snapQ' : OwnText(i)'
  <2>1. ASSUME NEW kind \in Kind, MainForward(kind) PROVE (at' # "reply") /\ TextTyped' /\ \A i \in DOMAIN snapQ' : OwnText(i)'
    <3>0. Takes(kind) /\ at = "idle"
      BY <2>1 DEF MainForward, Takes
    <3>1. CASE Crashes
      <4>1. UNCHANGED <<text, snapQ, at>> /\ Len(Free) < 2 /\ made' = made + More
        BY <3>0, <3>1 DEF Crashes, Takes
      <4>2. made' = made
        BY <4>1, CrashIsSame DEF XInv
      <4> QED BY <3>0, <4>1, <4>2, XSame
    <3>2. CASE Len(Free) >= 2 /\ Said({Of(Number + 1)}, {}) /\ snapQ' = snapQ
               /\ at' = IF kind = "reader" THEN "READER" ELSE "WRITER"
      <4>1. {Of(Number + 1)} \in Texts /\ {} \in Texts
        BY <1>1, <3>0, TextFacts
      <4> QED BY <3>0, <3>2, <4>1, SaidKeeps
    <3> QED BY <2>1, <3>1, <3>2 DEF MainForward
  <2>2. CASE MainAnswer
    <3>0. Takes("own") /\ at = "idle" /\ "own" \in Kind
      BY <2>2 DEF MainAnswer, Takes, Kind
    <3>1. CASE Crashes
      <4>1. UNCHANGED <<text, snapQ, at>> /\ Len(Free) < 2 /\ made' = made + More
        BY <3>0, <3>1 DEF Crashes, Takes
      <4>2. made' = made
        BY <4>1, CrashIsSame DEF XInv
      <4> QED BY <3>0, <4>1, <4>2, XSame
    <3>2. CASE Len(Free) >= 2 /\ Said({Of(Number + 1)}, {Of(Number + 1)}) /\ UNCHANGED <<snapQ, at>>
      <4>1. {Of(Number + 1)} \in Texts
        BY <1>1, <3>0, TextFacts
      <4> QED BY <3>0, <3>2, <4>1, SaidKeeps
    <3> QED BY <2>2, <3>1, <3>2 DEF MainAnswer
  <2>3. CASE MainReply
    <3>1. UNCHANGED <<text, made, snapQ>> /\ at' = "idle"
      BY <2>3 DEF MainReply, ReleaseStrbuf
    <3> QED BY <3>1, XSame
  <2> QED BY <2>1, <2>2, <2>3
<1> QED BY <1>2 DEF TextIsOwn, OwnText

(* Commands.                                                               *)
LEMMA RepliesFacts ==
  ASSUME XInv, at \in {"READER", "WRITER"}, NEW said \in Texts, Replies(said), made' = made,
         NEW F, NEW R, NEW K, HoldersAre(F, R, K)
  PROVE  /\ TextTyped' /\ at' = "reply"
         /\ text'[chain[2]] = {Of(Number)} /\ text'[chain[1]] = said /\ chain[1] # chain[2]
         /\ R = {chain[1], chain[2]}
         /\ \A b \in 1 .. made : b \notin R => text'[b] = text[b]
<1>1. /\ chain[1] \in R /\ chain[2] \in R /\ chain[1] # chain[2] /\ R = {chain[1], chain[2]}
  BY ChainFacts DEF XInv, HInv
<1>2. R \subseteq 1 .. made
  BY DEF HoldersAre
<1>3. PICK c, e : c = chain[1] /\ e = chain[2]
  OBVIOUS
<1>4. Number \in 0 .. MaxAsk
  BY DEF XInv, HInv, TInv, Number
<1>5. {Of(Number)} \in Texts
  BY <1>4, TextFacts
<1>6. text' = [text EXCEPT ![e] = {Of(Number)}, ![c] = said] /\ at' = "reply"
  BY <1>3 DEF Replies
<1>7. text \in [1 .. made -> Texts] /\ c \in 1 .. made /\ e \in 1 .. made /\ c # e
  BY <1>1, <1>2, <1>3 DEF XInv, TextTyped
<1>8. text' \in [1 .. made -> Texts] /\ text'[e] = {Of(Number)} /\ text'[c] = said
      /\ \A b \in 1 .. made : b # c /\ b # e => text'[b] = text[b]
  BY <1>5, <1>6, <1>7
<1>9. TextTyped'
  <2>1. Texts' = Texts
    BY DEF Texts
  <2> QED BY <1>8, <2>1 DEF TextTyped
<1> QED BY <1>1, <1>3, <1>6, <1>8, <1>9

(* READER or WRITER writes the reply to the command.                       *)
LEMMA XAnswer ==
  ASSUME XInv, Answer
  PROVE  (TextTyped /\ TextIsOwn)'
<1>1. PICK F, R, K : HoldersAre(F, R, K)
  BY DEF XInv, HInv, Held
<1>2. /\ at \in {"READER", "WRITER"} /\ Replies({}) /\ chain' = Reverse(chain)
      /\ made' = made /\ UNCHANGED <<cmd, shown, snapQ>>
  BY DEF Answer, strbufVars
<1>3. PICK c, e : c = chain[1] /\ e = chain[2]
  OBVIOUS
<1>4. {} \in Texts
  BY TextFacts
<1>5. /\ TextTyped' /\ at' = "reply" /\ text'[e] = {Of(Number)} /\ text'[c] = {} /\ R = {c, e}
      /\ \A b \in 1 .. made : b \notin R => text'[b] = text[b]
  BY <1>1, <1>2, <1>3, <1>4, RepliesFacts
<1>6. ToSet(chain') = R
  <2>1. Lists(Reverse(chain), R)
    BY <1>1, ListsReverse DEF HoldersAre
  <2> QED BY <1>2, <2>1, ListFacts
<1>7. \A b \in ToSet(chain') : text'[b] \subseteq {0, Of(Number')} \cup shown'
  BY <1>2, <1>5, <1>6 DEF Number
<1>8. ASSUME NEW i \in DOMAIN snapQ PROVE text'[snapQ[i].buf] \subseteq {0, snapQ[i].number}
  <2>1. snapQ[i].buf \in 1 .. made /\ snapQ[i].buf \notin R
    BY <1>1, KeptFacts DEF XInv, HInv
  <2>2. text'[snapQ[i].buf] = text[snapQ[i].buf]
    BY <1>5, <2>1
  <2> QED BY <2>2 DEF XInv, TextIsOwn
<1> QED BY <1>2, <1>5, <1>7, <1>8 DEF TextIsOwn, Of, Number

(* Snap begins the buffer of the snapshot anew, or writes why it failed.   *)
LEMMA XSnap ==
  ASSUME XInv, NEW size \in FileChunks, WriterSnap(size)
  PROVE  (TextTyped /\ TextIsOwn)'
<1>1. PICK F, R, K : HoldersAre(F, R, K)
  BY DEF XInv, HInv, Held
<1>2. /\ at = "WRITER" /\ chain' = Tail(chain) /\ made' = made /\ UNCHANGED <<cmd, shown>>
  BY DEF WriterSnap, SnapReply, strbufVars
<1>3. PICK s, said : /\ s \in SnapRec /\ s.buf = chain[1] /\ s.number = Number
                     /\ snapQ' = <<s>> \o snapQ
                     /\ Replies(said) /\ (said = {} \/ said = {Number})
  <2>1. \/ snapQ' = <<NewSnap(size)>> \o snapQ /\ Replies(SnapText(FALSE))
        \/ snapQ' = <<[NewSnap(size) EXCEPT !.state = "over"]>> \o snapQ /\ Replies(SnapText(TRUE))
    BY DEF WriterSnap
  <2>2. TInv /\ RingInv
    BY DEF XInv, HInv
  <2>3. /\ NewSnap(size) \in SnapRec /\ [NewSnap(size) EXCEPT !.state = "over"] \in SnapRec
        /\ NewSnap(size).buf = chain[1] /\ [NewSnap(size) EXCEPT !.state = "over"].buf = chain[1]
        /\ NewSnap(size).number = Number /\ [NewSnap(size) EXCEPT !.state = "over"].number = Number
    BY <1>1, <1>2, <2>2, NewSnapFacts
  <2>4. SnapText(FALSE) = {} /\ SnapText(TRUE) = {Number}
    BY DEF SnapText
  <2>5. CASE snapQ' = <<NewSnap(size)>> \o snapQ /\ Replies(SnapText(FALSE))
    BY <2>3, <2>4, <2>5
  <2>6. CASE snapQ' = <<[NewSnap(size) EXCEPT !.state = "over"]>> \o snapQ /\ Replies(SnapText(TRUE))
    BY <2>3, <2>4, <2>6
  <2> QED BY <2>1, <2>5, <2>6
<1>4. PICK c, e : c = chain[1] /\ e = chain[2]
  OBVIOUS
<1>5. said \in Texts
  <2>1. Number \in 0 .. MaxAsk
    BY DEF XInv, HInv, TInv, Number
  <2> QED BY <1>3, <2>1, TextFacts
<1>6. /\ TextTyped' /\ at' = "reply" /\ text'[e] = {Of(Number)} /\ text'[c] = said
      /\ R = {c, e} /\ c # e /\ \A b \in 1 .. made : b \notin R => text'[b] = text[b]
  BY <1>1, <1>2, <1>3, <1>4, <1>5, RepliesFacts
<1>7. ToSet(chain') = {e}
  <2>1. Lists(chain, R) /\ chain # <<>>
    BY <1>1, <1>2, ChainFacts DEF XInv, HInv, HoldersAre
  <2>2. Lists(Tail(chain), R \ {c})
    BY <1>4, <2>1, ListsTail
  <2>3. R \ {c} = {e}
    BY <1>6
  <2> QED BY <1>2, <2>2, <2>3, ListFacts
<1>8. \A b \in ToSet(chain') : text'[b] \subseteq {0, Of(Number')} \cup shown'
  BY <1>2, <1>6, <1>7 DEF Number
<1>9. PICK n \in Nat : n = Len(snapQ) /\ DOMAIN snapQ = 1 .. n
  BY QueueFacts DEF XInv, HInv, TInv
<1>10. DOMAIN snapQ' = 1 .. n + 1 /\ snapQ'[1] = s /\ \A i \in 1 .. n : snapQ'[i + 1] = snapQ[i]
  <2>1. snapQ \in Seq(SnapRec)
    BY DEF XInv, HInv, TInv
  <2>2. /\ snapQ' \in Seq(SnapRec) /\ Len(snapQ') = n + 1 /\ snapQ'[1] = s
        /\ \A i \in 1 .. n : snapQ'[i + 1] = snapQ[i]
    BY <1>3, <1>9, <2>1, QueueAdds
  <2> QED BY <2>2, LenProperties
<1>11. ASSUME NEW i \in 1 .. n + 1 PROVE text'[snapQ'[i].buf] \subseteq {0, snapQ'[i].number}
  <2>1. CASE i = 1
    BY <1>3, <1>4, <1>6, <1>10, <2>1
  <2>2. CASE i # 1
    <3>1. i - 1 \in 1 .. n /\ (i - 1) + 1 = i
      BY <2>2
    <3>2. PICK j \in 1 .. n : j = i - 1
      BY <3>1
    <3>3. snapQ'[i] = snapQ[j]
      BY <1>10, <3>1, <3>2
    <3>4. snapQ[j].buf \in 1 .. made /\ snapQ[j].buf \notin R
      BY <1>1, <1>9, KeptFacts DEF XInv, HInv
    <3>5. text'[snapQ[j].buf] = text[snapQ[j].buf]
      BY <1>6, <3>4
    <3>6. text[snapQ[j].buf] \subseteq {0, snapQ[j].number}
      BY <1>9 DEF XInv, TextIsOwn
    <3> QED BY <3>3, <3>5, <3>6
  <2> QED BY <2>1, <2>2
<1> QED BY <1>6, <1>8, <1>10, <1>11 DEF TextIsOwn, Of, Number

(* What is picked was there.                                               *)
LEMMA PickedMembers ==
  ASSUME NEW q \in Seq(SnapRec), NEW I \in SUBSET DOMAIN q, NEW k \in DOMAIN Picked(q, I)
  PROVE  \E i \in I : Picked(q, I)[k] = q[i]
<1>1. PICK n \in Nat : DOMAIN q = 1 .. n /\ q \in [1 .. n -> SnapRec]
  BY QueueFacts
<1>2. PICK f : /\ f \in [1 .. Cardinality(I) -> I]
               /\ \A l, m \in 1 .. Cardinality(I) : f[l] = f[m] => l = m
               /\ \A i \in I : \E l \in 1 .. Cardinality(I) : f[l] = i
               /\ Picked(q, I) = [l \in 1 .. Cardinality(I) |-> q[f[l]]]
               /\ Cardinality(I) \in Nat
  BY <1>1, PickedFacts
<1>3. k \in 1 .. Cardinality(I) /\ f[k] \in I /\ Picked(q, I)[k] = q[f[k]]
  BY <1>2
<1> QED BY <1>3

(* Ztatus shows the buffers of snapshots that were asked about.            *)
LEMMA XZtatus ==
  ASSUME XInv, NEW looked \in Looks, WriterZtatus(looked)
  PROVE  (TextTyped /\ TextIsOwn)'
<1>1. PICK F, R, K : HoldersAre(F, R, K)
  BY DEF XInv, HInv, Held
<1>2. /\ at = "WRITER" /\ made' = made /\ UNCHANGED cmd /\ shown' = looked
  BY DEF WriterZtatus, strbufVars
<1>3. PICK said : Replies(said) /\ said \subseteq {Of(Number)} \cup looked
  BY DEF WriterZtatus
<1>4. PICK c, e : c = chain[1] /\ e = chain[2]
  OBVIOUS
<1>k. /\ \A i \in DOMAIN snapQ : /\ snapQ[i].buf \in K /\ snapQ[i].buf \in 1 .. made
                                /\ snapQ[i].buf \notin R
                                /\ snapQ[i].number \in 0 .. MaxAsk
  BY <1>1, KeptFacts DEF XInv, HInv
<1>5. said \in Texts
  <2>1. looked \subseteq 0 .. MaxAsk
    BY <1>k DEF Looks
  <2>2. Number \in 0 .. MaxAsk /\ MaxAsk \in Nat
    BY BuffersConstants DEF XInv, HInv, TInv, Number
  <2>3. {Of(Number)} \in Texts
    BY <2>2, TextFacts
  <2>4. \A k \in 0 .. MaxAsk : {k} \in Texts
    BY TextFacts
  <2>5. \A x \in said : {x} \in Texts
    BY <1>3, <2>1, <2>3, <2>4
  <2> QED BY <2>5 DEF Texts
<1>6. /\ TextTyped' /\ at' = "reply" /\ text'[e] = {Of(Number)} /\ text'[c] = said
      /\ R = {c, e} /\ c # e /\ \A b \in 1 .. made : b \notin R => text'[b] = text[b]
  BY <1>1, <1>2, <1>3, <1>4, <1>5, RepliesFacts
<1>7. \A i \in DOMAIN snapQ : text'[snapQ[i].buf] \subseteq {0, snapQ[i].number}
  <2>1. \A i \in DOMAIN snapQ : text'[snapQ[i].buf] = text[snapQ[i].buf]
    BY <1>6, <1>k
  <2>2. \A i \in DOMAIN snapQ : text[snapQ[i].buf] \subseteq {0, snapQ[i].number}
    BY DEF XInv, TextIsOwn
  <2> QED BY <2>1, <2>2
<1>8. /\ snapQ' = Picked(snapQ, DOMAIN snapQ \ OverAmong(looked))
      /\ Lists(chain', R \cup {snapQ[i].buf : i \in OverAmong(looked)})
  BY <1>1, ZtatusEffect DEF XInv
<1>9. ASSUME NEW b \in ToSet(chain') PROVE text'[b] \subseteq {0, Of(Number')} \cup shown'
  <2>1. ToSet(chain') = R \cup {snapQ[i].buf : i \in OverAmong(looked)}
    BY <1>8, ListFacts
  <2>2. CASE b \in R
    BY <1>2, <1>3, <1>6, <2>2 DEF Number
  <2>3. CASE \E i \in OverAmong(looked) : b = snapQ[i].buf
    <3>1. PICK i \in OverAmong(looked) : b = snapQ[i].buf
      BY <2>3
    <3>2. i \in DOMAIN snapQ /\ snapQ[i].number \in looked
      BY DEF OverAmong
    <3> QED BY <1>2, <1>7, <3>1, <3>2
  <2> QED BY <2>1, <2>2, <2>3
<1>10. ASSUME NEW k \in DOMAIN snapQ' PROVE text'[snapQ'[k].buf] \subseteq {0, snapQ'[k].number}
  <2>1. PICK i \in DOMAIN snapQ : snapQ'[k] = snapQ[i]
    <3>1. snapQ \in Seq(SnapRec) /\ DOMAIN snapQ \ OverAmong(looked) \in SUBSET DOMAIN snapQ
      BY DEF XInv, HInv, TInv
    <3>2. PICK p : p = Picked(snapQ, DOMAIN snapQ \ OverAmong(looked)) /\ p = snapQ'
      BY <1>8
    <3>4. k \in DOMAIN Picked(snapQ, DOMAIN snapQ \ OverAmong(looked))
      BY <3>2
    <3>3. \E i \in DOMAIN snapQ \ OverAmong(looked) :
            Picked(snapQ, DOMAIN snapQ \ OverAmong(looked))[k] = snapQ[i]
      BY <3>1, <3>4, PickedMembers
    <3> QED BY <3>2, <3>3
  <2> QED BY <1>7, <2>1
<1> QED BY <1>6, <1>9, <1>10 DEF TextIsOwn, Of, Number

(* A snapshot in progress: its own buffer has its own number more, or only *)
(* that.                                                                   *)
LEMMA XInProgress ==
  ASSUME XInv, NEW i \in DOMAIN snapQ,
         WriterSends(i) \/ ReaderReturns(i) \/ FileEnds(i) \/ NextFile(i) \/ WriterMapFails(i)
  PROVE  (TextTyped /\ TextIsOwn)'
<1>1. PICK F, R, K : HoldersAre(F, R, K)
  BY DEF XInv, HInv, Held
<1>2. TInv /\ UNCHANGED <<made, at, cmd, chain, shown>>
  BY InProgress DEF XInv, HInv, strbufVars, mainVars
<1>3. DOMAIN snapQ' = DOMAIN snapQ /\ \A j \in DOMAIN snapQ : snapQ'[j].buf = snapQ[j].buf
      /\ snapQ'[j].number = snapQ[j].number
  <2>1. CASE UNCHANGED snapQ
    BY <2>1
  <2>2. CASE \E s \in SnapRec : /\ snapQ' = [snapQ EXCEPT ![i] = s] /\ s.buf = snapQ[i].buf
                                /\ s.number = snapQ[i].number
    <3>1. PICK s \in SnapRec : /\ snapQ' = [snapQ EXCEPT ![i] = s] /\ s.buf = snapQ[i].buf
                               /\ s.number = snapQ[i].number
      BY <2>2
    <3>2. DOMAIN snapQ' = DOMAIN snapQ
      BY <3>1
    <3>3. \A j \in DOMAIN snapQ : snapQ'[j] = IF j = i THEN s ELSE snapQ[j]
      BY <3>1, QueueFacts, <1>2 DEF TInv
    <3> QED BY <3>1, <3>2, <3>3
  <2> QED BY <1>2, <2>1, <2>2, InProgress
<1>4. PICK b, k : b = snapQ[i].buf /\ k = snapQ[i].number
  OBVIOUS
<1>5. b \in 1 .. made /\ b \notin R /\ k \in 0 .. MaxAsk /\ ToSet(chain) = R /\ R \subseteq 1 .. made
  BY <1>1, <1>2, <1>4, KeptFacts
<1>6. text \in [1 .. made -> Texts] /\ text[b] \subseteq {0, k}
  BY <1>4 DEF XInv, TextTyped, TextIsOwn
<1>7. PICK t \in Texts : text' = [text EXCEPT ![b] = t] /\ t \subseteq {0, k}
  <2>1. {k} \in Texts /\ text[b] \in Texts /\ text[b] \cup {k} \in Texts
    BY <1>5, <1>6, TextFacts
  <2>2. CASE text' = text
    <3>1. text' = [text EXCEPT ![b] = text[b]]
      BY <1>6, <2>2
    <3> QED BY <1>6, <2>1, <3>1
  <2>3. CASE Says(i)
    <3>1. text' = [text EXCEPT ![b] = text[b] \cup {k}]
      BY <1>4, <2>3 DEF Says
    <3>2. text[b] \cup {k} \subseteq {0, k}
      BY <1>6
    <3> QED BY <2>1, <3>1, <3>2
  <2>4. CASE text' = [text EXCEPT ![snapQ[i].buf] = {snapQ[i].number}]
    BY <1>4, <2>1, <2>4
  <2>5. text' = text \/ Says(i) \/ text' = [text EXCEPT ![snapQ[i].buf] = {snapQ[i].number}]
    <3>1. CASE WriterSends(i) \/ ReaderReturns(i)
      BY <3>1 DEF WriterSends, ReaderReturns
    <3>2. CASE FileEnds(i)
      BY <3>2 DEF FileEnds
    <3>3. CASE NextFile(i) \/ WriterMapFails(i)
      BY <3>3 DEF NextFile, WriterMapFails
    <3> QED BY <3>1, <3>2, <3>3
  <2> QED BY <2>2, <2>3, <2>4, <2>5
<1>8. /\ text' \in [1 .. made -> Texts]
      /\ \A x \in 1 .. made : text'[x] = IF x = b THEN t ELSE text[x]
  BY <1>6, <1>7
<1>9. TextTyped'
  <2>1. Texts' = Texts
    BY DEF Texts
  <2> QED BY <1>2, <1>8, <2>1 DEF TextTyped
<1>10. at' = "reply" => \A x \in ToSet(chain') : text'[x] \subseteq {0, Of(Number')} \cup shown'
  <2>1. at = "reply" => \A x \in R : text[x] \subseteq {0, Of(Number)} \cup shown
    BY <1>5 DEF XInv, TextIsOwn
  <2>2. \A x \in R : text'[x] = text[x]
    BY <1>5, <1>8
  <2> QED BY <1>2, <1>5, <2>1, <2>2 DEF Number
<1>11. ASSUME NEW j \in DOMAIN snapQ PROVE text'[snapQ[j].buf] \subseteq {0, snapQ[j].number}
  <2>1. CASE j = i
    BY <1>4, <1>5, <1>7, <1>8, <2>1
  <2>2. CASE j # i
    <3>1. snapQ[j].buf # b /\ snapQ[j].buf \in 1 .. made
      BY <1>1, <1>2, <1>4, <2>2, KeptFacts
    <3>2. text'[snapQ[j].buf] = text[snapQ[j].buf]
      BY <1>8, <3>1
    <3> QED BY <3>2 DEF XInv, TextIsOwn
  <2> QED BY <2>1, <2>2
<1>12. \A j \in DOMAIN snapQ' : text'[snapQ'[j].buf] \subseteq {0, snapQ'[j].number}
  BY <1>3, <1>11
<1> QED BY <1>9, <1>10, <1>12 DEF TextIsOwn, Of, Number

(* A late chunk writes the text that is excepted.                          *)
LEMMA XLost ==
  ASSUME XInv, ReaderReturnsLost
  PROVE  (TextTyped /\ TextIsOwn)'
<1>1. UNCHANGED <<made, at, cmd, chain, shown, snapQ>>
  BY DEF ReaderReturnsLost, asideSnaps, strbufVars, mainVars
<1>2. text \in [1 .. made -> Texts]
  BY DEF XInv, TextTyped
<1>3. text' \in [1 .. made -> Texts] /\ \A b \in 1 .. made : text'[b] \subseteq text[b] \cup {0}
  <2>1. CASE text' = text
    BY <1>2, <2>1
  <2>2. CASE \E b \in 1 .. made : text' = [text EXCEPT ![b] = @ \cup {0}]
    <3>1. PICK b \in 1 .. made : text' = [text EXCEPT ![b] = text[b] \cup {0}]
      BY <2>2
    <3>2. text[b] \in Texts /\ text[b] \cup {0} \in Texts
      BY <1>2, TextFacts
    <3> QED BY <1>2, <3>1, <3>2
  <2> QED BY <2>1, <2>2 DEF ReaderReturnsLost
<1>4. TextTyped'
  <2>1. Texts' = Texts
    BY DEF Texts
  <2> QED BY <1>1, <1>3, <2>1 DEF TextTyped
<1>5. PICK F, R, K : HoldersAre(F, R, K)
  BY DEF XInv, HInv, Held
<1>6. \A i \in DOMAIN snapQ : snapQ[i].buf \in 1 .. made
  BY <1>5, KeptFacts DEF XInv, HInv
<1>7. ToSet(chain) \subseteq 1 .. made
  BY <1>5, KeptFacts DEF XInv, HInv
<1>8. at = "reply" => \A b \in ToSet(chain) : text'[b] \subseteq {0, Of(Number)} \cup shown
  BY <1>3, <1>7 DEF XInv, TextIsOwn
<1>9. \A i \in DOMAIN snapQ : text'[snapQ[i].buf] \subseteq {0, snapQ[i].number}
  BY <1>3, <1>6 DEF XInv, TextIsOwn
<1> QED BY <1>1, <1>4, <1>8, <1>9 DEF TextIsOwn, Of, Number

(* Every step keeps the invariant.                                         *)
LEMMA NextXInv ==
  ASSUME XInv, [Next]_vars
  PROVE  XInv'
<1>1. HInv'
  BY NextHInv DEF XInv
<1>2. (TextTyped /\ TextIsOwn)'
  <2>1. CASE Next
    BY <2>1, XMain, XAnswer, XSnap, XZtatus, XInProgress, XLost DEF Next
  <2>2. CASE UNCHANGED vars
    BY <2>2 DEF XInv, TextTyped, TextIsOwn, Texts, vars, mainVars, strbufVars, Of, Number
  <2> QED BY <2>1, <2>2
<1> QED BY <1>1, <1>2 DEF XInv

(* No reply has text of another command or snapshot, and no snapshot's     *)
(* buffer text of another, whatever is taken, linked or written over.      *)
THEOREM TextIsAlwaysOwn == Spec => []TextIsOwn
<1>1. Init => XInv
  BY HInit, XInit DEF XInv
<1>2. XInv /\ [Next]_vars => XInv'
  BY NextXInv
<1>3. XInv => TextIsOwn
  BY DEF XInv
<1> QED BY <1>1, <1>2, <1>3, PTL DEF Spec

-----------------------------------------------------------------------------
(***************************************************************************)
(* What is in use.                                                         *)
(***************************************************************************)
(* Chunks 1 .. z[i] of each i in A.                                        *)
Uses(A, z) == UNION {{i} \X (1 .. z[i]) : i \in A}

Act(q) == {i \in DOMAIN q : ~Over(q[i])}

(* How many chunks each snapshot has.                                      *)
Sizes(q) == [i \in DOMAIN q |-> q[i].size]

(* The chunks in use are the uses of the active snapshots.                 *)
LEMMA ChunksAreUses == \A q : Chunks(q) = Uses(Act(q), Sizes(q))
<1> SUFFICES ASSUME NEW q PROVE Chunks(q) = Uses(Act(q), Sizes(q))
  OBVIOUS
<1>1. \A i \in Act(q) : {i} \X (1 .. q[i].size) = {i} \X (1 .. Sizes(q)[i])
  BY DEF Act, Sizes
<1>2. {{i} \X (1 .. q[i].size) : i \in Act(q)} = {{i} \X (1 .. Sizes(q)[i]) : i \in Act(q)}
  BY <1>1
<1> QED BY <1>2 DEF Chunks, Uses, Act

(* What a use is.                                                          *)
LEMMA UsesMember ==
  ASSUME NEW A, NEW z
  PROVE  \A p : p \in Uses(A, z) <=> \E i \in A : \E k \in 1 .. z[i] : p = <<i, k>>
<1>1. \A i : \A p : p \in {i} \X (1 .. z[i]) <=> \E k \in 1 .. z[i] : p = <<i, k>>
  OBVIOUS
<1> QED BY <1>1 DEF Uses

(* Uses depend on the sizes of the members only.                           *)
LEMMA UsesSame ==
  ASSUME NEW A, NEW z, NEW y, \A i \in A : z[i] = y[i]
  PROVE  Uses(A, z) = Uses(A, y)
<1>1. \A i \in A : {i} \X (1 .. z[i]) = {i} \X (1 .. y[i])
  OBVIOUS
<1>2. {{i} \X (1 .. z[i]) : i \in A} = {{i} \X (1 .. y[i]) : i \in A}
  BY <1>1
<1> QED BY <1>2 DEF Uses

(* The chunks of one.                                                      *)
LEMMA OneUses ==
  ASSUME NEW i, NEW n \in Nat
  PROVE  IsFiniteSet({i} \X (1 .. n)) /\ Cardinality({i} \X (1 .. n)) = n
<1> DEFINE f == [k \in 1 .. n |-> <<i, k>>]
<1>1. f \in [1 .. n -> {i} \X (1 .. n)] /\ \A k \in 1 .. n : f[k] = <<i, k>>
  OBVIOUS
<1>2. \A p \in {i} \X (1 .. n) : \E k \in 1 .. n : p = <<i, k>>
  OBVIOUS
<1>3. \A k, l \in 1 .. n : <<i, k>> = <<i, l>> => k = l
  OBVIOUS
<1> HIDE DEF f
<1>4. f \in Bijection(1 .. n, {i} \X (1 .. n))
  BY <1>1, <1>2, <1>3 DEF Bijection, Injection, Surjection, IsInjective
<1>5. ExistsBijection(1 .. n, {i} \X (1 .. n))
  BY <1>4 DEF ExistsBijection
<1>6. IsFiniteSet(1 .. n) /\ Cardinality(1 .. n) = n
  BY FiniteSegment
<1> QED BY <1>5, <1>6, FS_Bijection

(* There are finitely many.                                                *)
LEMMA UsesFinite ==
  ASSUME NEW A, IsFiniteSet(A), NEW z, \A i \in A : z[i] \in Nat
  PROVE  IsFiniteSet(Uses(A, z)) /\ Cardinality(Uses(A, z)) \in Nat
<1> DEFINE T == {{i} \X (1 .. z[i]) : i \in A}
           f == [i \in A |-> {i} \X (1 .. z[i])]
<1>1. f \in [A -> T] /\ \A t \in T : \E i \in A : f[i] = t
  OBVIOUS
<1>2. \A t \in T : IsFiniteSet(t)
  <2> SUFFICES ASSUME NEW t \in T PROVE IsFiniteSet(t)
    OBVIOUS
  <2>1. PICK i \in A : t = {i} \X (1 .. z[i])
    OBVIOUS
  <2>2. PICK n \in Nat : n = z[i]
    OBVIOUS
  <2>3. IsFiniteSet({i} \X (1 .. n))
    BY OneUses
  <2> QED BY <2>1, <2>2, <2>3
<1> HIDE DEF T, f
<1>3. f \in Surjection(A, T)
  BY <1>1 DEF Surjection
<1>4. IsFiniteSet(T)
  BY <1>3, FS_Surjection
<1>5. IsFiniteSet(UNION T)
  BY <1>2, <1>4, FS_UNION
<1>6. IsFiniteSet(Uses(A, z))
  BY <1>5 DEF Uses, T
<1> QED BY <1>6, FS_CardinalityType

(* One more snapshot adds its size.                                        *)
LEMMA UsesAdd ==
  ASSUME NEW A, IsFiniteSet(A), NEW i, i \notin A, NEW z, \A j \in A \cup {i} : z[j] \in Nat
  PROVE  Cardinality(Uses(A \cup {i}, z)) = Cardinality(Uses(A, z)) + z[i]
<1>1. IsFiniteSet(Uses(A, z)) /\ Cardinality(Uses(A, z)) \in Nat
  BY UsesFinite
<1>2. PICK n \in Nat : n = z[i]
  OBVIOUS
<1>3. PICK S, T : S = Uses(A, z) /\ T = {i} \X (1 .. n)
  OBVIOUS
<1>4. IsFiniteSet(T) /\ Cardinality(T) = n
  BY <1>3, OneUses
<1>5. Uses(A \cup {i}, z) = S \cup T
  BY <1>2, <1>3 DEF Uses
<1>6. S \cap T = {}
  <2> SUFFICES ASSUME NEW p \in S, p \in T PROVE FALSE
    OBVIOUS
  <2>1. PICK j \in A : \E k \in 1 .. z[j] : p = <<j, k>>
    BY <1>3, UsesMember
  <2>2. p[1] = j /\ p[1] = i
    BY <1>3, <2>1
  <2> QED BY <2>2
<1>7. Cardinality(S \cup T) = Cardinality(S) + Cardinality(T) - Cardinality({})
  BY <1>1, <1>3, <1>4, <1>6, FS_Union
<1>8. Cardinality({}) = 0
  BY FS_EmptySet
<1>9. PICK m \in Nat : m = Cardinality(S)
  BY <1>1, <1>3
<1>10. Cardinality(S \cup T) = m + n - 0
  BY <1>4, <1>7, <1>8, <1>9
<1>11. m + n - 0 = m + n
  OBVIOUS
<1> QED BY <1>2, <1>3, <1>5, <1>9, <1>10, <1>11

(* The same chunks of others.                                              *)
LEMMA UsesMove ==
  ASSUME NEW A, IsFiniteSet(A), NEW z, \A i \in A : z[i] \in Nat, NEW B, NEW y,
         NEW f, f \in [A -> B], \A i, j \in A : f[i] = f[j] => i = j,
         \A b \in B : \E i \in A : f[i] = b, \A i \in A : y[f[i]] = z[i]
  PROVE  Cardinality(Uses(B, y)) = Cardinality(Uses(A, z))
<1>1. IsFiniteSet(Uses(A, z))
  BY UsesFinite
<1> DEFINE g == [p \in Uses(A, z) |-> <<f[p[1]], p[2]>>]
<1>2. ASSUME NEW p \in Uses(A, z)
      PROVE  /\ p[1] \in A /\ p[2] \in 1 .. z[p[1]] /\ p = <<p[1], p[2]>>
             /\ <<f[p[1]], p[2]>> \in Uses(B, y)
  <2>0. PICK i \in A : \E k \in 1 .. z[i] : p = <<i, k>>
    BY UsesMember
  <2>1. PICK k \in 1 .. z[i] : p = <<i, k>>
    BY <2>0
  <2>2. p[1] = i /\ p[2] = k
    BY <2>1
  <2>3. f[i] \in B /\ k \in 1 .. y[f[i]]
    OBVIOUS
  <2>4. <<f[i], k>> \in Uses(B, y)
    BY <2>3, UsesMember
  <2> QED BY <2>1, <2>2, <2>4
<1>3. g \in [Uses(A, z) -> Uses(B, y)] /\ \A p \in Uses(A, z) : g[p] = <<f[p[1]], p[2]>>
  BY <1>2
<1> HIDE DEF g
<1>4. ASSUME NEW p \in Uses(A, z), NEW r \in Uses(A, z), g[p] = g[r] PROVE p = r
  <2>1. f[p[1]] = f[r[1]] /\ p[2] = r[2]
    BY <1>3, <1>4
  <2>2. p[1] = r[1]
    BY <1>2, <2>1
  <2>3. p = <<p[1], p[2]>> /\ r = <<r[1], r[2]>>
    BY <1>2
  <2> QED BY <2>1, <2>2, <2>3, Zenon
<1>5. ASSUME NEW r \in Uses(B, y) PROVE \E p \in Uses(A, z) : g[p] = r
  <2>0. PICK b \in B : \E k \in 1 .. y[b] : r = <<b, k>>
    BY UsesMember
  <2>1. PICK k \in 1 .. y[b] : r = <<b, k>>
    BY <2>0
  <2>2. PICK i \in A : f[i] = b
    OBVIOUS
  <2>3. k \in 1 .. z[i]
    BY <2>2
  <2>4. <<i, k>> \in Uses(A, z)
    BY <2>3, UsesMember
  <2>5. g[<<i, k>>] = r
    BY <1>3, <2>1, <2>2, <2>4
  <2> QED BY <2>4, <2>5
<1>6. g \in Bijection(Uses(A, z), Uses(B, y))
  BY <1>3, <1>4, <1>5 DEF Bijection, Injection, Surjection, IsInjective
<1>7. ExistsBijection(Uses(A, z), Uses(B, y))
  BY <1>6 DEF ExistsBijection
<1> QED BY <1>1, <1>7, FS_Bijection

(* The active snapshots of a queue and their sizes.                        *)
LEMMA ActFacts ==
  ASSUME NEW q \in Seq(SnapRec)
  PROVE  /\ IsFiniteSet(Act(q)) /\ Act(q) \subseteq DOMAIN q
         /\ \A i \in DOMAIN q : Sizes(q)[i] \in Nat /\ Sizes(q)[i] > 0 /\ Sizes(q)[i] = q[i].size
         /\ Cardinality(Chunks(q)) \in Nat
<1>1. PICK n \in Nat : n = Len(q) /\ DOMAIN q = 1 .. n /\ q \in [1 .. n -> SnapRec]
  BY QueueFacts
<1>2. IsFiniteSet(1 .. n)
  BY FiniteSegment
<1>3. Act(q) \in SUBSET (1 .. n)
  BY <1>1 DEF Act
<1>4. IsFiniteSet(Act(q))
  BY <1>2, <1>3, FS_Subset
<1>5. \A i \in DOMAIN q : q[i].size \in FileChunks
  BY <1>1 DEF SnapRec
<1>6. \A x \in FileChunks : x \in Nat /\ x > 0
  BY BuffersConstants
<1>7. \A i \in DOMAIN q : Sizes(q)[i] = q[i].size
  BY DEF Sizes
<1>8. \A i \in DOMAIN q : Sizes(q)[i] \in Nat /\ Sizes(q)[i] > 0
  BY <1>5, <1>6, <1>7, Zenon
<1>9. Cardinality(Uses(Act(q), Sizes(q))) \in Nat
  BY <1>1, <1>3, <1>4, <1>8, UsesFinite
<1> QED BY <1>1, <1>3, <1>4, <1>7, <1>8, <1>9, ChunksAreUses

(* A snapshot more.                                                        *)
LEMMA InUseAdds ==
  ASSUME NEW q \in Seq(SnapRec), NEW s \in SnapRec
  PROVE  Cardinality(Chunks(<<s>> \o q)) = Cardinality(Chunks(q)) + IF Over(s) THEN 0 ELSE s.size
<1>1. PICK n \in Nat : n = Len(q) /\ DOMAIN q = 1 .. n
  BY QueueFacts
<1>2. PICK r : r = <<s>> \o q
  OBVIOUS
<1>3. r \in Seq(SnapRec) /\ Len(r) = n + 1 /\ r[1] = s /\ \A i \in 1 .. n : r[i + 1] = q[i]
  BY <1>1, <1>2, QueueAdds
<1>4. DOMAIN r = 1 .. n + 1
  BY <1>3, LenProperties
<1> DEFINE B == {i + 1 : i \in Act(q)}
           f == [i \in Act(q) |-> i + 1]
<1>5. /\ IsFiniteSet(Act(q)) /\ Act(q) \subseteq 1 .. n /\ \A i \in Act(q) : Sizes(q)[i] \in Nat
      /\ \A i \in 1 .. n : Sizes(q)[i] = q[i].size
  BY <1>1, ActFacts
<1>6. /\ IsFiniteSet(Act(r)) /\ \A i \in 1 .. n + 1 : Sizes(r)[i] \in Nat /\ Sizes(r)[i] = r[i].size
  BY <1>3, <1>4, ActFacts
<1>7. \A i \in Act(q) : i \in Nat /\ i + 1 \in 2 .. n + 1
  BY <1>5
<1>8. f \in [Act(q) -> B] /\ (\A b \in B : \E i \in Act(q) : f[i] = b) /\ \A i \in Act(q) : f[i] = i + 1
  OBVIOUS
<1>9. \A i \in Act(q) : Sizes(r)[f[i]] = Sizes(q)[i]
  <2> SUFFICES ASSUME NEW i \in Act(q) PROVE Sizes(r)[f[i]] = Sizes(q)[i]
    OBVIOUS
  <2>1. i \in 1 .. n /\ i + 1 \in 1 .. n + 1
    BY <1>5
  <2>2. Sizes(r)[i + 1] = r[i + 1].size /\ r[i + 1] = q[i] /\ Sizes(q)[i] = q[i].size
    BY <1>3, <1>5, <1>6, <2>1
  <2> QED BY <1>8, <2>2
<1>10. \A i, j \in Act(q) : f[i] = f[j] => i = j
  BY <1>7, <1>8
<1> HIDE DEF f
<1>11. Cardinality(Uses(B, Sizes(r))) = Cardinality(Uses(Act(q), Sizes(q)))
  <2> HIDE DEF B
  <2>1. IsFiniteSet(Act(q)) /\ \A i \in Act(q) : Sizes(q)[i] \in Nat
    BY <1>5
  <2>2. f \in [Act(q) -> B] /\ \A b \in B : \E i \in Act(q) : f[i] = b
    BY <1>8
  <2> QED BY <1>9, <1>10, <2>1, <2>2, UsesMove
<1>12. /\ 1 \notin B /\ B \subseteq 1 .. n + 1
       /\ Act(r) = IF Over(s) THEN B ELSE B \cup {1}
  <2>1. 1 \notin B /\ B \subseteq 2 .. n + 1
    BY <1>7
  <2>2. 1 \in Act(r) <=> ~Over(s)
    BY <1>3, <1>4 DEF Act
  <2>3. \A j \in 2 .. n + 1 : j \in Act(r) <=> j \in B
    <3> SUFFICES ASSUME NEW j \in 2 .. n + 1 PROVE j \in Act(r) <=> j \in B
      OBVIOUS
    <3>1. PICK i \in 1 .. n : j = i + 1
      <4>1. j - 1 \in 1 .. n /\ j = (j - 1) + 1
        OBVIOUS
      <4> QED BY <4>1
    <3>2. r[j] = q[i] /\ j \in DOMAIN r /\ i \in DOMAIN q
      BY <1>1, <1>3, <1>4, <3>1
    <3>3. j \in Act(r) <=> i \in Act(q)
      BY <3>2 DEF Act
    <3>4. i \in Act(q) <=> j \in B
      BY <1>7, <3>1
    <3> QED BY <3>3, <3>4
  <2>4. Act(r) \subseteq 1 .. n + 1
    BY <1>4 DEF Act
  <2>5. \A j \in 1 .. n + 1 : j = 1 \/ j \in 2 .. n + 1
    OBVIOUS
  <2>6. 2 .. n + 1 \subseteq 1 .. n + 1
    OBVIOUS
  <2> HIDE DEF B
  <2>7. \A j : j \in Act(r) <=> (j \in B \/ (j = 1 /\ ~Over(s)))
    BY <2>1, <2>2, <2>3, <2>4, <2>5
  <2> QED BY <2>1, <2>6, <2>7
<1> HIDE DEF B
<1>13. CASE Over(s)
  <2>1. Cardinality(Chunks(q)) \in Nat
    BY ActFacts
  <2>2. Cardinality(Chunks(r)) = Cardinality(Chunks(q))
    BY <1>11, <1>12, <1>13, ChunksAreUses
  <2> QED BY <1>2, <1>13, <2>1, <2>2
<1>14. CASE ~Over(s)
  <2>1. B \subseteq Act(r) /\ Act(r) = B \cup {1}
    BY <1>12, <1>14
  <2>2. IsFiniteSet(B)
    BY <1>6, <2>1, FS_Subset
  <2>3. \A j \in B \cup {1} : Sizes(r)[j] \in Nat
    <3>1. 1 \in 1 .. n + 1
      OBVIOUS
    <3> QED BY <1>6, <1>12, <3>1
  <2>4. Cardinality(Uses(Act(r), Sizes(r))) = Cardinality(Uses(B, Sizes(r))) + Sizes(r)[1]
    BY <1>12, <2>1, <2>2, <2>3, UsesAdd
  <2>5. Sizes(r)[1] = s.size
    <3>1. 1 \in 1 .. n + 1
      OBVIOUS
    <3> QED BY <1>3, <1>6, <3>1
  <2> QED BY <1>2, <1>11, <1>14, <2>4, <2>5, ChunksAreUses
<1> QED BY <1>13, <1>14

(* A snapshot that goes on, or is over.                                    *)
LEMMA InUseChanges ==
  ASSUME NEW q \in Seq(SnapRec), NEW i \in DOMAIN q, ~Over(q[i]), NEW s \in SnapRec,
         s.size = q[i].size, s.buf = q[i].buf
  PROVE  Cardinality(Chunks(q))
           = Cardinality(Chunks([q EXCEPT ![i] = s])) + IF Over(s) THEN s.size ELSE 0
<1>1. PICK n \in Nat : n = Len(q) /\ DOMAIN q = 1 .. n /\ q \in [1 .. n -> SnapRec]
  BY QueueFacts
<1>2. PICK r : r = [q EXCEPT ![i] = s]
  OBVIOUS
<1>3. r \in Seq(SnapRec) /\ DOMAIN r = 1 .. n /\ \A j \in 1 .. n : r[j] = IF j = i THEN s ELSE q[j]
  BY <1>1, <1>2, QueueChanges
<1>4. Sizes(r) = Sizes(q)
  BY <1>1, <1>3 DEF Sizes
<1>5. Act(r) = IF Over(s) THEN Act(q) \ {i} ELSE Act(q)
  BY <1>1, <1>3 DEF Act
<1>6. /\ IsFiniteSet(Act(q)) /\ Act(q) \subseteq DOMAIN q /\ i \in Act(q)
      /\ \A j \in DOMAIN q : Sizes(q)[j] \in Nat /\ Sizes(q)[j] = q[j].size
      /\ Cardinality(Chunks(q)) \in Nat
  BY ActFacts DEF Act
<1>7. CASE Over(s)
  <2>1. PICK A : A = Act(r) /\ i \notin A /\ Act(q) = A \cup {i}
    BY <1>5, <1>6, <1>7
  <2>2. IsFiniteSet(A)
    BY <1>6, <2>1, FS_Subset
  <2>3. \A j \in A \cup {i} : Sizes(q)[j] \in Nat
    BY <1>6, <2>1
  <2>4. Cardinality(Uses(A \cup {i}, Sizes(q))) = Cardinality(Uses(A, Sizes(q))) + Sizes(q)[i]
    BY <2>1, <2>2, <2>3, UsesAdd
  <2>5. Sizes(q)[i] = s.size
    BY <1>6
  <2> QED BY <1>2, <1>4, <1>7, <2>1, <2>4, <2>5, ChunksAreUses
<1>8. CASE ~Over(s)
  <2>1. Chunks(r) = Chunks(q)
    BY <1>4, <1>5, <1>8, ChunksAreUses
  <2> QED BY <1>2, <1>6, <1>8, <2>1
<1> QED BY <1>7, <1>8

(* Those that are over are dropped.                                        *)
LEMMA InUsePicked ==
  ASSUME NEW q \in Seq(SnapRec), NEW I \in SUBSET DOMAIN q, Act(q) \subseteq I
  PROVE  Cardinality(Chunks(Picked(q, I))) = Cardinality(Chunks(q))
<1>1. PICK n \in Nat : DOMAIN q = 1 .. n /\ q \in [1 .. n -> SnapRec]
  BY QueueFacts
<1>2. PICK f : /\ f \in [1 .. Cardinality(I) -> I]
               /\ \A l, m \in 1 .. Cardinality(I) : f[l] = f[m] => l = m
               /\ \A i \in I : \E l \in 1 .. Cardinality(I) : f[l] = i
               /\ Picked(q, I) = [l \in 1 .. Cardinality(I) |-> q[f[l]]]
               /\ Cardinality(I) \in Nat
  BY <1>1, PickedFacts
<1>3. PICK c \in Nat : c = Cardinality(I)
  BY <1>2
<1>4. PICK r : r = Picked(q, I)
  OBVIOUS
<1>5. r \in Seq(SnapRec) /\ DOMAIN r = 1 .. c /\ \A l \in 1 .. c : r[l] = q[f[l]] /\ f[l] \in DOMAIN q
  BY <1>2, <1>3, <1>4, QueuePicked
<1>6. Act(r) \subseteq 1 .. c /\ \A l \in 1 .. c : l \in Act(r) <=> f[l] \in Act(q)
  BY <1>5 DEF Act
<1> DEFINE g == [l \in Act(r) |-> f[l]]
<1>7. g \in [Act(r) -> Act(q)] /\ \A l \in Act(r) : g[l] = f[l]
  BY <1>6
<1> HIDE DEF g
<1>8. \A l, m \in Act(r) : g[l] = g[m] => l = m
  BY <1>2, <1>3, <1>6, <1>7
<1>9. \A i \in Act(q) : \E l \in Act(r) : g[l] = i
  <2> SUFFICES ASSUME NEW i \in Act(q) PROVE \E l \in Act(r) : g[l] = i
    OBVIOUS
  <2>1. PICK l \in 1 .. c : f[l] = i
    BY <1>2, <1>3
  <2>2. l \in Act(r)
    BY <1>6, <2>1
  <2> QED BY <1>7, <2>1, <2>2
<1>10. /\ IsFiniteSet(Act(r)) /\ \A l \in Act(r) : Sizes(r)[l] \in Nat /\ Sizes(r)[l] = r[l].size
  BY <1>5, <1>6, ActFacts
<1>11. \A l \in Act(r) : Sizes(q)[g[l]] = Sizes(r)[l]
  <2> SUFFICES ASSUME NEW l \in Act(r) PROVE Sizes(q)[g[l]] = Sizes(r)[l]
    OBVIOUS
  <2>1. l \in 1 .. c /\ f[l] \in DOMAIN q /\ g[l] = f[l] /\ r[l] = q[f[l]]
    BY <1>5, <1>6, <1>7
  <2>2. Sizes(q)[f[l]] = q[f[l]].size
    BY <2>1, ActFacts
  <2> QED BY <1>10, <2>1, <2>2
<1>12. Cardinality(Uses(Act(q), Sizes(q))) = Cardinality(Uses(Act(r), Sizes(r)))
  BY <1>7, <1>8, <1>9, <1>10, <1>11, UsesMove
<1> QED BY <1>4, <1>12, ChunksAreUses

-----------------------------------------------------------------------------
(***************************************************************************)
(* How long the pools last.                                                *)
(***************************************************************************)
(* Once there are chunks, those that are free and those in use are a batch *)
(* or more.                                                                *)
ChunkInv ==
  crashed = "no" => \/ N_in_chunkQ = 0 /\ chunkQ = 0 /\ InUse = 0
                    \/ chunkQ + InUse >= ChunkAlloc

(* The inductive invariant of PoolsLast.                                   *)
PInv == HInv /\ ChunkInv /\ PoolsLast

(* A file has one chunk at least.                                          *)
LEMMA SizesPositive == \A x \in FileChunks : x \in Nat /\ x > 0
BY BuffersConstants

(* What is in use is counted in numbers.                                   *)
LEMMA InUseNat == HInv => InUse \in Nat /\ Len(snapQ) \in Nat
BY ActFacts, QueueFacts DEF HInv, TInv, InUse

(* At the start nothing is in use.                                         *)
LEMMA PInit == Init => ChunkInv /\ PoolsLast
<1> SUFFICES ASSUME Init PROVE ChunkInv /\ PoolsLast
  OBVIOUS
<1>1. Chunks(snapQ) = {}
  <2>1. DOMAIN snapQ = {}
    BY DEF Init
  <2> QED BY <2>1 DEF Chunks
<1>2. InUse = 0
  BY <1>1, FS_EmptySet DEF InUse
<1> QED BY <1>2 DEF Init, ChunkInv, PoolsLast

(* Nothing that the pools count is touched.                                *)
LEMMA PSame ==
  ASSUME PInv, UNCHANGED <<snapQ, crashed, chunkQ, N_in_chunkQ>>
  PROVE  (ChunkInv /\ PoolsLast)'
BY DEF PInv, ChunkInv, PoolsLast, InUse

(* MAIN finds too few buffers only when snapshots have the rest.           *)
LEMMA PTakes ==
  ASSUME PInv, NEW kind \in Kind, Takes(kind), Crashes
  PROVE  (ChunkInv /\ PoolsLast)'
<1>1. PICK F, R, K : HoldersAre(F, R, K)
  BY DEF PInv, HInv, Held
<1>2. at = "idle" /\ TInv /\ RingInv /\ Len(Free) < 2 /\ crashed' = "strbuf" /\ snapQ' = snapQ
  BY DEF Takes, Crashes, PInv, HInv
<1>3. chain = <<>>
  BY <1>2 DEF RingInv
<1>4. PICK n \in Nat : n = Len(snapQ)
  BY QueueFacts, <1>2 DEF TInv
<1>5. PICK f \in Nat, m \in Nat : f = Len(sbufQ) /\ m = made /\ m >= StrbufAlloc
  BY <1>1, <1>2, ListFacts DEF HoldersAre, TInv
<1>6. m = f + n
  <2>1. OneHolder
    BY HeldOnce DEF PInv
  <2>2. Len(BufsOf(snapQ)) = n /\ BufsOf(snapQ) \in Seq(Nat)
    BY <1>2, <1>4, QueueFacts DEF TInv
  <2>3. sbufQ \in Seq(Nat)
    <3>1. F \subseteq Nat /\ sbufQ \in Seq(F)
      BY <1>1, <1>2, ListFacts DEF HoldersAre, TInv
    <3> QED BY <3>1, SeqMonotonic
  <2>4. sbufQ \o <<>> = sbufQ
    BY <2>3, ConcatEmptySeq
  <2>5. Len(sbufQ \o BufsOf(snapQ)) = f + n
    BY <1>5, <2>2, <2>3, ConcatProperties
  <2>6. (sbufQ \o chain) \o BufsOf(snapQ) = sbufQ \o BufsOf(snapQ)
    BY <1>3, <2>4
  <2>7. Len((sbufQ \o chain) \o BufsOf(snapQ)) = made
    BY <2>1 DEF OneHolder, BufsOf
  <2> QED BY <1>5, <2>5, <2>6, <2>7
<1>7. f < 2
  <2>1. More = 0
    BY <1>2, CrashIsSame DEF PInv
  <2>2. Len(Free) = More + Len(sbufQ)
    BY <1>1, <1>2, FreeFacts DEF HoldersAre
  <2> QED BY <1>2, <1>5, <2>1, <2>2
<1>8. Len(snapQ) > StrbufAlloc - 2
  <2>1. StrbufAlloc \in Nat
    BY BuffersConstants
  <2> QED BY <1>4, <1>5, <1>6, <1>7, <2>1
<1> QED BY <1>2, <1>8 DEF ChunkInv, PoolsLast

(* A file is set up for a snapshot.                                        *)
LEMMA PSnap ==
  ASSUME PInv, NEW size \in FileChunks, WriterSnap(size)
  PROVE  (ChunkInv /\ PoolsLast)'
<1>0. crashed = "no" /\ at = "WRITER"
  BY DEF WriterSnap
<1>1. PICK a \in Nat, c \in Nat, u \in Nat, z \in Nat, al \in Nat :
        /\ a = chunkQ /\ c = N_in_chunkQ /\ u = InUse /\ z = size /\ al = ChunkAlloc /\ z > 0
  <2>1. InUse \in Nat
    BY InUseNat DEF PInv
  <2>2. chunkQ \in Nat /\ N_in_chunkQ \in Nat
    BY DEF PInv, HInv, TInv
  <2>3. size \in Nat /\ size > 0
    BY SizesPositive
  <2>4. ChunkAlloc \in Nat
    BY BuffersConstants
  <2> QED BY <2>1, <2>2, <2>3, <2>4
<1>2. PICK F, R, K : HoldersAre(F, R, K)
  BY DEF PInv, HInv, Held
<1>3. /\ NewSnap(size) \in SnapRec /\ [NewSnap(size) EXCEPT !.state = "over"] \in SnapRec
  BY <1>0, <1>2, NewSnapFacts DEF PInv, HInv
<1>4. ~Over(NewSnap(size)) /\ NewSnap(size).size = z /\ Over([NewSnap(size) EXCEPT !.state = "over"])
  BY <1>1 DEF NewSnap, Over
<1>5. (c = 0 /\ a = 0 /\ u = 0) \/ a + u >= al
  BY <1>0, <1>1 DEF PInv, ChunkInv
<1>s. snapQ \in Seq(SnapRec)
  BY DEF PInv, HInv, TInv
<1>6. CASE AllocChunk(chunkQ, N_in_chunkQ, size) /\ snapQ' = <<NewSnap(size)>> \o snapQ
  <2>1. InUse' = u + z
    <3>1. Cardinality(Chunks(snapQ')) = Cardinality(Chunks(snapQ)) + z
      BY <1>3, <1>4, <1>6, <1>s, InUseAdds
    <3> QED BY <1>1, <3>1 DEF InUse
  <2>2. PICK batch \in Nat :
        /\ batch = (IF c < z THEN al ELSE 0)
        /\ N_in_chunkQ' = c + batch
        /\ IF a + batch >= z THEN chunkQ' = a + batch - z /\ crashed' = crashed
           ELSE chunkQ' = 0 /\ crashed' = "chunk"
    BY <1>1, <1>6 DEF AllocChunk
  <2>3. CASE a + batch >= z
    <3>1. chunkQ' = a + batch - z /\ crashed' = "no"
      BY <1>0, <2>2, <2>3
    <3>2. (a + batch - z) + (u + z) >= al
      BY <1>1, <1>5, <2>2
    <3>3. chunkQ' + InUse' >= ChunkAlloc
      BY <1>1, <2>1, <3>1, <3>2
    <3> QED BY <3>1, <3>3 DEF ChunkInv, PoolsLast
  <2>4. CASE ~(a + batch >= z)
    <3>1. crashed' = "chunk"
      BY <2>2, <2>4
    <3>2. u + z > al
      BY <1>1, <1>5, <2>2, <2>4
    <3>3. InUse' > ChunkAlloc
      BY <1>1, <2>1, <3>2
    <3> QED BY <3>1, <3>3 DEF ChunkInv, PoolsLast
  <2> QED BY <2>3, <2>4
<1>7. CASE /\ snapQ' = <<[NewSnap(size) EXCEPT !.state = "over"]>> \o snapQ
           /\ UNCHANGED <<chunkVars, crashed>>
  <2>1. InUse' = u
    <3>1. Cardinality(Chunks(snapQ')) = Cardinality(Chunks(snapQ)) + 0
      BY <1>3, <1>4, <1>7, <1>s, InUseAdds
    <3> QED BY <1>1, <3>1 DEF InUse
  <2> QED BY <1>0, <1>1, <1>5, <1>7, <2>1 DEF ChunkInv, PoolsLast, chunkVars
<1> QED BY <1>6, <1>7 DEF WriterSnap

(* Ztatus takes only snapshots out that have no chunks.                    *)
LEMMA PZtatus ==
  ASSUME PInv, NEW looked, WriterZtatus(looked)
  PROVE  (ChunkInv /\ PoolsLast)'
<1>1. PICK F, R, K : HoldersAre(F, R, K)
  BY DEF PInv, HInv, Held
<1>2. snapQ' = Picked(snapQ, DOMAIN snapQ \ OverAmong(looked))
  BY <1>1, ZtatusEffect DEF PInv
<1>3. /\ snapQ \in Seq(SnapRec) /\ DOMAIN snapQ \ OverAmong(looked) \in SUBSET DOMAIN snapQ
      /\ Act(snapQ) \subseteq DOMAIN snapQ \ OverAmong(looked)
  BY DEF PInv, HInv, TInv, Act, OverAmong
<1>4. InUse' = InUse
  BY <1>2, <1>3, InUsePicked DEF InUse
<1>5. crashed = "no" /\ UNCHANGED <<chunkVars, crashed>>
  BY DEF WriterZtatus
<1> QED BY <1>4, <1>5 DEF PInv, ChunkInv, PoolsLast, chunkVars

(* A snapshot in progress.                                                 *)
LEMMA PInProgress ==
  ASSUME PInv, NEW i \in DOMAIN snapQ,
         WriterSends(i) \/ ReaderReturns(i) \/ FileEnds(i) \/ NextFile(i) \/ WriterMapFails(i)
  PROVE  (ChunkInv /\ PoolsLast)'
<1>0. crashed = "no" /\ ~Over(snapQ[i])
  BY DEF WriterSends, ReaderReturns, FileEnds, NextFile, WriterMapFails, Active, Over
<1>s. snapQ \in Seq(SnapRec) /\ TInv
  BY DEF PInv, HInv, TInv
<1>t. snapQ[i] \in SnapRec
  BY <1>s, QueueFacts
<1>1. PICK a \in Nat, c \in Nat, u \in Nat, al \in Nat :
        /\ a = chunkQ /\ c = N_in_chunkQ /\ u = InUse /\ al = ChunkAlloc
  BY InUseNat, BuffersConstants DEF PInv, HInv, TInv
<1>2. PICK z \in Nat : z = snapQ[i].size /\ z > 0
  <2>1. snapQ[i].size \in FileChunks
    BY <1>t DEF SnapRec
  <2>2. snapQ[i].size \in Nat /\ snapQ[i].size > 0
    BY <2>1, SizesPositive, Zenon
  <2> QED BY <2>2
<1>3. (c = 0 /\ a = 0 /\ u = 0) \/ a + u >= al
  BY <1>0, <1>1 DEF PInv, ChunkInv
(* What becomes of what is in use.                                         *)
<1>4. ASSUME NEW s \in SnapRec, snapQ' = [snapQ EXCEPT ![i] = s], s.buf = snapQ[i].buf,
             s.size = snapQ[i].size
      PROVE  u = InUse' + (IF Over(s) THEN z ELSE 0) /\ InUse' \in Nat
  <2>1. Cardinality(Chunks(snapQ)) = Cardinality(Chunks(snapQ')) + IF Over(s) THEN s.size ELSE 0
    BY <1>0, <1>4, <1>s, InUseChanges
  <2>2. snapQ' \in Seq(SnapRec)
    BY <1>4, <1>s, QueueChanges
  <2>3. Cardinality(Chunks(snapQ')) \in Nat
    BY <2>2, ActFacts
  <2> QED BY <1>1, <1>2, <1>4, <2>1, <2>3 DEF InUse
<1>5. CASE UNCHANGED <<snapQ, crashed, chunkQ, N_in_chunkQ>>
  BY <1>5, PSame
<1>6. ASSUME NEW s \in SnapRec, snapQ' = [snapQ EXCEPT ![i] = s], s.buf = snapQ[i].buf,
             s.size = snapQ[i].size, ~Over(s), UNCHANGED <<crashed, chunkQ, N_in_chunkQ>>
      PROVE  (ChunkInv /\ PoolsLast)'
  <2>1. InUse' = u
    <3>1. PICK v \in Nat : v = InUse'
      BY <1>4, <1>6
    <3>2. u = v + 0
      BY <1>4, <1>6, <3>1
    <3>3. u = v
      BY <3>2
    <3> QED BY <3>1, <3>3, Zenon
  <2> QED BY <1>0, <1>1, <1>3, <1>6, <2>1 DEF ChunkInv, PoolsLast
<1>7. ASSUME NEW s \in SnapRec, snapQ' = [snapQ EXCEPT ![i] = s], s.buf = snapQ[i].buf,
             s.size = snapQ[i].size, Over(s), ReleaseChunk(z), crashed' = crashed
      PROVE  (ChunkInv /\ PoolsLast)'
  <2>1. PICK v \in Nat : v = InUse' /\ u = v + z
    BY <1>4, <1>7
  <2>2. chunkQ' = a + z
    BY <1>1, <1>7 DEF ReleaseChunk, FreeAfter
  <2>3. (a + z) + v >= al
    BY <1>1, <1>2, <1>3, <2>1
  <2>4. chunkQ' + InUse' >= ChunkAlloc
    BY <1>1, <2>1, <2>2, <2>3
  <2> QED BY <1>0, <1>7, <2>4 DEF ChunkInv, PoolsLast
<1>r. PICK r \in SnapRec : r = snapQ[i]
  BY <1>t
<1>8. [r EXCEPT !.state = "over"] \in SnapRec /\ [r EXCEPT !.state = "over"].buf = r.buf
      /\ Over([r EXCEPT !.state = "over"]) /\ [r EXCEPT !.state = "over"].size = r.size
  BY DEF SnapRec, Over
<1>9. CASE WriterSends(i) \/ ReaderReturns(i)
  <2>1. UNCHANGED <<crashed, chunkQ, N_in_chunkQ>>
    BY <1>9 DEF WriterSends, ReaderReturns, chunkVars
  <2>2. PICK o : snapQ' = [snapQ EXCEPT ![i] = [r EXCEPT !.out = o]]
    BY <1>9, <1>r DEF WriterSends, ReaderReturns, Becomes
  <2>3. PICK s : s = [r EXCEPT !.out = o]
    OBVIOUS
  <2>4. s.buf = r.buf /\ s.size = r.size /\ ~Over(s)
    BY <1>0, <1>r, <2>3 DEF Over, SnapRec
  <2>5. s \in SnapRec
    <3>1. \/ UNCHANGED snapQ
          \/ \E t \in SnapRec : snapQ' = [snapQ EXCEPT ![i] = t]
      BY <1>9, <1>s, InProgress
    <3>2. snapQ'[i] \in SnapRec /\ snapQ'[i] = s
      BY <1>t, <2>2, <2>3, <3>1
    <3> QED BY <3>2
  <2> QED BY <1>6, <1>r, <2>1, <2>2, <2>3, <2>4, <2>5
<1>10. CASE FileEnds(i)
  <2>1. /\ snapQ' = [snapQ EXCEPT ![i] = [r EXCEPT !.state = "over"]]
        /\ ReleaseChunk(z) /\ crashed' = crashed
    BY <1>2, <1>10, <1>r DEF FileEnds, Becomes
  <2> QED BY <1>7, <1>8, <1>r, <2>1
<1>11. CASE NextFile(i)
  <2>1. CASE /\ AllocChunk(FreeAfter(snapQ[i].size), N_in_chunkQ + snapQ[i].size, snapQ[i].size)
             /\ UNCHANGED snapQ
    <3>1. PICK batch \in Nat :
        /\ N_in_chunkQ' = (c + z) + batch
        /\ IF (a + z) + batch >= z THEN chunkQ' = (a + z) + batch - z /\ crashed' = crashed
           ELSE chunkQ' = 0 /\ crashed' = "chunk"
      BY <1>1, <1>2, <2>1 DEF AllocChunk, FreeAfter
    <3>2. (a + z) + batch >= z /\ (a + z) + batch - z = a + batch
      OBVIOUS
    <3>3. chunkQ' = a + batch /\ crashed' = "no" /\ InUse' = u
      BY <1>0, <1>1, <2>1, <3>1, <3>2 DEF InUse
    <3>4. a + u >= al
      (* it has chunks of its own *)
      <4>1. u # 0
        <5>1. <<i, 1>> \in Chunks(snapQ)
          <6>1. i \in Act(snapQ) /\ 1 \in 1 .. Sizes(snapQ)[i]
            BY <1>0, <1>2 DEF Act, Sizes
          <6> QED BY <6>1, UsesMember, ChunksAreUses
        <5>2. IsFiniteSet(Chunks(snapQ))
          BY <1>s, ActFacts, UsesFinite, ChunksAreUses
        <5> QED BY <1>1, <5>1, <5>2, FS_EmptySet DEF InUse
      <4> QED BY <1>3, <4>1
    <3>5. (a + batch) + u >= al
      BY <3>4
    <3>6. chunkQ' + InUse' >= ChunkAlloc
      BY <1>1, <3>3, <3>5
    <3> QED BY <3>3, <3>6 DEF ChunkInv, PoolsLast
  <2>2. CASE /\ ReleaseChunk(z) /\ crashed' = crashed
             /\ snapQ' = [snapQ EXCEPT ![i] = [r EXCEPT !.state = "over"]]
    BY <1>7, <1>8, <1>r, <2>2
  <2> QED BY <1>2, <1>11, <1>r, <2>1, <2>2 DEF NextFile, Becomes
<1>12. CASE WriterMapFails(i)
  <2>1. /\ snapQ' = [snapQ EXCEPT ![i] = [r EXCEPT !.state = "over", !.out = 0]]
        /\ ReleaseChunk(z) /\ crashed' = crashed
    BY <1>2, <1>12, <1>r DEF WriterMapFails, Becomes
  <2>2. PICK t \in SnapRec : t = [r EXCEPT !.state = "over"]
    BY <1>8
  <2>3. [r EXCEPT !.state = "over", !.out = 0] = [t EXCEPT !.out = 0]
    BY <2>2
  <2>4. 0 \in 0 .. MaxOut
    BY BuffersConstants
  <2>5. [t EXCEPT !.out = 0] \in SnapRec /\ [t EXCEPT !.out = 0].buf = t.buf
        /\ [t EXCEPT !.out = 0].size = t.size /\ [t EXCEPT !.out = 0].state = t.state
    BY <2>4 DEF SnapRec
  <2>6. Over([t EXCEPT !.out = 0])
    BY <1>8, <2>2, <2>5 DEF Over
  <2> QED BY <1>7, <1>8, <1>r, <2>1, <2>2, <2>3, <2>5, <2>6
<1> QED BY <1>9, <1>10, <1>11, <1>12

(* Every step keeps the invariant.                                         *)
LEMMA NextPInv ==
  ASSUME PInv, [Next]_vars
  PROVE  PInv'
<1>1. HInv'
  BY NextHInv DEF PInv
<1>2. (ChunkInv /\ PoolsLast)'
  <2>1. ASSUME NEW kind \in Kind, MainForward(kind) PROVE (ChunkInv /\ PoolsLast)'
    <3>1. Takes(kind)
      BY <2>1 DEF MainForward
    <3>2. CASE Crashes
      BY <3>1, <3>2, PTakes
    <3>3. CASE UNCHANGED <<snapQ, crashed, chunkVars>>
      BY <3>3, PSame DEF chunkVars
    <3> QED BY <2>1, <3>2, <3>3 DEF MainForward
  <2>2. CASE MainAnswer
    <3>1. Takes("own") /\ "own" \in Kind
      BY <2>2 DEF MainAnswer, Kind
    <3>2. CASE Crashes
      BY <3>1, <3>2, PTakes
    <3>3. CASE UNCHANGED <<snapQ, crashed, chunkVars>>
      BY <3>3, PSame DEF chunkVars
    <3> QED BY <2>2, <3>2, <3>3 DEF MainAnswer
  <2>3. CASE MainReply \/ Answer
    <3>1. UNCHANGED <<snapQ, crashed, chunkVars>>
      BY <2>3 DEF MainReply, Answer
    <3> QED BY <3>1, PSame DEF chunkVars
  <2>6. CASE ReaderReturnsLost
    <3>1. /\ UNCHANGED <<snapQ, chunkQ, N_in_chunkQ>> /\ crashed = "no"
          /\ crashed' \in {"no", "file"}
      BY <2>6 DEF ReaderReturnsLost, chunkVars
    <3> QED BY <3>1 DEF PInv, ChunkInv, PoolsLast, InUse
  <2>4. CASE Next
    BY <2>1, <2>2, <2>3, <2>4, <2>6, PSnap, PZtatus, PInProgress DEF Next
  <2>5. CASE UNCHANGED vars
    BY <2>5, PSame DEF vars, chunkVars
  <2> QED BY <2>4, <2>5
<1> QED BY <1>1, <1>2 DEF PInv

(* A pool gives out NULL only if more than StrbufAlloc - 2 snapshots wait  *)
(* to be reported, or more chunks are in use than a batch has, whatever    *)
(* its count says.                                                         *)
THEOREM PoolsAlwaysLast == Spec => []PoolsLast
<1>1. Init => PInv
  BY HInit, PInit DEF PInv
<1>2. PInv /\ [Next]_vars => PInv'
  BY NextPInv
<1>3. PInv => PoolsLast
  BY DEF PInv
<1> QED BY <1>1, <1>2, <1>3, PTL DEF Spec

(* Each variable keeps its type.                                           *)
THEOREM TypeCorrect == Spec => []TypeOK
<1>1. Init => XInv
  BY HInit, XInit DEF XInv
<1>2. XInv /\ [Next]_vars => XInv'
  BY NextXInv
<1>3. XInv => TypeOK
  <2> SUFFICES ASSUME XInv PROVE TypeOK
    OBVIOUS
  <2>1. PICK F, R, K : HoldersAre(F, R, K)
    BY DEF XInv, HInv, Held
  <2>2. sbufQ \in Seq(1 .. made) /\ chain \in Seq(1 .. made)
    <3>1. F \subseteq 1 .. made /\ R \subseteq 1 .. made /\ sbufQ \in Seq(F) /\ chain \in Seq(R)
      BY <2>1, ListFacts DEF HoldersAre
    <3> QED BY <3>1, SeqMonotonic
  <2> DEFINE T == [number : 0 .. MaxAsk, buf : 1 .. made, state : {"active", "over"},
                   size : FileChunks, out : 0 .. MaxOut]
  <2>3. snapQ \in Seq(T)
    <3>1. PICK n \in Nat : n = Len(snapQ) /\ DOMAIN snapQ = 1 .. n /\ snapQ \in [1 .. n -> SnapRec]
      BY QueueFacts DEF XInv, HInv, TInv
    <3>2. \A i \in 1 .. n : snapQ[i].buf \in 1 .. made
      BY <2>1, <3>1, KeptFacts DEF XInv, HInv
    <3>3. \A i \in 1 .. n : snapQ[i] \in T
      BY <3>1, <3>2 DEF SnapRec
    <3> HIDE DEF T
    <3>4. snapQ \in [1 .. n -> T]
      BY <3>1, <3>3
    <3> QED BY <3>4, SegmentIsSeq
  <2>4. text \in [1 .. made -> SUBSET (-MaxAsk .. MaxAsk)]
    BY DEF XInv, TextTyped, Texts
  <2> QED BY <2>2, <2>3, <2>4 DEF XInv, HInv, TInv, TypeOK
<1> QED BY <1>1, <1>2, <1>3, PTL DEF Spec
=============================================================================
