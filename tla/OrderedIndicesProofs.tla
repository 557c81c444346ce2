------------------------- MODULE OrderedIndicesProofs -------------------------
(***************************************************************************)
(* Proofs about OrderedIndices, for any keys, any number of indices and    *)
(* all bounds: the trees stay sorted, and post_modify, which looks at the  *)
(* neighbours of a node only, gives the right verdict, when no client      *)
(* modifies again an object whose modification was refused.                *)
(***************************************************************************)
EXTENDS OrderedIndices, UndoIndexProofs

----------------------------------------------------------------------------
(* Sequences that list a set *)

(* t lists every element of S once *)
Lists(t, S) ==
  /\ t \in Seq(S)
  /\ \A y \in S : \E k \in DOMAIN t : t[k] = y
  /\ \A j, k \in DOMAIN t : t[j] = t[k] => j = k

(* its elements that are in S are sorted by the key of index i *)
Ordered(t, i, val, S) ==
  \A j, k \in DOMAIN t : j < k /\ t[j] \in S /\ t[k] \in S =>
    KeyOf(i, t[j], val) <= KeyOf(i, t[k], val)

Numbered(i, val, S) == \A y \in S : KeyOf(i, y, val) \in Int

LEMMA ListFacts ==
  ASSUME NEW S, NEW t, Lists(t, S)
  PROVE  /\ t \in Seq(S) /\ Len(t) \in Nat /\ DOMAIN t = 1 .. Len(t)
         /\ \A k \in 1 .. Len(t) : t[k] \in S
         /\ \A y \in S : \E k \in 1 .. Len(t) : t[k] = y
         /\ \A j, k \in 1 .. Len(t) : t[j] = t[k] => j = k
<1>1. t \in Seq(S)
  BY DEF Lists
<1>2. Len(t) \in Nat /\ DOMAIN t = 1 .. Len(t) /\ t \in [1 .. Len(t) -> S]
  BY <1>1, LenProperties
<1> QED BY <1>1, <1>2 DEF Lists

LEMMA ListIs ==
  ASSUME NEW S, NEW t \in Seq(S),
         \A y \in S : \E k \in 1 .. Len(t) : t[k] = y,
         \A j, k \in 1 .. Len(t) : t[j] = t[k] => j = k
  PROVE  Lists(t, S)
<1>1. DOMAIN t = 1 .. Len(t)
  BY LenProperties
<1> QED BY <1>1 DEF Lists

LEMMA ListRange ==
  ASSUME NEW S, NEW t, Lists(t, S)
  PROVE  Range(t) = S
<1>1. \A y \in S : \E k \in DOMAIN t : t[k] = y
  BY DEF Lists
<1>2. \A k \in DOMAIN t : t[k] \in S
  BY ListFacts
<1> QED BY <1>1, <1>2 DEF Range

(* What RemoveAt at the position of x leaves *)
TakenOut(t, x, S) ==
  /\ Position(t, x) \in 1 .. Len(t) /\ t[Position(t, x)] = x
  /\ Without(t, x) \in Seq(S \ {x})
  /\ Len(Without(t, x)) = Len(t) - 1
  /\ \A k \in 1 .. Len(Without(t, x)) :
       Without(t, x)[k] = IF k < Position(t, x) THEN t[k] ELSE t[k + 1]

LEMMA WithoutFacts ==
  ASSUME NEW S, NEW t, Lists(t, S), NEW x \in S
  PROVE  TakenOut(t, x, S)
<1> DEFINE p == Position(t, x)
           a == SubSeq(t, 1, p - 1)
           b == SubSeq(t, p + 1, Len(t))
           u == a \o b
           R == S \ {x}
<1>1. /\ t \in Seq(S) /\ Len(t) \in Nat /\ DOMAIN t = 1 .. Len(t)
      /\ \A k \in 1 .. Len(t) : t[k] \in S
      /\ \A y \in S : \E k \in 1 .. Len(t) : t[k] = y
      /\ \A j, k \in 1 .. Len(t) : t[j] = t[k] => j = k
  BY ListFacts
<1>2. p \in 1 .. Len(t) /\ t[p] = x
  BY <1>1 DEF Position
<1> HIDE DEF p
<1>3. \A k \in 1 .. Len(t) : k # p => t[k] \in R
  BY <1>1, <1>2
<1>4. a \in Seq(R) /\ Len(a) = p - 1 /\ \A k \in 1 .. p - 1 : a[k] = t[k]
  <2>1. 1 \in Int /\ p - 1 \in Int /\ \A k \in 1 .. p - 1 : t[k] \in R
    BY <1>1, <1>2, <1>3
  <2>2. /\ a \in Seq(R) /\ Len(a) = IF 1 <= p - 1 THEN (p - 1) - 1 + 1 ELSE 0
        /\ \A k \in 1 .. (p - 1) - 1 + 1 : a[k] = t[1 + k - 1]
    BY <2>1, SubSeqProperties
  <2>3. (p - 1) - 1 + 1 = p - 1 /\ \A k \in 1 .. p - 1 : 1 + k - 1 = k
    BY <1>2
  <2>4. Len(a) = p - 1
    BY <1>2, <2>2
  <2> HIDE DEF a
  <2> QED BY <2>2, <2>3, <2>4
<1>5. /\ b \in Seq(R) /\ Len(b) = Len(t) - p
      /\ \A k \in 1 .. Len(t) - p : b[k] = t[p + k]
  <2>1. p + 1 \in Int /\ Len(t) \in Int /\ \A k \in p + 1 .. Len(t) : t[k] \in R
    BY <1>1, <1>2, <1>3
  <2>2. /\ b \in Seq(R) /\ Len(b) = IF p + 1 <= Len(t) THEN Len(t) - (p + 1) + 1 ELSE 0
        /\ \A k \in 1 .. Len(t) - (p + 1) + 1 : b[k] = t[(p + 1) + k - 1]
    BY <2>1, SubSeqProperties
  <2>3. /\ Len(t) - (p + 1) + 1 = Len(t) - p
        /\ \A k \in 1 .. Len(t) - p : (p + 1) + k - 1 = p + k
    BY <1>1, <1>2
  <2> HIDE DEF b
  <2>4. Len(b) = Len(t) - p
    <3>1. Len(b) = IF p + 1 <= Len(t) THEN Len(t) - (p + 1) + 1 ELSE 0
      BY <2>2
    <3>2. CASE p + 1 <= Len(t)
      BY <2>3, <3>1, <3>2
    <3>3. CASE ~(p + 1 <= Len(t))
      <4>1. p \in Int /\ Len(t) \in Int /\ p <= Len(t)
        BY <1>1, <1>2
      <4>2. Len(t) - p = 0
        BY <3>3, <4>1
      <4> QED BY <3>1, <3>3, <4>2
    <3> QED BY <3>2, <3>3
  <2> QED BY <2>2, <2>3, <2>4
<1> HIDE DEF a, b
<1>6. /\ u \in Seq(R) /\ Len(u) = Len(t) - 1
      /\ \A k \in 1 .. Len(t) - 1 : u[k] = IF k < p THEN t[k] ELSE t[k + 1]
  <2>1. /\ u \in Seq(R) /\ Len(u) = Len(a) + Len(b)
        /\ \A k \in 1 .. Len(a) + Len(b) :
             u[k] = IF k <= Len(a) THEN a[k] ELSE b[k - Len(a)]
    BY <1>4, <1>5, ConcatProperties
  <2>2. Len(a) + Len(b) = Len(t) - 1
    BY <1>1, <1>2, <1>4, <1>5
  <2> SUFFICES ASSUME NEW k \in 1 .. Len(t) - 1
               PROVE  u[k] = IF k < p THEN t[k] ELSE t[k + 1]
    BY <2>1, <2>2
  <2> HIDE DEF u
  <2>3. CASE k < p
    <3>1. k \in 1 .. p - 1 /\ k <= Len(a)
      BY <1>2, <1>4, <2>3
    <3> QED BY <1>4, <2>1, <2>2, <2>3, <3>1
  <2>4. CASE ~(k < p)
    <3>1. /\ ~(k <= Len(a)) /\ k - Len(a) \in 1 .. Len(t) - p
          /\ p + (k - Len(a)) = k + 1
      BY <1>1, <1>2, <1>4, <2>4
    <3>2. u[k] = b[k - Len(a)]
      BY <2>1, <2>2, <3>1
    <3>3. b[k - Len(a)] = t[p + (k - Len(a))]
      BY <1>5, <3>1
    <3> QED BY <2>4, <3>1, <3>2, <3>3
  <2> QED BY <2>3, <2>4
<1>7. Without(t, x) = u
  BY DEF Without, Seqs!RemoveAt, p, a, b
<1> HIDE DEF u
<1> QED BY <1>2, <1>6, <1>7 DEF p, TakenOut

LEMMA WithoutLists ==
  ASSUME NEW S, NEW t, Lists(t, S), NEW x \in S
  PROVE  Lists(Without(t, x), S \ {x})
<1> DEFINE p == Position(t, x)
           u == Without(t, x)
           R == S \ {x}
<1>1. /\ t \in Seq(S) /\ Len(t) \in Nat /\ DOMAIN t = 1 .. Len(t)
      /\ \A k \in 1 .. Len(t) : t[k] \in S
      /\ \A y \in S : \E k \in 1 .. Len(t) : t[k] = y
      /\ \A j, k \in 1 .. Len(t) : t[j] = t[k] => j = k
  BY ListFacts
<1>0. TakenOut(t, x, S)
  BY WithoutFacts
<1>2. p \in 1 .. Len(t) /\ t[p] = x
  BY <1>0 DEF TakenOut
<1>3. /\ Len(u) = Len(t) - 1
      /\ \A k \in 1 .. Len(u) : u[k] = IF k < p THEN t[k] ELSE t[k + 1]
  BY <1>0 DEF TakenOut
<1>4. u \in Seq(R)
  BY <1>0 DEF TakenOut
<1> HIDE DEF p, u
<1>6. /\ Len(u) = Len(t) - 1
      /\ \A k \in 1 .. Len(t) - 1 : u[k] = IF k < p THEN t[k] ELSE t[k + 1]
  BY <1>3
<1>8. \A y \in R : \E k \in 1 .. Len(u) : u[k] = y
  <2> SUFFICES ASSUME NEW y \in R PROVE \E k \in 1 .. Len(u) : u[k] = y
    OBVIOUS
  <2>1. PICK k \in 1 .. Len(t) : t[k] = y
    BY <1>1
  <2>2. k # p
    BY <1>2, <2>1
  <2>3. CASE k < p
    <3>1. k \in 1 .. Len(t) - 1
      BY <1>1, <1>2, <2>3
    <3> QED BY <1>6, <2>1, <2>3, <3>1
  <2>4. CASE k > p
    <3>1. k - 1 \in 1 .. Len(t) - 1 /\ ~(k - 1 < p) /\ (k - 1) + 1 = k
      BY <1>1, <1>2, <2>4
    <3> QED BY <1>6, <2>1, <3>1
  <2> QED BY <1>1, <1>2, <2>2, <2>3, <2>4
<1>9. \A j, k \in 1 .. Len(u) : u[j] = u[k] => j = k
  <2> SUFFICES ASSUME NEW j \in 1 .. Len(t) - 1, NEW k \in 1 .. Len(t) - 1, u[j] = u[k]
               PROVE  j = k
    BY <1>6
  <2> DEFINE f(n) == IF n < p THEN n ELSE n + 1
  <2>1. /\ f(j) \in 1 .. Len(t) /\ u[j] = t[f(j)]
        /\ f(k) \in 1 .. Len(t) /\ u[k] = t[f(k)]
    <3>1. \A n \in 1 .. Len(t) - 1 : u[n] = t[f(n)]
      BY <1>6
    <3>2. \A n \in 1 .. Len(t) - 1 : f(n) \in 1 .. Len(t)
      BY <1>1, <1>2
    <3> QED BY <3>1, <3>2
  <2>2. f(j) = f(k)
    <3> HIDE DEF f
    <3> QED BY <1>1, <2>1
  <2> QED BY <1>1, <1>2, <2>2
<1>10. Lists(u, R)
  BY <1>4, <1>8, <1>9, ListIs
<1> QED BY <1>10 DEF u

PutIn(t, p, x, S) ==
  /\ Seqs!InsertAt(t, p, x) \in Seq(S \cup {x})
  /\ Len(Seqs!InsertAt(t, p, x)) = Len(t) + 1
  /\ \A k \in 1 .. Len(Seqs!InsertAt(t, p, x)) :
       Seqs!InsertAt(t, p, x)[k] =
         IF k < p THEN t[k] ELSE IF k = p THEN x ELSE t[k - 1]

LEMMA InsertAtFacts ==
  ASSUME NEW S, NEW t, Lists(t, S), NEW x, x \notin S, NEW p \in 1 .. Len(t) + 1
  PROVE  PutIn(t, p, x, S)
<1> DEFINE a == SubSeq(t, 1, p - 1)
           b == SubSeq(t, p, Len(t))
           c == a \o <<x>>
           u == c \o b
           R == S \cup {x}
<1>1. /\ t \in Seq(S) /\ Len(t) \in Nat /\ DOMAIN t = 1 .. Len(t)
      /\ \A k \in 1 .. Len(t) : t[k] \in S
      /\ \A y \in S : \E k \in 1 .. Len(t) : t[k] = y
      /\ \A j, k \in 1 .. Len(t) : t[j] = t[k] => j = k
  BY ListFacts
<1>2. p \in Int /\ 1 <= p /\ p <= Len(t) + 1
  BY <1>1
<1>3. a \in Seq(R) /\ Len(a) = p - 1 /\ \A k \in 1 .. p - 1 : a[k] = t[k]
  <2>1. 1 \in Int /\ p - 1 \in Int /\ \A k \in 1 .. p - 1 : t[k] \in R
    BY <1>1, <1>2
  <2>2. /\ a \in Seq(R) /\ Len(a) = IF 1 <= p - 1 THEN (p - 1) - 1 + 1 ELSE 0
        /\ \A k \in 1 .. (p - 1) - 1 + 1 : a[k] = t[1 + k - 1]
    BY <2>1, SubSeqProperties
  <2>3. (p - 1) - 1 + 1 = p - 1 /\ \A k \in 1 .. p - 1 : 1 + k - 1 = k
    BY <1>2
  <2>4. Len(a) = p - 1
    BY <1>2, <2>2
  <2> HIDE DEF a
  <2> QED BY <2>2, <2>3, <2>4
<1>4. /\ b \in Seq(R) /\ Len(b) = Len(t) + 1 - p
      /\ \A k \in 1 .. Len(t) + 1 - p : b[k] = t[p + k - 1]
  <2>1. p \in Int /\ Len(t) \in Int /\ \A k \in p .. Len(t) : t[k] \in R
    BY <1>1, <1>2
  <2>2. /\ b \in Seq(R) /\ Len(b) = IF p <= Len(t) THEN Len(t) - p + 1 ELSE 0
        /\ \A k \in 1 .. Len(t) - p + 1 : b[k] = t[p + k - 1]
    BY <2>1, SubSeqProperties
  <2>3. Len(t) - p + 1 = Len(t) + 1 - p
    BY <1>1, <1>2
  <2>4. Len(b) = Len(t) + 1 - p
    BY <1>1, <1>2, <2>2
  <2> HIDE DEF b
  <2> QED BY <2>2, <2>3, <2>4
<1> HIDE DEF a, b
<1>5. c \in Seq(R) /\ Len(c) = p /\ c[p] = x /\ \A k \in 1 .. p - 1 : c[k] = t[k]
  <2>1. <<x>> \in Seq(R) /\ Len(<<x>>) = 1 /\ <<x>>[1] = x
    OBVIOUS
  <2>2. /\ c \in Seq(R) /\ Len(c) = Len(a) + 1
        /\ \A k \in 1 .. Len(a) + 1 : c[k] = IF k <= Len(a) THEN a[k] ELSE <<x>>[k - Len(a)]
    BY <1>3, <2>1, ConcatProperties
  <2>3. p \in 1 .. Len(a) + 1 /\ ~(p <= Len(a)) /\ p - Len(a) = 1 /\ Len(a) + 1 = p
    BY <1>2, <1>3
  <2>4. \A k \in 1 .. p - 1 : k \in 1 .. Len(a) + 1 /\ k <= Len(a)
    BY <1>2, <1>3
  <2> HIDE DEF c
  <2> QED BY <1>3, <2>1, <2>2, <2>3, <2>4
<1> HIDE DEF c
<1>6. /\ u \in Seq(R) /\ Len(u) = Len(t) + 1
      /\ \A k \in 1 .. Len(t) + 1 :
           u[k] = IF k < p THEN t[k] ELSE IF k = p THEN x ELSE t[k - 1]
  <2>1. /\ u \in Seq(R) /\ Len(u) = Len(c) + Len(b)
        /\ \A k \in 1 .. Len(c) + Len(b) :
             u[k] = IF k <= Len(c) THEN c[k] ELSE b[k - Len(c)]
    <3>1. c \in Seq(R) /\ b \in Seq(R)
      BY <1>4, <1>5
    <3> HIDE DEF R
    <3> QED BY <3>1, ConcatProperties
  <2>2. Len(c) + Len(b) = Len(t) + 1
    BY <1>1, <1>2, <1>4, <1>5
  <2> SUFFICES ASSUME NEW k \in 1 .. Len(t) + 1
               PROVE  u[k] = IF k < p THEN t[k] ELSE IF k = p THEN x ELSE t[k - 1]
    BY <2>1, <2>2
  <2> HIDE DEF u
  <2>3. CASE k <= p
    <3>1. k < p => k \in 1 .. p - 1
      BY <1>2
    <3>2. u[k] = c[k]
      BY <1>5, <2>1, <2>2, <2>3
    <3> QED BY <1>2, <1>5, <2>3, <3>1, <3>2
  <2>4. CASE k > p
    <3>1. /\ ~(k <= p) /\ k - p \in 1 .. Len(t) + 1 - p
          /\ p + (k - p) - 1 = k - 1 /\ ~(k < p) /\ k # p
      BY <1>1, <1>2, <2>4
    <3>2. u[k] = b[k - p]
      BY <1>5, <2>1, <2>2, <3>1
    <3>3. b[k - p] = t[p + (k - p) - 1]
      BY <1>4, <3>1
    <3> QED BY <3>1, <3>2, <3>3
  <2> QED BY <1>2, <2>3, <2>4
<1>7. Seqs!InsertAt(t, p, x) = u
  BY DEF Seqs!InsertAt, a, b, c
<1> HIDE DEF u
<1> QED BY <1>6, <1>7 DEF PutIn

LEMMA InsertAtLists ==
  ASSUME NEW S, NEW t, Lists(t, S), NEW x, x \notin S, NEW p \in 1 .. Len(t) + 1
  PROVE  Lists(Seqs!InsertAt(t, p, x), S \cup {x})
<1> DEFINE u == Seqs!InsertAt(t, p, x)
           R == S \cup {x}
<1>1. /\ t \in Seq(S) /\ Len(t) \in Nat /\ DOMAIN t = 1 .. Len(t)
      /\ \A k \in 1 .. Len(t) : t[k] \in S
      /\ \A y \in S : \E k \in 1 .. Len(t) : t[k] = y
      /\ \A j, k \in 1 .. Len(t) : t[j] = t[k] => j = k
  BY ListFacts
<1>2. p \in Int /\ 1 <= p /\ p <= Len(t) + 1
  BY <1>1
<1>0. PutIn(t, p, x, S)
  BY InsertAtFacts
<1>3. u \in Seq(R)
  BY <1>0 DEF PutIn
<1>4. /\ Len(u) = Len(t) + 1
      /\ \A k \in 1 .. Len(u) :
           u[k] = IF k < p THEN t[k] ELSE IF k = p THEN x ELSE t[k - 1]
  BY <1>0 DEF PutIn
<1> HIDE DEF u
<1>6. /\ Len(u) = Len(t) + 1
      /\ \A k \in 1 .. Len(t) + 1 :
           u[k] = IF k < p THEN t[k] ELSE IF k = p THEN x ELSE t[k - 1]
  BY <1>4
<1>8. \A y \in R : \E k \in 1 .. Len(u) : u[k] = y
  <2> SUFFICES ASSUME NEW y \in R PROVE \E k \in 1 .. Len(u) : u[k] = y
    OBVIOUS
  <2>1. CASE y = x
    BY <1>1, <1>2, <1>6, <2>1
  <2>2. CASE y # x
    <3>1. PICK k \in 1 .. Len(t) : t[k] = y
      BY <1>1, <2>2
    <3>2. CASE k < p
      <4>1. k \in 1 .. Len(t) + 1
        BY <1>1
      <4> QED BY <1>6, <3>1, <3>2, <4>1
    <3>3. CASE ~(k < p)
      <4>1. k + 1 \in 1 .. Len(t) + 1 /\ ~(k + 1 < p) /\ k + 1 # p /\ (k + 1) - 1 = k
        BY <1>1, <1>2, <3>3
      <4> QED BY <1>6, <3>1, <4>1
    <3> QED BY <3>2, <3>3
  <2> QED BY <2>1, <2>2
<1>9. \A j, k \in 1 .. Len(u) : u[j] = u[k] => j = k
  <2> SUFFICES ASSUME NEW j \in 1 .. Len(t) + 1, NEW k \in 1 .. Len(t) + 1, u[j] = u[k]
               PROVE  j = k
    BY <1>6
  <2> DEFINE f(n) == IF n < p THEN n ELSE n - 1
  <2>1. /\ j # p => f(j) \in 1 .. Len(t) /\ u[j] = t[f(j)]
        /\ k # p => f(k) \in 1 .. Len(t) /\ u[k] = t[f(k)]
    BY <1>1, <1>2, <1>6
  <2>2. u[p] = x /\ p \in 1 .. Len(t) + 1
    BY <1>2, <1>6
  <2>3. j # p /\ k # p => f(j) = f(k)
    <3> HIDE DEF f
    <3> QED BY <1>1, <2>1
  <2>4. j = p <=> k = p
    <3> HIDE DEF f
    <3> QED BY <1>1, <2>1, <2>2
  <2> QED BY <1>1, <1>2, <2>3, <2>4
<1>10. Lists(u, R)
  BY <1>3, <1>8, <1>9, ListIs
<1> QED BY <1>10 DEF u
----------------------------------------------------------------------------
(* The order of one tree *)

LEMMA WithoutOrdered ==
  ASSUME NEW S, NEW t, Lists(t, S), NEW x \in S, NEW i, NEW val,
         Ordered(t, i, val, S \ {x})
  PROVE  Ordered(Without(t, x), i, val, S \ {x})
<1> DEFINE p == Position(t, x)
           u == Without(t, x)
<1>1. /\ p \in 1 .. Len(t) /\ Lists(u, S \ {x}) /\ Len(u) = Len(t) - 1
      /\ \A k \in 1 .. Len(u) : u[k] = IF k < p THEN t[k] ELSE t[k + 1]
  <2>1. TakenOut(t, x, S)
    BY WithoutFacts
  <2>2. Lists(u, S \ {x})
    BY WithoutLists, Zenon
  <2> QED BY <2>1, <2>2 DEF TakenOut
<1>2. /\ Len(t) \in Nat /\ DOMAIN t = 1 .. Len(t) /\ DOMAIN u = 1 .. Len(u)
      /\ \A k \in 1 .. Len(u) : u[k] \in S \ {x}
  BY <1>1, ListFacts
<1> HIDE DEF p, u
<1> SUFFICES ASSUME NEW j \in DOMAIN u, NEW k \in DOMAIN u, j < k
             PROVE  KeyOf(i, u[j], val) <= KeyOf(i, u[k], val)
  BY DEF Ordered, u
<1> DEFINE f(n) == IF n < p THEN n ELSE n + 1
<1>3. \A n \in 1 .. Len(u) : u[n] = t[f(n)] /\ t[f(n)] \in S \ {x}
  BY <1>1, <1>2
<1>4. f(j) \in 1 .. Len(t) /\ f(k) \in 1 .. Len(t) /\ f(j) < f(k)
  BY <1>1, <1>2
<1> HIDE DEF f
<1> QED BY <1>2, <1>3, <1>4 DEF Ordered

(* Wherever a node goes in, the others stay in order. *)
LEMMA InsertAtOrdered ==
  ASSUME NEW S, NEW t, Lists(t, S), NEW x, x \notin S, NEW p \in 1 .. Len(t) + 1,
         NEW i, NEW val, Ordered(t, i, val, S)
  PROVE  Ordered(Seqs!InsertAt(t, p, x), i, val, S)
<1> DEFINE u == Seqs!InsertAt(t, p, x)
<1>1. /\ Lists(u, S \cup {x}) /\ Len(u) = Len(t) + 1
      /\ \A k \in 1 .. Len(u) :
           u[k] = IF k < p THEN t[k] ELSE IF k = p THEN x ELSE t[k - 1]
  <2>1. PutIn(t, p, x, S)
    BY InsertAtFacts
  <2>2. Lists(u, S \cup {x})
    BY InsertAtLists, Zenon
  <2> QED BY <2>1, <2>2 DEF PutIn
<1>2. Len(t) \in Nat /\ DOMAIN t = 1 .. Len(t) /\ DOMAIN u = 1 .. Len(u)
  BY <1>1, ListFacts
<1> HIDE DEF u
<1> SUFFICES ASSUME NEW j \in DOMAIN u, NEW k \in DOMAIN u, j < k, u[j] \in S, u[k] \in S
             PROVE  KeyOf(i, u[j], val) <= KeyOf(i, u[k], val)
  BY DEF Ordered, u
<1> DEFINE f(n) == IF n < p THEN n ELSE n - 1
<1>3. j # p /\ k # p
  BY <1>1, <1>2
<1>4. \A n \in 1 .. Len(u) : n # p => u[n] = t[f(n)]
  BY <1>1
<1>5. f(j) \in 1 .. Len(t) /\ f(k) \in 1 .. Len(t) /\ f(j) < f(k)
  BY <1>1, <1>2, <1>3
<1> HIDE DEF f
<1> QED BY <1>2, <1>3, <1>4, <1>5 DEF Ordered

(* insert_equal into a sorted tree keeps it sorted. *)
LEMMA InsertEqualOrdered ==
  ASSUME NEW S, NEW t, Lists(t, S), NEW x, x \notin S, NEW i, NEW val,
         Numbered(i, val, S \cup {x}), Ordered(t, i, val, S)
  PROVE  /\ Lists(InsertEqual(t, i, x, val), S \cup {x})
         /\ Ordered(InsertEqual(t, i, x, val), i, val, S \cup {x})
<1> DEFINE G == {k \in DOMAIN t : KeyOf(i, t[k], val) > KeyOf(i, x, val)}
           p == UpperBound(t, i, x, val)
           u == InsertEqual(t, i, x, val)
<1>1. /\ Len(t) \in Nat /\ DOMAIN t = 1 .. Len(t)
      /\ \A k \in 1 .. Len(t) : t[k] \in S
  BY ListFacts
<1>2. /\ \A k \in 1 .. Len(t) : KeyOf(i, t[k], val) \in Int
      /\ KeyOf(i, x, val) \in Int
  BY <1>1 DEF Numbered
<1>3. p \in G \cup {Len(t) + 1} /\ \A k \in G \cup {Len(t) + 1} : p <= k
  <2>1. G \cup {Len(t) + 1} \subseteq Nat /\ G \cup {Len(t) + 1} # {}
    BY <1>1
  <2> QED BY <2>1, MinNat DEF UpperBound
<1>4. p \in 1 .. Len(t) + 1
  BY <1>1, <1>3
<1>5. \A k \in 1 .. Len(t) : k < p => KeyOf(i, t[k], val) <= KeyOf(i, x, val)
  <2> SUFFICES ASSUME NEW k \in 1 .. Len(t), k < p
               PROVE  KeyOf(i, t[k], val) <= KeyOf(i, x, val)
    OBVIOUS
  <2>1. k \notin G
    <3>1. ~(p <= k)
      BY <1>1, <1>4
    <3> HIDE DEF p, G
    <3> QED BY <1>3, <3>1
  <2> QED BY <1>1, <1>2, <2>1
<1>6. \A k \in 1 .. Len(t) : p <= k => KeyOf(i, x, val) <= KeyOf(i, t[k], val)
  <2> SUFFICES ASSUME NEW k \in 1 .. Len(t), p <= k
               PROVE  KeyOf(i, x, val) <= KeyOf(i, t[k], val)
    OBVIOUS
  <2>1. p \in G
    BY <1>1, <1>3, <1>4
  <2>2. p \in 1 .. Len(t) /\ KeyOf(i, t[p], val) > KeyOf(i, x, val)
    BY <1>1, <2>1
  <2>3. KeyOf(i, t[p], val) <= KeyOf(i, t[k], val)
    <3> HIDE DEF p
    <3>1. CASE p = k
      BY <1>2, <3>1
    <3>2. CASE p < k
      BY <1>1, <2>2, <3>2 DEF Ordered
    <3> QED BY <1>4, <3>1, <3>2
  <2> HIDE DEF p
  <2> QED BY <1>2, <2>2, <2>3
<1>7. u = Seqs!InsertAt(t, p, x)
  BY DEF InsertEqual
<1> HIDE DEF p, u, G
<1>8. /\ Lists(u, S \cup {x}) /\ Len(u) = Len(t) + 1
      /\ \A k \in 1 .. Len(u) :
           u[k] = IF k < p THEN t[k] ELSE IF k = p THEN x ELSE t[k - 1]
  <2>1. PutIn(t, p, x, S)
    BY <1>4, InsertAtFacts
  <2>2. Lists(u, S \cup {x})
    BY <1>4, <1>7, InsertAtLists, Zenon
  <2> QED BY <1>7, <2>1, <2>2 DEF PutIn
<1>9. DOMAIN u = 1 .. Len(u) /\ \A k \in 1 .. Len(u) : u[k] \in S \cup {x}
  BY <1>8, ListFacts
<1>10. Ordered(u, i, val, S)
  BY <1>4, <1>7, InsertAtOrdered
<1>11. ASSUME NEW j \in DOMAIN u, NEW k \in DOMAIN u, j < k
       PROVE  KeyOf(i, u[j], val) <= KeyOf(i, u[k], val)
  <2>1. CASE j = p
    <3>1. u[j] = x /\ u[k] = t[k - 1] /\ k - 1 \in 1 .. Len(t) /\ p <= k - 1
      BY <1>1, <1>4, <1>8, <1>9, <1>11, <2>1
    <3> QED BY <1>6, <3>1
  <2>2. CASE k = p
    <3>1. u[k] = x /\ u[j] = t[j] /\ j \in 1 .. Len(t) /\ j < p
      BY <1>1, <1>4, <1>8, <1>9, <1>11, <2>2
    <3> QED BY <1>5, <3>1
  <2>3. CASE j # p /\ k # p
    <3>1. u[j] \in S /\ u[k] \in S
      <4>1. \A n \in 1 .. Len(t) + 1 : n # p =>
              IF n < p THEN n \in 1 .. Len(t) ELSE n - 1 \in 1 .. Len(t)
        BY <1>1, <1>4
      <4> QED BY <1>1, <1>8, <1>9, <2>3, <4>1
    <3> QED BY <1>10, <1>11, <3>1 DEF Ordered
  <2> QED BY <2>1, <2>2, <2>3
<1> QED BY <1>8, <1>11 DEF Ordered, u

(* A node that compares well with its neighbours is in its place, and no   *)
(* other one has its key.                                                  *)
LEMMA InPlace ==
  ASSUME NEW S, NEW t, Lists(t, S), NEW x \in S, NEW i, NEW val,
         Numbered(i, val, S), Ordered(t, i, val, S \ {x}), ~Misplaced(t, i, x, val)
  PROVE  /\ Ordered(t, i, val, S)
         /\ \A y \in S \ {x} : KeyOf(i, y, val) # KeyOf(i, x, val)
<1> DEFINE p == Position(t, x)
           K(k) == KeyOf(i, t[k], val)
<1>1. /\ Len(t) \in Nat /\ DOMAIN t = 1 .. Len(t)
      /\ \A k \in 1 .. Len(t) : t[k] \in S
      /\ \A y \in S : \E k \in 1 .. Len(t) : t[k] = y
      /\ \A j, k \in 1 .. Len(t) : t[j] = t[k] => j = k
  BY ListFacts
<1>2. p \in 1 .. Len(t) /\ t[p] = x
  <2>1. TakenOut(t, x, S)
    BY WithoutFacts
  <2> QED BY <2>1 DEF TakenOut
<1>3. /\ p > 1 => ~(K(p - 1) >= K(p))
      /\ p < Len(t) => ~(K(p + 1) <= K(p))
  BY <1>2 DEF Misplaced
<1> HIDE DEF p
<1>4. \A k \in 1 .. Len(t) : K(k) \in Int
  BY <1>1 DEF Numbered
<1>5. \A k \in 1 .. Len(t) : k # p => t[k] \in S \ {x}
  BY <1>1, <1>2
<1>6. \A j, k \in 1 .. Len(t) : j < k /\ j # p /\ k # p => K(j) <= K(k)
  BY <1>1, <1>5 DEF Ordered
<1> HIDE DEF K
<1>7. ASSUME NEW k \in 1 .. Len(t), k < p PROVE K(k) < K(p)
  <2>1. p - 1 \in 1 .. Len(t) /\ p > 1 /\ p - 1 # p /\ k # p
    BY <1>1, <1>2, <1>7
  <2>2. K(p - 1) < K(p)
    BY <1>2, <1>3, <1>4, <2>1
  <2>3. CASE k = p - 1
    BY <2>2, <2>3
  <2>4. CASE k # p - 1
    <3>1. k < p - 1
      BY <1>2, <1>7, <2>4
    <3>2. K(k) <= K(p - 1)
      BY <1>6, <2>1, <3>1
    <3> QED BY <1>2, <1>4, <2>1, <2>2, <3>2
  <2> QED BY <2>3, <2>4
<1>8. ASSUME NEW k \in 1 .. Len(t), k > p PROVE K(p) < K(k)
  <2>1. p + 1 \in 1 .. Len(t) /\ p < Len(t) /\ p + 1 # p /\ k # p
    BY <1>1, <1>2, <1>8
  <2>2. K(p) < K(p + 1)
    BY <1>2, <1>3, <1>4, <2>1
  <2>3. CASE k = p + 1
    BY <2>2, <2>3
  <2>4. CASE k # p + 1
    <3>1. p + 1 < k
      BY <1>2, <1>8, <2>4
    <3>2. K(p + 1) <= K(k)
      BY <1>6, <2>1, <3>1
    <3> QED BY <1>2, <1>4, <2>1, <2>2, <3>2
  <2> QED BY <2>3, <2>4
<1>9. ASSUME NEW j \in 1 .. Len(t), NEW k \in 1 .. Len(t), j < k PROVE K(j) <= K(k)
  <2>1. CASE j = p
    BY <1>2, <1>4, <1>8, <1>9, <2>1
  <2>2. CASE k = p
    BY <1>2, <1>4, <1>7, <1>9, <2>2
  <2>3. CASE j # p /\ k # p
    BY <1>6, <1>9, <2>3
  <2> QED BY <2>1, <2>2, <2>3
<1>10. Ordered(t, i, val, S)
  BY <1>1, <1>9 DEF Ordered, K
<1>11. ASSUME NEW y \in S \ {x} PROVE KeyOf(i, y, val) # KeyOf(i, x, val)
  <2>1. PICK k \in 1 .. Len(t) : t[k] = y
    BY <1>1
  <2>2. k < p \/ k > p
    BY <1>2, <2>1
  <2>3. K(k) # K(p)
    BY <1>2, <1>4, <1>7, <1>8, <2>2
  <2> QED BY <1>2, <2>1, <2>3 DEF K
<1> QED BY <1>10, <1>11

Distinct(i, val, S) == \A x, y \in S : x # y => KeyOf(i, x, val) # KeyOf(i, y, val)

(* There is one sorted tree of a set of nodes with distinct keys. *)
LEMMA SameOrder ==
  ASSUME NEW S, NEW t, NEW u, Lists(t, S), Lists(u, S), NEW i, NEW val,
         Numbered(i, val, S), Distinct(i, val, S),
         Ordered(t, i, val, S), Ordered(u, i, val, S)
  PROVE  t = u
<1> DEFINE Key1(k) == KeyOf(i, t[k], val)
<1>1. /\ t \in Seq(S) /\ Len(t) \in Nat /\ DOMAIN t = 1 .. Len(t)
      /\ \A k \in 1 .. Len(t) : t[k] \in S
      /\ \A y \in S : \E k \in 1 .. Len(t) : t[k] = y
      /\ \A j, k \in 1 .. Len(t) : t[j] = t[k] => j = k
  BY ListFacts
<1>2. /\ u \in Seq(S) /\ Len(u) \in Nat /\ DOMAIN u = 1 .. Len(u)
      /\ \A k \in 1 .. Len(u) : u[k] \in S
      /\ \A y \in S : \E k \in 1 .. Len(u) : u[k] = y
      /\ \A j, k \in 1 .. Len(u) : u[j] = u[k] => j = k
  BY ListFacts
<1>3. \A j, k \in 1 .. Len(t) : j < k => KeyOf(i, t[j], val) < KeyOf(i, t[k], val)
  <2> SUFFICES ASSUME NEW j \in 1 .. Len(t), NEW k \in 1 .. Len(t), j < k
               PROVE  KeyOf(i, t[j], val) < KeyOf(i, t[k], val)
    OBVIOUS
  <2>1. KeyOf(i, t[j], val) <= KeyOf(i, t[k], val)
    BY <1>1 DEF Ordered
  <2>2. t[j] # t[k]
    BY <1>1
  <2>3. KeyOf(i, t[j], val) # KeyOf(i, t[k], val)
    BY <1>1, <2>2 DEF Distinct
  <2>4. KeyOf(i, t[j], val) \in Int /\ KeyOf(i, t[k], val) \in Int
    BY <1>1 DEF Numbered
  <2> QED BY <2>1, <2>3, <2>4
<1>4. \A j, k \in 1 .. Len(u) : j < k => KeyOf(i, u[j], val) < KeyOf(i, u[k], val)
  <2> SUFFICES ASSUME NEW j \in 1 .. Len(u), NEW k \in 1 .. Len(u), j < k
               PROVE  KeyOf(i, u[j], val) < KeyOf(i, u[k], val)
    OBVIOUS
  <2>1. KeyOf(i, u[j], val) <= KeyOf(i, u[k], val)
    BY <1>2 DEF Ordered
  <2>2. u[j] # u[k]
    BY <1>2
  <2>3. KeyOf(i, u[j], val) # KeyOf(i, u[k], val)
    BY <1>2, <2>2 DEF Distinct
  <2>4. KeyOf(i, u[j], val) \in Int /\ KeyOf(i, u[k], val) \in Int
    BY <1>2 DEF Numbered
  <2> QED BY <2>1, <2>3, <2>4
<1>5. \A y \in S : KeyOf(i, y, val) \in Int
  BY DEF Numbered
(* the first position where they differ, one of them may have ended *)
<1> DEFINE Bad == {k \in Nat \ {0} :
                     \/ k \in 1 .. Len(t) /\ (k \in 1 .. Len(u) => t[k] # u[k])
                     \/ k \in 1 .. Len(u) /\ (k \in 1 .. Len(t) => t[k] # u[k])}
<1>6. Bad = {}
  <2> SUFFICES ASSUME Bad # {} PROVE FALSE
    OBVIOUS
  <2>1. PICK k \in Bad : \A j \in Bad : k <= j
    <3>1. Bad \subseteq Nat
      OBVIOUS
    <3> HIDE DEF Bad
    <3> QED BY <3>1, LeastNat
  <2>2. \A j \in 1 .. k - 1 : j \in 1 .. Len(t) <=> j \in 1 .. Len(u)
    <3> SUFFICES ASSUME NEW j \in 1 .. k - 1 PROVE j \in 1 .. Len(t) <=> j \in 1 .. Len(u)
      OBVIOUS
    <3>1. j \in Nat \ {0} /\ ~(k <= j)
      OBVIOUS
    <3>2. j \notin Bad
      <4> HIDE DEF Bad
      <4> QED BY <2>1, <3>1
    <3> QED BY <3>1, <3>2
  <2>3. \A j \in 1 .. k - 1 : j \in 1 .. Len(t) => t[j] = u[j]
    <3> SUFFICES ASSUME NEW j \in 1 .. k - 1, j \in 1 .. Len(t) PROVE t[j] = u[j]
      OBVIOUS
    <3>1. j \in Nat \ {0} /\ ~(k <= j) /\ j \in 1 .. Len(u)
      BY <2>2
    <3>2. j \notin Bad
      <4> HIDE DEF Bad
      <4> QED BY <2>1, <3>1
    <3> QED BY <3>1, <3>2
  <2>4. k \in Nat \ {0}
    OBVIOUS
  <2>5. ASSUME k \in 1 .. Len(t)
        PROVE  k \in 1 .. Len(u) /\ KeyOf(i, u[k], val) <= KeyOf(i, t[k], val)
    <3>1. PICK j \in 1 .. Len(u) : u[j] = t[k]
      BY <1>1, <1>2, <2>5
    <3>2. ~(j < k)
      <4> SUFFICES ASSUME j < k PROVE FALSE
        OBVIOUS
      <4>1. j \in 1 .. k - 1 /\ j \in 1 .. Len(t)
        BY <1>1, <1>2, <2>4, <2>5
      <4>2. t[j] = t[k]
        BY <2>3, <3>1, <4>1
      <4> QED BY <1>1, <2>5, <4>1, <4>2
    <3>3. k \in 1 .. Len(u)
      BY <1>2, <2>4, <3>2
    <3>4. j = k \/ k < j
      BY <2>4, <3>2
    <3>5. CASE j = k
      BY <1>1, <1>5, <2>5, <3>1, <3>3, <3>5
    <3>6. CASE k < j
      <4>1. KeyOf(i, u[k], val) < KeyOf(i, u[j], val)
        BY <1>4, <3>3, <3>6
      <4>2. KeyOf(i, u[k], val) \in Int /\ KeyOf(i, t[k], val) \in Int
        BY <1>1, <1>2, <1>5, <2>5, <3>3
      <4> QED BY <3>1, <3>3, <4>1, <4>2
    <3> QED BY <3>4, <3>5, <3>6
  <2>6. ASSUME k \in 1 .. Len(u)
        PROVE  k \in 1 .. Len(t) /\ KeyOf(i, t[k], val) <= KeyOf(i, u[k], val)
    <3>1. PICK j \in 1 .. Len(t) : t[j] = u[k]
      BY <1>1, <1>2, <2>6
    <3>2. ~(j < k)
      <4> SUFFICES ASSUME j < k PROVE FALSE
        OBVIOUS
      <4>1. j \in 1 .. k - 1
        BY <1>1, <1>2, <2>4, <2>6
      <4>2. u[j] = u[k] /\ j \in 1 .. Len(u)
        BY <2>2, <2>3, <3>1, <4>1
      <4> QED BY <1>2, <2>6, <4>1, <4>2
    <3>3. k \in 1 .. Len(t)
      BY <1>1, <2>4, <3>2
    <3>4. j = k \/ k < j
      BY <2>4, <3>2
    <3>5. CASE j = k
      BY <1>2, <1>5, <2>6, <3>1, <3>3, <3>5
    <3>6. CASE k < j
      <4>1. KeyOf(i, t[k], val) < KeyOf(i, t[j], val)
        BY <1>3, <3>3, <3>6
      <4>2. KeyOf(i, u[k], val) \in Int /\ KeyOf(i, t[k], val) \in Int
        BY <1>1, <1>2, <1>5, <2>6, <3>3
      <4> QED BY <3>1, <3>3, <4>1, <4>2
    <3> QED BY <3>4, <3>5, <3>6
  <2>7. k \in 1 .. Len(t) /\ k \in 1 .. Len(u) /\ t[k] # u[k]
    <3>1. \/ k \in 1 .. Len(t) /\ (k \in 1 .. Len(u) => t[k] # u[k])
          \/ k \in 1 .. Len(u) /\ (k \in 1 .. Len(t) => t[k] # u[k])
      OBVIOUS
    <3> HIDE DEF Bad
    <3> QED BY <2>5, <2>6, <3>1
  <2>8. KeyOf(i, t[k], val) = KeyOf(i, u[k], val)
    BY <1>1, <1>2, <1>5, <2>5, <2>6, <2>7
  <2> QED BY <1>1, <1>2, <2>7, <2>8 DEF Distinct
<1>7. Len(t) = Len(u)
  <2>1. \A k \in Nat \ {0} : k \in 1 .. Len(t) <=> k \in 1 .. Len(u)
    BY <1>6
  <2> HIDE DEF Bad
  <2>2. Len(t) \in Nat /\ Len(u) \in Nat
    BY <1>1, <1>2
  <2>3. ~(Len(t) < Len(u))
    <3> SUFFICES ASSUME Len(t) < Len(u) PROVE FALSE
      OBVIOUS
    <3>1. Len(u) \in Nat \ {0} /\ Len(u) \in 1 .. Len(u) /\ Len(u) \notin 1 .. Len(t)
      BY <2>2
    <3> QED BY <2>1, <3>1
  <2>4. ~(Len(u) < Len(t))
    <3> SUFFICES ASSUME Len(u) < Len(t) PROVE FALSE
      OBVIOUS
    <3>1. Len(t) \in Nat \ {0} /\ Len(t) \in 1 .. Len(t) /\ Len(t) \notin 1 .. Len(u)
      BY <2>2
    <3> QED BY <2>1, <3>1
  <2> QED BY <2>2, <2>3, <2>4
<1>8. \A k \in 1 .. Len(t) : t[k] = u[k]
  <2>1. \A k \in Nat \ {0} : k \in 1 .. Len(t) /\ k \in 1 .. Len(u) => t[k] = u[k]
    BY <1>6
  <2> HIDE DEF Bad
  <2> QED BY <1>1, <1>7, <2>1
<1> QED BY <1>1, <1>2, <1>7, <1>8, SeqEqual
----------------------------------------------------------------------------
(* Loops.  A loop is a recursive function: after[k] is the result of k     *)
(* rounds.                                                                 *)

LEMMA LoopInvariant ==
  ASSUME NEW n \in Nat, NEW g, NEW D, g[0] \in D[0],
         \A k \in 1 .. n : g[k - 1] \in D[k - 1] => g[k] \in D[k]
  PROVE  \A k \in 0 .. n : g[k] \in D[k]
<1> DEFINE Bad == {k \in 0 .. n : g[k] \notin D[k]}
<1> SUFFICES ASSUME Bad # {} PROVE FALSE
  OBVIOUS
<1>1. PICK k \in Bad : \A j \in Bad : k <= j
  <2>1. Bad \subseteq Nat
    OBVIOUS
  <2> HIDE DEF Bad
  <2> QED BY <2>1, LeastNat
<1>2. k \in 0 .. n /\ g[k] \notin D[k]
  OBVIOUS
<1>3. k # 0
  BY <1>2
<1>4. k \in 1 .. n /\ k - 1 \in 0 .. n /\ ~(k <= k - 1)
  BY <1>2, <1>3
<1>5. g[k - 1] \in D[k - 1]
  BY <1>1, <1>4
<1> QED BY <1>2, <1>4, <1>5

(* g is the loop of n rounds that begins with b and does Step[k] in round k *)
IsRun(g, n, b, Step) ==
  g = [k \in 0 .. n |-> IF k = 0 THEN b ELSE Step[k][g[k - 1]]]

LEMMA LoopExists ==
  ASSUME NEW n \in Nat, NEW b, NEW Step
  PROVE  \E g : IsRun(g, n, b, Step)
<1> DEFINE Runs(m, g) == g = [k \in 0 .. m |-> IF k = 0 THEN b ELSE Step[k][g[k - 1]]]
           Bad == {m \in Nat : ~\E g : Runs(m, g)}
<1> SUFFICES ASSUME Bad # {} PROVE FALSE
  BY DEF IsRun
<1>1. PICK m \in Bad : \A j \in Bad : m <= j
  <2>1. Bad \subseteq Nat
    OBVIOUS
  <2> HIDE DEF Bad
  <2> QED BY <2>1, LeastNat
<1>2. m \in Nat /\ ~\E g : Runs(m, g)
  OBVIOUS
<1>3. m # 0
  <2> SUFFICES ASSUME m = 0 PROVE FALSE
    OBVIOUS
  <2> DEFINE g == [k \in 0 .. 0 |-> b]
  <2>1. g = [k \in 0 .. 0 |-> IF k = 0 THEN b ELSE Step[k][g[k - 1]]]
    <3>1. \A k \in 0 .. 0 : k = 0
      OBVIOUS
    <3> QED BY <3>1
  <2>2. Runs(0, g)
    BY <2>1
  <2> HIDE DEF Runs, g
  <2> QED BY <1>2, <2>2
<1>4. m - 1 \in Nat /\ ~(m <= m - 1)
  BY <1>2, <1>3
<1>5. PICK g : Runs(m - 1, g)
  <2>1. m - 1 \notin Bad
    <3> HIDE DEF Bad
    <3> QED BY <1>1, <1>4
  <2> HIDE DEF Runs
  <2> QED BY <1>4, <2>1
<1> DEFINE h == [k \in 0 .. m |-> IF k = 0 THEN b ELSE Step[k][g[k - 1]]]
<1>6. \A k \in 1 .. m : h[k - 1] = g[k - 1]
  <2> SUFFICES ASSUME NEW k \in 1 .. m PROVE h[k - 1] = g[k - 1]
    OBVIOUS
  <2>1. k - 1 \in 0 .. m /\ k - 1 \in 0 .. m - 1
    BY <1>2
  <2>2. h[k - 1] = IF k - 1 = 0 THEN b ELSE Step[k - 1][g[(k - 1) - 1]]
    BY <2>1
  <2>3. g[k - 1] = IF k - 1 = 0 THEN b ELSE Step[k - 1][g[(k - 1) - 1]]
    BY <1>5, <2>1
  <2> QED BY <2>2, <2>3
<1>7. h = [k \in 0 .. m |-> IF k = 0 THEN b ELSE Step[k][h[k - 1]]]
  <2>1. \A k \in 0 .. m : k # 0 => k \in 1 .. m
    BY <1>2
  <2>2. \A k \in 0 .. m : (IF k = 0 THEN b ELSE Step[k][g[k - 1]])
                          = IF k = 0 THEN b ELSE Step[k][h[k - 1]]
    <3> HIDE DEF h
    <3> QED BY <1>6, <2>1
  <2>3. [k \in 0 .. m |-> IF k = 0 THEN b ELSE Step[k][h[k - 1]]]
        = [k \in 0 .. m |-> IF k = 0 THEN b ELSE Step[k][g[k - 1]]]
    <3> HIDE DEF h
    <3> QED BY <2>2
  <2> QED BY <2>3
<1>8. Runs(m, h)
  BY <1>7
<1> HIDE DEF h, Runs
<1> QED BY <1>2, <1>8

----------------------------------------------------------------------------
(* post_modify *)

LEMMA AllIndices ==
  /\ Range(All) = {ById} \cup Secondary /\ ById \notin Secondary
  /\ Len(Indices) \in Nat
  /\ \A k \in 1 .. Len(Indices) : Indices[k] \in Secondary
  /\ \A i \in Secondary : \E k \in 1 .. Len(Indices) : Indices[k] = i
<1>1. Indices \in Seq(Secondary) /\ Range(Indices) = Secondary /\ ById \notin Secondary
  BY OrderedIndicesAssumption
<1>2. Len(Indices) \in Nat /\ \A k \in 1 .. Len(Indices) : Indices[k] \in Secondary
  BY <1>1, LenProperties
<1>3. Range(Indices) = {Indices[k] : k \in 1 .. Len(Indices)}
  BY <1>1, RangeEquality
<1>4. Range(All) = Range(<<ById>>) \cup Range(Indices)
  <2> DEFINE A == {ById} \cup Secondary
  <2>1. <<ById>> \in Seq(A) /\ Indices \in Seq(A)
    <3>1. Secondary \subseteq A
      OBVIOUS
    <3>2. Indices \in Seq(A)
      <4> HIDE DEF A
      <4> QED BY <1>1, <3>1, SeqMonotonic
    <3>3. ById \in A
      OBVIOUS
    <3> HIDE DEF A
    <3> QED BY <3>2, <3>3
  <2> HIDE DEF A
  <2> QED BY <2>1, RangeConcatenation DEF All
<1>5. Range(<<ById>>) = {ById}
  BY DEF Range
<1> QED BY <1>1, <1>2, <1>3, <1>4, <1>5

OrderedBut(t, i, val, S, x) == Ordered(t, i, val, S \ {x})
NoClash(i, x, val, S) == \A y \in S \ {x} : KeyOf(i, y, val) # KeyOf(i, x, val)

(* In one index: whatever the verdict, the node stays listed and the       *)
(* others in order, and the verdict is whether another one has its key.    *)
Refitted(t, u, ok, unique, i, x, val, S) ==
  /\ Lists(u, S) /\ OrderedBut(u, i, val, S, x)
  /\ ok <=> (unique => NoClash(i, x, val, S))
  /\ ok => Ordered(u, i, val, S)

LEMMA RefitInsert ==
  ASSUME NEW unique \in BOOLEAN, NEW S, NEW x \in S, NEW i, NEW val,
         NEW t, Lists(t, S), Numbered(i, val, S), OrderedBut(t, i, val, S, x)
  PROVE  Refitted(t, IF unique THEN InsertUnique(Without(t, x), i, x, val)
                     ELSE InsertEqual(Without(t, x), i, x, val),
                  unique => Equals(Without(t, x), i, x, val) = {}, unique, i, x, val, S)
<1> DEFINE R == S \ {x}
           rest == Without(t, x)
           E == Equals(rest, i, x, val)
<1>1. Lists(rest, R)
  BY WithoutLists, Zenon
<1>2. Ordered(rest, i, val, R)
  BY WithoutOrdered, Zenon DEF OrderedBut
<1>3. x \notin R /\ R \cup {x} = S
  OBVIOUS
<1> HIDE DEF R, rest
<1>4. Numbered(i, val, R \cup {x})
  BY <1>3
<1>5. /\ Len(rest) \in Nat /\ DOMAIN rest = 1 .. Len(rest)
      /\ \A k \in 1 .. Len(rest) : rest[k] \in R
      /\ \A y \in R : \E k \in 1 .. Len(rest) : rest[k] = y
  BY <1>1, ListFacts
<1>6. E = {} <=> NoClash(i, x, val, S)
  BY <1>5 DEF Equals, NoClash, R
<1>7. /\ Lists(InsertEqual(rest, i, x, val), S)
      /\ Ordered(InsertEqual(rest, i, x, val), i, val, S)
  <2>1. /\ Lists(InsertEqual(rest, i, x, val), R \cup {x})
        /\ Ordered(InsertEqual(rest, i, x, val), i, val, R \cup {x})
    BY <1>1, <1>2, <1>3, <1>4, InsertEqualOrdered, Zenon
  <2> QED BY <1>3, <2>1
<1>8. \A u : Ordered(u, i, val, S) => OrderedBut(u, i, val, S, x)
  BY DEF Ordered, OrderedBut
<1>9. ASSUME E # {}
      PROVE  LET u == Seqs!InsertAt(rest, Min(E), x)
             IN Lists(u, S) /\ OrderedBut(u, i, val, S, x)
  <2>1. E \subseteq Nat /\ E \subseteq 1 .. Len(rest)
    BY <1>5 DEF Equals
  <2>2. Min(E) \in E
    <3> HIDE DEF E
    <3> QED BY <1>9, <2>1, MinNat
  <2>3. Min(E) \in 1 .. Len(rest) + 1
    <3> HIDE DEF E
    <3>1. Min(E) \in 1 .. Len(rest)
      BY <2>1, <2>2, Zenon
    <3>2. 1 .. Len(rest) \subseteq 1 .. Len(rest) + 1
      BY <1>5
    <3> QED BY <3>1, <3>2, Zenon
  <2> DEFINE p == Min(E)
  <2> HIDE DEF p, E
  <2>4. p \in 1 .. Len(rest) + 1
    BY <2>3 DEF p
  <2>5. Lists(Seqs!InsertAt(rest, p, x), R \cup {x})
    BY <1>1, <1>3, <2>4, InsertAtLists, Zenon
  <2>6. Ordered(Seqs!InsertAt(rest, p, x), i, val, R)
    BY <1>1, <1>2, <1>3, <2>4, InsertAtOrdered, Zenon
  <2> QED BY <1>3, <2>5, <2>6 DEF p, OrderedBut, R
<1>10. CASE unique /\ E # {}
  <2>1. InsertUnique(rest, i, x, val) = Seqs!InsertAt(rest, Min(E), x)
    BY <1>10 DEF InsertUnique
  <2> HIDE DEF E
  <2>2. ~NoClash(i, x, val, S)
    BY <1>6, <1>10
  <2> QED BY <1>9, <1>10, <2>1, <2>2 DEF Refitted, rest, E
<1>11. CASE ~(unique /\ E # {})
  <2>1. (IF unique THEN InsertUnique(rest, i, x, val) ELSE InsertEqual(rest, i, x, val))
        = InsertEqual(rest, i, x, val)
    BY <1>11 DEF InsertUnique
  <2>2. unique => NoClash(i, x, val, S)
    BY <1>6, <1>11
  <2> HIDE DEF E
  <2> QED BY <1>7, <1>8, <1>11, <2>1, <2>2 DEF Refitted, rest, E
<1> QED BY <1>10, <1>11

Results(S) == [tree : [Range(All) -> Seq(S)], ok : BOOLEAN]

RefitDone(r, T, unique, i, x, val, S) ==
  /\ r \in Results(S)
  /\ \A j \in Range(All) : j # i => r.tree[j] = T[j]
  /\ Refitted(T[i], r.tree[i], r.ok, unique, i, x, val, S)

LEMMA RefitFacts ==
  ASSUME NEW unique \in BOOLEAN, NEW S, NEW x \in S, NEW val,
         NEW T \in [Range(All) -> Seq(S)], NEW i \in Secondary,
         Lists(T[i], S), Numbered(i, val, S), OrderedBut(T[i], i, val, S, x)
  PROVE  RefitDone(Refit(unique, T, i, x, val), T, unique, i, x, val, S)
<1> DEFINE r == Refit(unique, T, i, x, val)
           rest == Without(T[i], x)
           u == IF unique THEN InsertUnique(rest, i, x, val)
                ELSE InsertEqual(rest, i, x, val)
           ok == unique => Equals(rest, i, x, val) = {}
<1>0. i \in Range(All)
  BY AllIndices
<1>1. CASE ~Misplaced(T[i], i, x, val)
  <2>1. r = [tree |-> T, ok |-> TRUE]
    BY <1>1 DEF Refit
  <2>2. Ordered(T[i], i, val, S) /\ NoClash(i, x, val, S)
    BY <1>1, InPlace DEF OrderedBut, NoClash
  <2> QED BY <2>1, <2>2 DEF Refitted, RefitDone, Results
<1>2. CASE Misplaced(T[i], i, x, val)
  <2>1. r = [tree |-> [T EXCEPT ![i] = u], ok |-> ok]
    BY <1>2 DEF Refit
  <2>2. Refitted(T[i], u, ok, unique, i, x, val, S)
    BY RefitInsert
  <2>3. u \in Seq(S)
    BY <2>2 DEF Refitted, Lists
  <2>4. ok \in BOOLEAN
    OBVIOUS
  <2> HIDE DEF u, ok, r
  <2> QED BY <1>0, <2>1, <2>2, <2>3, <2>4 DEF r, RefitDone, Results
<1> QED BY <1>1, <1>2

LEMMA LoopRuns ==
  ASSUME NEW n \in Nat, NEW b, NEW Step, NEW D, b \in D[0],
         \A k \in 1 .. n : \A r \in D[k - 1] : Step[k][r] \in D[k]
  PROVE  \E g : IsRun(g, n, b, Step) /\ \A k \in 0 .. n : g[k] \in D[k]
<1>1. PICK g : IsRun(g, n, b, Step)
  BY LoopExists
<1>2. \A k \in 0 .. n : g[k] = IF k = 0 THEN b ELSE Step[k][g[k - 1]]
  BY <1>1 DEF IsRun
<1>3. g[0] \in D[0]
  BY <1>2
<1>4. \A k \in 1 .. n : g[k - 1] \in D[k - 1] => g[k] \in D[k]
  <2> TAKE k \in 1 .. n
  <2>1. k \in 0 .. n /\ k # 0
    OBVIOUS
  <2> QED BY <1>2, <2>1
<1>5. \A k \in 0 .. n : g[k] \in D[k]
  BY <1>3, <1>4, LoopInvariant
<1> QED BY <1>1, <1>5

(* After k indices: the verdict is whether the node may stand in each of   *)
(* them, and if so they are in order.                                      *)
Partly(r, k, T, unique, x, val, S) ==
  /\ r \in Results(S)
  /\ r.tree[ById] = T[ById]
  /\ \A i \in Secondary : /\ Lists(r.tree[i], S)
                          /\ OrderedBut(r.tree[i], i, val, S, x)
  /\ r.ok <=> (unique => \A j \in 1 .. k : NoClash(Indices[j], x, val, S))
  /\ r.ok => \A j \in 1 .. k : Ordered(r.tree[Indices[j]], Indices[j], val, S)

LEMMA RefitStep ==
  ASSUME NEW unique \in BOOLEAN, NEW S, NEW x \in S, NEW val, NEW T,
         \A i \in Secondary : Numbered(i, val, S),
         NEW k \in 1 .. Len(Indices), NEW r, Partly(r, k - 1, T, unique, x, val, S)
  PROVE  Partly(IF r.ok THEN Refit(unique, r.tree, Indices[k], x, val) ELSE r,
                k, T, unique, x, val, S)
<1>1. Len(Indices) \in Nat /\ k \in Nat /\ 1 .. k = 1 .. k - 1 \cup {k}
  BY AllIndices
<1>2. CASE ~r.ok
  BY <1>1, <1>2 DEF Partly
<1>3. CASE r.ok
  <2> DEFINE i == Indices[k]
             q == Refit(unique, r.tree, i, x, val)
  <2>1. i \in Secondary /\ i # ById /\ i \in Range(All) /\ ById \in Range(All)
        /\ Secondary \subseteq Range(All)
    BY AllIndices
  <2>2. /\ r.tree \in [Range(All) -> Seq(S)] /\ Lists(r.tree[i], S)
        /\ Numbered(i, val, S) /\ OrderedBut(r.tree[i], i, val, S, x)
    BY <2>1 DEF Partly, Results
  <2> HIDE DEF i
  <2>3. RefitDone(q, r.tree, unique, i, x, val, S)
    BY <2>1, <2>2, RefitFacts
  <2> HIDE DEF q
  <2>4. /\ q \in Results(S)
        /\ \A j \in Range(All) : j # i => q.tree[j] = r.tree[j]
        /\ Lists(q.tree[i], S) /\ OrderedBut(q.tree[i], i, val, S, x)
        /\ q.ok <=> (unique => NoClash(i, x, val, S))
        /\ q.ok => Ordered(q.tree[i], i, val, S)
    BY <2>3 DEF RefitDone, Refitted
  <2>5. q.tree[ById] = T[ById]
    BY <2>1, <2>4 DEF Partly
  <2>6. \A j \in Secondary : Lists(q.tree[j], S) /\ OrderedBut(q.tree[j], j, val, S, x)
    <3> TAKE j \in Secondary
    <3>1. CASE j = i
      BY <2>4, <3>1
    <3>2. CASE j # i
      BY <2>1, <2>4, <3>2 DEF Partly
    <3> QED BY <3>1, <3>2
  <2>7. q.ok <=> (unique => \A j \in 1 .. k : NoClash(Indices[j], x, val, S))
    BY <1>1, <1>3, <2>4 DEF Partly, i
  <2>8. q.ok => \A j \in 1 .. k : Ordered(q.tree[Indices[j]], Indices[j], val, S)
    <3> SUFFICES ASSUME q.ok, NEW j \in 1 .. k
                 PROVE  Ordered(q.tree[Indices[j]], Indices[j], val, S)
      OBVIOUS
    <3>1. CASE Indices[j] = i
      BY <2>4, <3>1
    <3>2. CASE Indices[j] # i
      <4>1. j \in 1 .. k - 1
        BY <1>1, <3>2 DEF i
      <4>2. Indices[j] \in Secondary
        BY <1>1, AllIndices
      <4>3. q.tree[Indices[j]] = r.tree[Indices[j]]
        BY <2>1, <2>4, <3>2, <4>2
      <4> QED BY <1>3, <4>1, <4>3 DEF Partly
    <3> QED BY <3>1, <3>2
  <2>9. Partly(q, k, T, unique, x, val, S)
    BY <2>4, <2>5, <2>6, <2>7, <2>8 DEF Partly
  <2> QED BY <1>3, <2>9 DEF q, i
<1> QED BY <1>2, <1>3

PostModified(r, T, unique, x, val, S) ==
  /\ r \in Results(S)
  /\ r.tree[ById] = T[ById]
  /\ \A i \in Secondary : /\ Lists(r.tree[i], S)
                          /\ OrderedBut(r.tree[i], i, val, S, x)
  /\ r.ok <=> (unique => \A i \in Secondary : NoClash(i, x, val, S))
  /\ r.ok => \A i \in Secondary : Ordered(r.tree[i], i, val, S)

(* post_modify gets the verdict right and, unless it refuses, sorts every  *)
(* secondary index, whatever the place of x in each of them was.           *)
LEMMA PostModifyFacts ==
  ASSUME NEW unique \in BOOLEAN, NEW S, NEW x \in S, NEW val,
         NEW T \in [Range(All) -> Seq(S)],
         \A i \in Secondary : /\ Numbered(i, val, S) /\ Lists(T[i], S)
                              /\ OrderedBut(T[i], i, val, S, x)
  PROVE  PostModified(PostModify(unique, T, x, val), T, unique, x, val, S)
<1> DEFINE n == Len(Indices)
           b == [tree |-> T, ok |-> TRUE]
           D == [k \in 0 .. n |-> {r \in Results(S) : Partly(r, k, T, unique, x, val, S)}]
           Round(k, r) == IF r.ok THEN Refit(unique, r.tree, Indices[k], x, val) ELSE r
           Step == [k \in 1 .. n |-> [r \in D[k - 1] |-> Round(k, r)]]
           at(f) == [k \in 0 .. n |-> IF k = 0 THEN b ELSE Round(k, f[k - 1])]
           after == CHOOSE f : f = at(f)
<1>1. n \in Nat /\ 0 \in 0 .. n /\ \A k \in 1 .. n : k \in 0 .. n /\ k - 1 \in 0 .. n /\ k # 0
  BY AllIndices
<1>2. b \in D[0]
  <2>1. b \in Results(S)
    BY DEF Results
  <2>2. Partly(b, 0, T, unique, x, val, S)
    BY <2>1 DEF Partly
  <2> QED BY <1>1, <2>1, <2>2
<1>3. \A k \in 1 .. n : \A r \in D[k - 1] : Round(k, r) \in D[k]
  <2> SUFFICES ASSUME NEW k \in 1 .. n, NEW r \in D[k - 1] PROVE Round(k, r) \in D[k]
    OBVIOUS
  <2>1. Partly(r, k - 1, T, unique, x, val, S)
    BY <1>1
  <2>2. Partly(Round(k, r), k, T, unique, x, val, S)
    BY <2>1, RefitStep
  <2> HIDE DEF Round
  <2>3. Round(k, r) \in Results(S)
    BY <2>2 DEF Partly
  <2> QED BY <1>1, <2>2, <2>3
<1> HIDE DEF Round, b
<1>4. \A k \in 1 .. n : \A r \in D[k - 1] : Step[k][r] = Round(k, r)
  <2> HIDE DEF D
  <2> QED OBVIOUS
<1> HIDE DEF D, Step, n
<1>5. PICK g : IsRun(g, n, b, Step) /\ \A k \in 0 .. n : g[k] \in D[k]
  <2>1. \A k \in 1 .. n : \A r \in D[k - 1] : Step[k][r] \in D[k]
    BY <1>3, <1>4
  <2> QED BY <1>1, <1>2, <2>1, LoopRuns
<1>6. g = at(g)
  <2>1. \A k \in 0 .. n : (IF k = 0 THEN b ELSE Step[k][g[k - 1]])
                          = (IF k = 0 THEN b ELSE Round(k, g[k - 1]))
    <3> TAKE k \in 0 .. n
    <3>1. CASE k = 0
      BY <3>1
    <3>2. CASE k # 0
      <4>1. k \in 1 .. n /\ k - 1 \in 0 .. n
        BY <1>1, <3>2
      <4> QED BY <1>4, <1>5, <3>2, <4>1
    <3> QED BY <3>1, <3>2
  <2> QED BY <1>5, <2>1 DEF IsRun
<1>7. after = at(after)
  <2> HIDE DEF at
  <2> QED BY <1>6
<1>8. PostModify(unique, T, x, val) = after[n]
  BY DEF PostModify, after, at, n, b, Round
<1> HIDE DEF after
<1>9. \A k \in 0 .. n : after[k] = IF k = 0 THEN b ELSE Round(k, after[k - 1])
  BY <1>7
<1>10. \A k \in 1 .. n : after[k - 1] \in D[k - 1] => after[k] \in D[k]
  <2> TAKE k \in 1 .. n
  <2> QED BY <1>1, <1>3, <1>9
<1>11. after[n] \in D[n]
  <2>1. after[0] \in D[0]
    BY <1>1, <1>2, <1>9
  <2>2. \A k \in 0 .. n : after[k] \in D[k]
    BY <1>1, <1>10, <2>1, LoopInvariant
  <2> QED BY <1>1, <2>2
<1>12. Partly(after[n], Len(Indices), T, unique, x, val, S)
  BY <1>1, <1>11 DEF D, n
<1> HIDE DEF at
<1> QED BY <1>8, <1>12, AllIndices DEF Partly, PostModified
----------------------------------------------------------------------------
(* All of the trees *)

InOrder(t, i, val, S) == Lists(t, S) /\ Ordered(t, i, val, S)

(* T holds a sorted tree of the rows S, with contents val, for each index *)
GoodTrees(T, S, val) ==
  /\ T \in [Range(All) -> Seq(S)]
  /\ \A i \in Range(All) : InOrder(T[i], i, val, S)

Contents(val, S) == \A y \in S : y \in Int /\ val[y] \in Value

LEMMA ContentsNumbered ==
  ASSUME NEW S, NEW val, Contents(val, S)
  PROVE  \A i \in Range(All) : Numbered(i, val, S)
<1> SUFFICES ASSUME NEW i \in Range(All), NEW y \in S PROVE KeyOf(i, y, val) \in Int
  BY DEF Numbered
<1>1. y \in Int /\ val[y] \in Value
  BY DEF Contents
<1>2. CASE i = ById
  BY <1>1, <1>2 DEF KeyOf
<1>3. CASE i # ById
  <2>1. i \in Secondary
    BY <1>3, AllIndices
  <2>2. val[y][i] \in Key
    BY <1>1, <2>1 DEF Value
  <2> QED BY <1>3, <2>2, OrderedIndicesAssumption DEF KeyOf
<1> QED BY <1>2, <1>3

(* Only the contents of the rows count. *)
LEMMA SameContents ==
  ASSUME NEW T, NEW S, NEW val, NEW w, GoodTrees(T, S, val), \A y \in S : w[y] = val[y]
  PROVE  GoodTrees(T, S, w)
<1>1. \A i, t : Ordered(t, i, val, S) => Ordered(t, i, w, S)
  BY DEF Ordered, KeyOf
<1> QED BY <1>1 DEF GoodTrees, InOrder

LEMMA EraseFacts ==
  ASSUME NEW S, NEW x \in S, NEW val, NEW T \in [Range(All) -> Seq(S)],
         \A i \in Range(All) : Lists(T[i], S) /\ OrderedBut(T[i], i, val, S, x),
         NEW R, R = S \ {x}
  PROVE  GoodTrees(EraseImpl(T, x), R, val)
<1>1. ASSUME NEW i \in Range(All)
      PROVE  Lists(Without(T[i], x), R) /\ Ordered(Without(T[i], x), i, val, R)
  <2>1. Lists(T[i], S) /\ Ordered(T[i], i, val, S \ {x})
    BY DEF OrderedBut
  <2>2. Lists(Without(T[i], x), S \ {x})
    BY <2>1, WithoutLists, Zenon
  <2>3. Ordered(Without(T[i], x), i, val, S \ {x})
    BY <2>1, WithoutOrdered, Zenon
  <2> QED BY <2>2, <2>3
<1>2. EraseImpl(T, x) = [i \in Range(All) |-> Without(T[i], x)]
  BY DEF EraseImpl
<1>3. \A i \in Range(All) : Without(T[i], x) \in Seq(R)
  BY <1>1 DEF Lists
<1>4. EraseImpl(T, x) \in [Range(All) -> Seq(R)]
  BY <1>2, <1>3, Zenon
<1>5. \A i \in Range(All) : EraseImpl(T, x)[i] = Without(T[i], x)
  BY <1>2
<1> QED BY <1>1, <1>4, <1>5 DEF GoodTrees, InOrder

LEMMA InsertFacts ==
  ASSUME NEW S, NEW t, NEW x, x \notin S, NEW i, NEW val, NEW R, R = S \cup {x},
         InOrder(t, i, val, S), Numbered(i, val, R)
  PROVE  InOrder(InsertEqual(t, i, x, val), i, val, R)
<1>1. Lists(t, S) /\ Ordered(t, i, val, S) /\ Numbered(i, val, S \cup {x})
  BY DEF InOrder
<1>2. /\ Lists(InsertEqual(t, i, x, val), S \cup {x})
      /\ Ordered(InsertEqual(t, i, x, val), i, val, S \cup {x})
  BY <1>1, InsertEqualOrdered, Zenon
<1> QED BY <1>2 DEF InOrder

(* A node whose keys no row has goes into all of the trees. *)
LEMMA InsertImplFacts ==
  ASSUME NEW S, NEW T, NEW x, x \notin S, NEW val, NEW R, R = S \cup {x},
         GoodTrees(T, S, val), Contents(val, R),
         \A y \in S : ~Conflict(val[x], val[y])
  PROVE  GoodTrees(InsertImpl(Range(All), T, x, val), R, val)
<1>1. DOMAIN T = Range(All)
  BY DEF GoodTrees
<1>2. ASSUME NEW i \in Range(All) PROVE Equals(T[i], i, x, val) = {}
  <2>1. Lists(T[i], S)
    BY DEF GoodTrees, InOrder
  <2>2. DOMAIN T[i] = 1 .. Len(T[i]) /\ \A k \in DOMAIN T[i] : T[i][k] \in S
    BY <2>1, ListFacts
  <2>3. ASSUME NEW y \in S PROVE KeyOf(i, y, val) # KeyOf(i, x, val)
    <3>1. CASE i = ById
      BY <3>1 DEF KeyOf
    <3>2. CASE i # ById
      BY <3>2, AllIndices DEF KeyOf, Conflict
    <3> QED BY <3>1, <3>2
  <2> QED BY <2>2, <2>3 DEF Equals
<1>3. InsertImpl(Range(All), T, x, val)
        = [i \in Range(All) |-> InsertEqual(T[i], i, x, val)]
  BY <1>1, <1>2 DEF InsertImpl
<1>4. \A i \in Range(All) : InOrder(InsertEqual(T[i], i, x, val), i, val, R)
  <2> TAKE i \in Range(All)
  <2>1. Numbered(i, val, R)
    BY ContentsNumbered
  <2>2. InOrder(T[i], i, val, S)
    BY DEF GoodTrees
  <2> QED BY <2>1, <2>2, InsertFacts
<1> DEFINE U == InsertImpl(Range(All), T, x, val)
<1>5. \A i \in Range(All) : InsertEqual(T[i], i, x, val) \in Seq(R)
  BY <1>4 DEF InOrder, Lists
<1>6. U \in [Range(All) -> Seq(R)]
  BY <1>3, <1>5, Zenon
<1>7. \A i \in Range(All) : U[i] = InsertEqual(T[i], i, x, val)
  BY <1>3
<1> HIDE DEF U
<1>8. GoodTrees(U, R, val)
  BY <1>4, <1>6, <1>7 DEF GoodTrees
<1> QED BY <1>8 DEF U

(* The node with the greatest id goes to the end of the tree of the ids. *)
LEMMA AppendFacts ==
  ASSUME NEW S, S \subseteq Int, NEW t, NEW x \in Int, \A y \in S : y < x, NEW val,
         NEW R, R = S \cup {x}, InOrder(t, ById, val, S)
  PROVE  InOrder(Append(t, x), ById, val, R)
<1> DEFINE u == Append(t, x)
<1>1. /\ t \in Seq(S) /\ Len(t) \in Nat /\ DOMAIN t = 1 .. Len(t)
      /\ \A k \in 1 .. Len(t) : t[k] \in S
      /\ \A y \in S : \E k \in 1 .. Len(t) : t[k] = y
      /\ \A j, k \in 1 .. Len(t) : t[j] = t[k] => j = k
  BY ListFacts DEF InOrder
<1>2. t \in Seq(R)
  BY <1>1, SeqMonotonic
<1>3. /\ u \in Seq(R) /\ Len(u) = Len(t) + 1 /\ u[Len(t) + 1] = x
      /\ \A k \in 1 .. Len(t) : u[k] = t[k]
  BY <1>2, AppendProperties
<1>4. x \notin S
  OBVIOUS
<1> HIDE DEF u
<1>5. \A k \in 1 .. Len(u) : k = Len(t) + 1 \/ k \in 1 .. Len(t)
  BY <1>1, <1>3
<1>6. Lists(u, R)
  <2>1. \A y \in R : \E k \in 1 .. Len(u) : u[k] = y
    <3> TAKE y \in R
    <3>1. CASE y = x
      <4>1. Len(t) + 1 \in 1 .. Len(u)
        BY <1>1, <1>3
      <4> QED BY <1>3, <3>1, <4>1
    <3>2. CASE y \in S
      <4>1. PICK k \in 1 .. Len(t) : t[k] = y
        BY <1>1, <3>2
      <4>2. k \in 1 .. Len(u)
        BY <1>1, <1>3
      <4> QED BY <1>3, <4>1, <4>2
    <3> QED BY <3>1, <3>2
  <2>2. \A j, k \in 1 .. Len(u) : u[j] = u[k] => j = k
    BY <1>1, <1>3, <1>4, <1>5
  <2>3. u \in Seq(R)
    BY <1>3
  <2> QED BY <2>1, <2>2, <2>3, ListIs, Zenon
<1>7. Ordered(u, ById, val, R)
  <2> SUFFICES ASSUME NEW j \in DOMAIN u, NEW k \in DOMAIN u, j < k
               PROVE  u[j] <= u[k]
    BY DEF Ordered, KeyOf
  <2>1. j \in 1 .. Len(u) /\ k \in 1 .. Len(u)
    BY <1>3, LenProperties
  <2>2. j \in 1 .. Len(t)
    BY <1>1, <1>3, <2>1
  <2>3. u[j] = t[j] /\ t[j] \in S
    BY <1>1, <1>3, <2>2
  <2>4. CASE k = Len(t) + 1
    <3>1. u[k] = x
      BY <1>3, <2>4
    <3>2. u[j] \in Int /\ u[j] < x
      BY <2>3
    <3>3. u[j] <= x
      BY <3>2
    <3> QED BY <3>1, <3>3
  <2>5. CASE k \in 1 .. Len(t)
    <3>1. KeyOf(ById, t[j], val) <= KeyOf(ById, t[k], val)
      BY <1>1, <2>2, <2>5 DEF InOrder, Ordered
    <3> QED BY <1>3, <2>3, <2>5, <3>1 DEF KeyOf
  <2> QED BY <1>5, <2>1, <2>4, <2>5
<1> QED BY <1>6, <1>7 DEF InOrder, u
----------------------------------------------------------------------------
(* The operations on rows *)

(* Between operations the trees are sorted by what the rows hold. *)
TreesInv == GoodTrees(tree, table, Rows)

LEMMA RowContents ==
  ASSUME RefInv
  PROVE  /\ Contents(Rows, table) /\ DOMAIN Rows = table
         /\ \A y \in table : Rows[y] = node[y].val /\ ValNow[y] = node[y].val
         /\ \A y \in table : y < next_id
<1>1. \A y \in table : y \in DOMAIN node /\ node[y] \in Node /\ y \in Nat /\ y < next_id
  BY Accounted
<1> QED BY <1>1 DEF Contents, Rows, ValNow, Node

LEMMA InvSorted ==
  ASSUME RefInv, TreesInv
  PROVE  TreesSorted
<1>1. /\ Contents(Rows, table)
      /\ \A y \in table : Rows[y] = node[y].val /\ ValNow[y] = node[y].val
  BY RowContents
<1>2. GoodTrees(tree, table, ValNow)
  BY <1>1, SameContents DEF TreesInv
<1> SUFFICES ASSUME NEW i \in Range(All)
             PROVE  /\ Range(tree[i]) = table
                    /\ \A j, k \in DOMAIN tree[i] : j < k =>
                         KeyOf(i, tree[i][j], ValNow) < KeyOf(i, tree[i][k], ValNow)
  BY DEF TreesSorted
<1>3. Lists(tree[i], table) /\ Ordered(tree[i], i, ValNow, table)
  BY <1>2 DEF GoodTrees, InOrder
<1>4. Contents(ValNow, table)
  BY <1>1 DEF Contents
<1>5. Numbered(i, ValNow, table)
  BY <1>4, ContentsNumbered
<1>6. ASSUME NEW j \in DOMAIN tree[i], NEW k \in DOMAIN tree[i], j < k
      PROVE  KeyOf(i, tree[i][j], ValNow) < KeyOf(i, tree[i][k], ValNow)
  <2> DEFINE y == tree[i][j]
             z == tree[i][k]
  <2>1. DOMAIN tree[i] = 1 .. Len(tree[i]) /\ Len(tree[i]) \in Nat
        /\ y \in table /\ z \in table /\ (y = z => j = k)
    BY <1>3, ListFacts
  <2>2. y # z
    <3>1. j # k
      BY <1>6, <2>1
    <3> QED BY <2>1, <3>1
  <2>3. KeyOf(i, y, ValNow) <= KeyOf(i, z, ValNow)
    BY <1>3, <1>6, <2>1 DEF Ordered
  <2>4. KeyOf(i, y, ValNow) # KeyOf(i, z, ValNow)
    <3>1. CASE i = ById
      BY <2>2, <3>1 DEF KeyOf
    <3>2. CASE i # ById
      <4>1. i \in Secondary
        BY <3>2, AllIndices
      <4>2. ~Conflict(node[y].val, node[z].val)
        BY <2>1, <2>2, Accounted DEF KeysUnique
      <4> QED BY <1>1, <2>1, <3>2, <4>1, <4>2 DEF KeyOf, Conflict
    <3> QED BY <3>1, <3>2
  <2>5. KeyOf(i, y, ValNow) \in Int /\ KeyOf(i, z, ValNow) \in Int
    BY <1>5, <2>1 DEF Numbered
  <2> HIDE DEF y, z
  <2>6. KeyOf(i, y, ValNow) < KeyOf(i, z, ValNow)
    BY <2>3, <2>4, <2>5
  <2> QED BY <2>6 DEF y, z
<1> QED BY <1>3, <1>6, ListRange

(* What modify makes of the trees once v is in x, and its verdict. *)
ModifiedRight(x, v) ==
  /\ PostModified(Modified(x, v), tree, TRUE, x, With(x, v), table)
  /\ Modified(x, v).ok <=> Fits(v, x)

LEMMA ModifiedFacts ==
  ASSUME RefInv, TreesInv, NEW x \in table, NEW v \in Value
  PROVE  ModifiedRight(x, v)
<1> DEFINE val == With(x, v)
           r == Modified(x, v)
<1>1. /\ Contents(Rows, table)
      /\ \A y \in table : y \in DOMAIN node /\ Rows[y] = node[y].val
      /\ \A y \in table : ValNow[y] = node[y].val
  BY RowContents, Accounted
<1>2. /\ val[x] = v
      /\ \A y \in table \ {x} : val[y] = node[y].val
  BY <1>1 DEF With, ValNow
<1> HIDE DEF val
<1>3. Contents(val, table)
  BY <1>1, <1>2 DEF Contents
<1>4. tree \in [Range(All) -> Seq(table)]
  BY DEF TreesInv, GoodTrees
<1>5. ASSUME NEW i \in Secondary
      PROVE  /\ Numbered(i, val, table) /\ Lists(tree[i], table)
             /\ OrderedBut(tree[i], i, val, table, x)
  <2>1. i \in Range(All) /\ i # ById
    BY AllIndices
  <2>2. Lists(tree[i], table) /\ Ordered(tree[i], i, Rows, table)
    BY <2>1 DEF TreesInv, GoodTrees, InOrder
  <2>3. \A y \in table \ {x} : KeyOf(i, y, val) = KeyOf(i, y, Rows)
    BY <1>1, <1>2 DEF KeyOf
  <2>4. Numbered(i, val, table)
    BY <1>3, <2>1, ContentsNumbered
  <2> QED BY <2>2, <2>3, <2>4 DEF OrderedBut, Ordered
<1>6. PostModified(r, tree, TRUE, x, val, table)
  <2>1. r = PostModify(TRUE, tree, x, val)
    BY DEF Modified, val
  <2>2. TRUE \in BOOLEAN
    OBVIOUS
  <2> HIDE DEF r
  <2> QED BY <1>4, <1>5, <2>1, <2>2, PostModifyFacts
<1>7. r.ok <=> \A i \in Secondary : NoClash(i, x, val, table)
  BY <1>6 DEF PostModified
<1>8. Fits(v, x) <=> \A i \in Secondary : NoClash(i, x, val, table)
  <2>1. \A i \in Secondary : NoClash(i, x, val, table)
          <=> \A y \in table \ {x} : node[y].val[i] # v[i]
    BY <1>2, AllIndices DEF NoClash, KeyOf
  <2> QED BY <2>1 DEF Fits, Conflict
<1> HIDE DEF r
<1> QED BY <1>6, <1>7, <1>8 DEF ModifiedRight, r, val

(* Putting the old contents back succeeds and restores every tree. *)
LEMMA RevertedFacts ==
  ASSUME RefInv, TreesInv, NEW x \in table, NEW v \in Value
  PROVE  Reverted(x, v) = [tree |-> tree, ok |-> TRUE]
<1> DEFINE T == Modified(x, v).tree
           r == Reverted(x, v)
<1>1. /\ Contents(Rows, table)
      /\ \A y \in table : y \in DOMAIN node /\ Rows[y] = node[y].val
      /\ \A y \in table : ValNow[y] = node[y].val
  BY RowContents, Accounted
<1>2. \A y \in table \ {x} : With(x, v)[y] = node[y].val
  BY <1>1 DEF With, ValNow
<1>3. GoodTrees(tree, table, ValNow) /\ Contents(ValNow, table)
  BY <1>1, SameContents DEF TreesInv, Contents
<1>4. /\ T \in [Range(All) -> Seq(table)] /\ T[ById] = tree[ById]
      /\ \A i \in Secondary : /\ Lists(T[i], table)
                              /\ OrderedBut(T[i], i, With(x, v), table, x)
  BY ModifiedFacts DEF ModifiedRight, PostModified, Results
<1> HIDE DEF T
<1>5. ASSUME NEW i \in Secondary
      PROVE  /\ Numbered(i, ValNow, table) /\ Lists(T[i], table)
             /\ OrderedBut(T[i], i, ValNow, table, x)
             /\ NoClash(i, x, ValNow, table)
             /\ Distinct(i, ValNow, table)
  <2>1. i \in Range(All) /\ i # ById
    BY AllIndices
  <2>2. Numbered(i, ValNow, table)
    BY <1>3, <2>1, ContentsNumbered
  <2>3. \A y \in table \ {x} : KeyOf(i, y, ValNow) = KeyOf(i, y, With(x, v))
    BY <1>1, <1>2 DEF KeyOf
  <2>4. OrderedBut(T[i], i, ValNow, table, x)
    BY <1>4, <2>3 DEF OrderedBut, Ordered
  <2>5. \A y, z \in table : y # z => node[y].val[i] # node[z].val[i]
    BY Accounted DEF KeysUnique, Conflict
  <2>6. Distinct(i, ValNow, table)
    BY <1>1, <2>1, <2>5 DEF Distinct, KeyOf
  <2>7. NoClash(i, x, ValNow, table)
    BY <2>6 DEF Distinct, NoClash
  <2> QED BY <1>4, <2>2, <2>4, <2>6, <2>7
<1>6. PostModified(r, T, TRUE, x, ValNow, table)
  <2>1. r = PostModify(TRUE, T, x, ValNow)
    BY DEF Reverted, T
  <2>2. TRUE \in BOOLEAN
    OBVIOUS
  <2> HIDE DEF r
  <2> QED BY <1>4, <1>5, <2>1, <2>2, PostModifyFacts
<1> HIDE DEF r
<1>7. r \in Results(table) /\ r.ok
  BY <1>5, <1>6 DEF PostModified
<1>8. r.tree = tree
  <2>1. /\ r.tree \in [Range(All) -> Seq(table)]
        /\ tree \in [Range(All) -> Seq(table)]
    BY <1>3, <1>7 DEF Results, GoodTrees
  <2>2. ASSUME NEW i \in Range(All) PROVE r.tree[i] = tree[i]
    <3>1. CASE i = ById
      BY <1>4, <1>6, <3>1 DEF PostModified
    <3>2. CASE i # ById
      <4>1. i \in Secondary
        BY <3>2, AllIndices
      <4>2. Lists(r.tree[i], table) /\ Ordered(r.tree[i], i, ValNow, table)
        BY <1>6, <1>7, <4>1 DEF PostModified
      <4>3. Lists(tree[i], table) /\ Ordered(tree[i], i, ValNow, table)
        BY <1>3 DEF GoodTrees, InOrder
      <4>4. Numbered(i, ValNow, table) /\ Distinct(i, ValNow, table)
        BY <1>5, <4>1
      <4> QED BY <4>2, <4>3, <4>4, SameOrder
    <3> QED BY <3>1, <3>2
  <2> QED BY <2>1, <2>2
<1>9. r = [tree |-> r.tree, ok |-> r.ok] /\ r.ok = TRUE
  BY <1>7 DEF Results
<1> QED BY <1>8, <1>9 DEF r

LEMMA InvVerdict ==
  ASSUME RefInv, TreesInv
  PROVE  VerdictRight
<1> SUFFICES ASSUME NEW x \in table, NEW v \in Value
             PROVE  /\ Modified(x, v).ok = Fits(v, x)
                    /\ Reverted(x, v) = [tree |-> tree, ok |-> TRUE]
  BY DEF VerdictRight
<1>1. Modified(x, v).ok \in BOOLEAN /\ (Modified(x, v).ok <=> Fits(v, x))
  BY ModifiedFacts DEF ModifiedRight, PostModified, Results
<1>2. Fits(v, x) \in BOOLEAN
  BY DEF Fits
<1>3. Modified(x, v).ok = Fits(v, x)
  BY <1>1, <1>2
<1> QED BY <1>3, RevertedFacts
----------------------------------------------------------------------------
(* What each operation on rows does to the trees *)

LEMMA TreesUnchanged ==
  ASSUME RefInv, TreesInv, Rows' = Rows, UNCHANGED tree
  PROVE  TreesInv'
<1>1. DOMAIN Rows = table /\ DOMAIN Rows' = table'
  BY DEF Rows
<1>2. table' = table
  BY <1>1
<1> QED BY <1>2 DEF TreesInv, GoodTrees, InOrder, Ordered, Lists, KeyOf

(* The trees after a step, from what they hold and what the rows are *)
LEMMA TreesNext ==
  ASSUME NEW S, NEW val, GoodTrees(tree', S, val), NEW w, Rows' = w, DOMAIN w = S,
         \A y \in S : w[y] = val[y]
  PROVE  TreesInv'
<1>1. table' = S
  BY DEF Rows
<1>2. GoodTrees(tree', S, w)
  BY SameContents
<1>3. GoodTrees(tree', table', Rows')
  BY <1>1, <1>2
<1> QED BY <1>3 DEF TreesInv

LEMMA EmplaceTrees ==
  ASSUME RefInv, RemovedOnce', TreesInv, NEW v \in Value, OrdEmplace(v)
  PROVE  TreesInv'
<1> DEFINE x == next_id
           val == Added(v)
           R == table \cup {x}
           S == table
           U == InsertImpl(Secondary, tree, x, val)
<1>1. Emplace(v) /\ tree' = [U EXCEPT ![ById] = Append(@, x)]
  BY DEF OrdEmplace
<1>2. /\ Contents(Rows, table) /\ DOMAIN Rows = table
      /\ \A y \in table : y \in DOMAIN node /\ Rows[y] = node[y].val /\ y < next_id
      /\ next_id \in Nat
  BY RowContents, Accounted
<1>3. x \in Int /\ x \notin S /\ S \subseteq Int
  BY <1>2 DEF Contents
<1>4. val[x] = v /\ \A y \in S : val[y] = node[y].val
  BY <1>2, <1>3 DEF Added
<1>5. Fits(v, x)
  BY <1>1 DEF Emplace
<1> HIDE DEF val, x, S
<1>6. GoodTrees(tree, S, val)
  BY <1>2, <1>4, SameContents DEF TreesInv, S
<1>7. Contents(val, R)
  BY <1>2, <1>3, <1>4 DEF Contents, S
<1>8. DOMAIN tree = Range(All)
  BY <1>6 DEF GoodTrees
<1>9. ASSUME NEW i \in Secondary PROVE Equals(tree[i], i, x, val) = {}
  <2>1. Lists(tree[i], S)
    BY <1>6, AllIndices DEF GoodTrees, InOrder
  <2>2. DOMAIN tree[i] = 1 .. Len(tree[i]) /\ \A k \in DOMAIN tree[i] : tree[i][k] \in S
    BY <2>1, ListFacts
  <2>3. ASSUME NEW y \in S PROVE KeyOf(i, y, val) # KeyOf(i, x, val)
    <3>1. y \in table \ {x}
      BY <1>3 DEF S
    <3>2. ~Conflict(v, node[y].val)
      BY <1>5, <3>1 DEF Fits
    <3>3. v[i] # node[y].val[i]
      BY <3>2 DEF Conflict
    <3> QED BY <1>4, <3>3, AllIndices DEF KeyOf
  <2> QED BY <2>2, <2>3 DEF Equals
<1>10. U = [i \in Range(All) |-> IF i \in Secondary THEN InsertEqual(tree[i], i, x, val)
                                 ELSE tree[i]]
  BY <1>8, <1>9 DEF InsertImpl
<1>11. ASSUME NEW i \in Secondary
       PROVE  tree'[i] = InsertEqual(tree[i], i, x, val)
  <2>1. i \in Range(All) /\ i # ById
    BY AllIndices
  <2>2. tree'[i] = U[i]
    BY <1>1, <1>10, <2>1
  <2> QED BY <1>10, <2>1, <2>2
<1>12. tree'[ById] = Append(tree[ById], x)
  BY <1>1, <1>10, AllIndices
<1> HIDE DEF R
<1>13. x \notin S /\ R = S \cup {x} /\ \A y \in S : y < x
  BY <1>2, <1>3 DEF R, S, x
<1>14. ASSUME NEW i \in Range(All) PROVE InOrder(tree'[i], i, val, R)
  <2>1. InOrder(tree[i], i, val, S)
    BY <1>6 DEF GoodTrees
  <2>2. CASE i = ById
    <3>1. InOrder(Append(tree[ById], x), ById, val, R)
      BY <1>3, <1>13, <2>1, <2>2, AppendFacts
    <3> QED BY <1>12, <2>2, <3>1
  <2>3. CASE i # ById
    <3>1. i \in Secondary
      BY <2>3, AllIndices
    <3>2. Numbered(i, val, R)
      BY <1>7, ContentsNumbered
    <3>3. InOrder(InsertEqual(tree[i], i, x, val), i, val, R)
      BY <1>13, <2>1, <3>2, InsertFacts
    <3> QED BY <1>11, <3>1, <3>3
  <2> QED BY <2>2, <2>3
<1>15. tree' \in [Range(All) -> Seq(R)]
  <2>1. tree' = [i \in Range(All) |-> tree'[i]]
    BY <1>1, <1>10
  <2>2. \A i \in Range(All) : tree'[i] \in Seq(R)
    BY <1>14 DEF InOrder, Lists
  <2> QED BY <2>1, <2>2
<1>16. GoodTrees(tree', R, val)
  BY <1>14, <1>15 DEF GoodTrees
<1> DEFINE w == [y \in DOMAIN Rows \cup {next_id} |-> IF y = next_id THEN v ELSE Rows[y]]
<1>17. Rows' = w
  BY <1>1, EmplaceRows
<1>18. DOMAIN w = R /\ \A y \in R : w[y] = val[y]
  BY <1>2, <1>4 DEF R, S, x
<1> HIDE DEF w
<1> QED BY <1>16, <1>17, <1>18, TreesNext

(* A refused row gets into no tree. *)
LEMMA EmplaceRefusedTrees ==
  ASSUME RefInv, TreesInv, NEW v \in Value, OrdEmplaceRefused(v)
  PROVE  UNCHANGED <<vars, tree>>
<1> DEFINE x == next_id
           val == Added(v)
<1>1. /\ ~Fits(v, x) /\ UNCHANGED vars
      /\ tree' = InsertImpl(Secondary, tree, x, val)
  BY DEF OrdEmplaceRefused
<1>2. \A y \in table : y \in DOMAIN node /\ y < next_id /\ y \in Nat /\ next_id \in Nat
  BY RowContents, Accounted
<1>3. PICK y \in table : Conflict(v, node[y].val)
  BY <1>1 DEF Fits
<1>4. y # x
  BY <1>2
<1>5. PICK i \in Secondary : v[i] = node[y].val[i]
  BY <1>3 DEF Conflict
<1>6. KeyOf(i, y, val) = KeyOf(i, x, val)
  BY <1>2, <1>4, <1>5, AllIndices DEF KeyOf, Added
<1>7. Lists(tree[i], table)
  BY AllIndices DEF TreesInv, GoodTrees, InOrder
<1>8. PICK k \in DOMAIN tree[i] : tree[i][k] = y
  BY <1>7 DEF Lists
<1>9. Equals(tree[i], i, x, val) # {}
  BY <1>6, <1>8 DEF Equals
<1>10. InsertImpl(Secondary, tree, x, val) = tree
  BY <1>9 DEF InsertImpl
<1> QED BY <1>1, <1>10

LEMMA ModifyTrees ==
  ASSUME RefInv, RemovedOnce', TreesInv, NEW x \in table, NEW v \in Value, OrdModify(x, v)
  PROVE  TreesInv'
<1> DEFINE T == Modified(x, v).tree
           val == With(x, v)
<1>1. Modify(x, v) /\ tree' = T /\ Fits(v, x)
  BY DEF OrdModify, Modify
<1>2. /\ Contents(Rows, table) /\ DOMAIN Rows = table
      /\ \A y \in table : /\ y \in DOMAIN node /\ Rows[y] = node[y].val
                          /\ ValNow[y] = node[y].val
  BY RowContents, Accounted
<1>3. val[x] = v /\ \A y \in table \ {x} : val[y] = Rows[y]
  BY <1>2 DEF With, ValNow
<1>4. PostModified(Modified(x, v), tree, TRUE, x, val, table) /\ Modified(x, v).ok
  BY <1>1, ModifiedFacts DEF ModifiedRight
<1>5. /\ T \in [Range(All) -> Seq(table)] /\ T[ById] = tree[ById]
      /\ \A i \in Secondary : Lists(T[i], table) /\ Ordered(T[i], i, val, table)
  BY <1>4 DEF PostModified, Results
<1> HIDE DEF T, val
<1>6. ASSUME NEW i \in Range(All) PROVE InOrder(T[i], i, val, table)
  <2>1. CASE i = ById
    <3>1. InOrder(tree[ById], ById, Rows, table)
      BY <2>1 DEF TreesInv, GoodTrees
    <3>2. InOrder(tree[ById], ById, val, table)
      BY <3>1 DEF InOrder, Ordered, KeyOf
    <3> QED BY <1>5, <2>1, <3>2
  <2>2. CASE i # ById
    BY <1>5, <2>2, AllIndices DEF InOrder
  <2> QED BY <2>1, <2>2
<1>7. GoodTrees(tree', table, val)
  BY <1>1, <1>5, <1>6 DEF GoodTrees
<1> DEFINE w == [Rows EXCEPT ![x] = v]
<1>8. Rows' = w
  BY <1>1, ModifyRows
<1>9. DOMAIN w = table /\ \A y \in table : w[y] = val[y]
  BY <1>2, <1>3
<1> HIDE DEF w
<1> QED BY <1>7, <1>8, <1>9, TreesNext

LEMMA ModifyRevertedTrees ==
  ASSUME RefInv, RemovedOnce', TreesInv, NEW x \in table, NEW v \in Value,
         OrdModifyReverted(x, v)
  PROVE  TreesInv'
<1>1. ModifyReverted(x, v) /\ tree' = Reverted(x, v).tree
  BY DEF OrdModifyReverted
<1>2. Reverted(x, v) = [tree |-> tree, ok |-> TRUE]
  BY RevertedFacts
<1>3. UNCHANGED tree
  BY <1>1, <1>2
<1>4. Rows' = Rows
  BY <1>1, ModifyRevertedRows
<1> QED BY <1>3, <1>4, TreesUnchanged

(* erase_impl of x in trees that may be out of order at x *)
LEMMA ErasedTrees ==
  ASSUME RefInv, RemovedOnce', NEW x \in table, NEW n \in Node, RemoveNode(x, n),
         NEW val, \A y \in table \ {x} : val[y] = Rows[y],
         NEW T \in [Range(All) -> Seq(table)],
         \A i \in Range(All) : Lists(T[i], table) /\ OrderedBut(T[i], i, val, table, x),
         tree' = EraseImpl(T, x)
  PROVE  TreesInv'
<1> DEFINE R == table \ {x}
           w == [y \in DOMAIN Rows \ {x} |-> Rows[y]]
<1>1. GoodTrees(EraseImpl(T, x), R, val)
  BY EraseFacts
<1>2. Rows' = w
  BY RemoveNodeRows
<1>3. DOMAIN w = R /\ \A y \in R : w[y] = val[y]
  BY RowContents
<1> HIDE DEF w, R
<1>4. GoodTrees(tree', R, val)
  BY <1>1
<1> QED BY <1>2, <1>3, <1>4, TreesNext

LEMMA RemoveTrees ==
  ASSUME RefInv, RemovedOnce', TreesInv, NEW x \in table, OrdRemove(x)
  PROVE  TreesInv'
<1>1. RemoveNode(x, node[x]) /\ tree' = EraseImpl(tree, x)
  BY DEF OrdRemove, Remove
<1>2. node[x] \in Node
  BY Accounted
<1>3. tree \in [Range(All) -> Seq(table)]
  BY DEF TreesInv, GoodTrees
<1>4. \A i \in Range(All) : Lists(tree[i], table) /\ OrderedBut(tree[i], i, Rows, table, x)
  BY DEF TreesInv, GoodTrees, InOrder, Ordered, OrderedBut
<1>5. \A y \in table \ {x} : Rows[y] = Rows[y]
  OBVIOUS
<1> QED BY <1>1, <1>2, <1>3, <1>4, <1>5, ErasedTrees

LEMMA ModifyErasedTrees ==
  ASSUME RefInv, RemovedOnce', TreesInv, NEW x \in table, NEW v \in Value,
         OrdModifyErased(x, v)
  PROVE  TreesInv'
<1> DEFINE T == Modified(x, v).tree
           val == With(x, v)
           n == [node[x] EXCEPT !.val = v]
<1>1. RemoveNode(x, n) /\ tree' = EraseImpl(T, x)
  BY DEF OrdModifyErased, ModifyErased
<1>2. n \in Node
  <2>1. node[x] \in Node
    BY Accounted
  <2> QED BY <2>1 DEF Node
<1>3. \A y \in table : /\ y \in DOMAIN node /\ Rows[y] = node[y].val
                       /\ ValNow[y] = node[y].val
  BY RowContents, Accounted
<1>4. \A y \in table \ {x} : val[y] = Rows[y]
  BY <1>3 DEF With, ValNow
<1>5. PostModified(Modified(x, v), tree, TRUE, x, val, table)
  BY ModifiedFacts DEF ModifiedRight
<1>6. /\ T \in [Range(All) -> Seq(table)] /\ T[ById] = tree[ById]
      /\ \A i \in Secondary : Lists(T[i], table) /\ OrderedBut(T[i], i, val, table, x)
  BY <1>5 DEF PostModified, Results
<1> HIDE DEF T, val, n
<1>7. ASSUME NEW i \in Range(All)
      PROVE  Lists(T[i], table) /\ OrderedBut(T[i], i, val, table, x)
  <2>1. CASE i = ById
    <3>1. InOrder(tree[ById], ById, Rows, table)
      BY <2>1 DEF TreesInv, GoodTrees
    <3>2. Lists(tree[ById], table) /\ OrderedBut(tree[ById], ById, val, table, x)
      BY <3>1 DEF InOrder, Ordered, OrderedBut, KeyOf
    <3> QED BY <1>6, <2>1, <3>2
  <2>2. CASE i # ById
    BY <1>6, <2>2, AllIndices
  <2> QED BY <2>1, <2>2
<1> QED BY <1>1, <1>2, <1>4, <1>6, <1>7, ErasedTrees
----------------------------------------------------------------------------
(* undo, loop by loop *)

Stay(s) == {x \in table : x < s.old_next_id}

LEMMA TopFacts ==
  ASSUME RefInv, undo_stack # <<>>
  PROVE  \E s : /\ s = Top /\ Depth \in 1 .. Depth /\ s = undo_stack[Depth]
                /\ s.old_next_id \in Nat /\ s.ctime \in Nat
                /\ next_id \in Nat /\ s.old_next_id <= next_id
                /\ Height(old_values) \in Nat /\ Height(removed_values) \in Nat
                /\ s.old_values_end \in 0 .. Height(old_values)
                /\ s.removed_values_end \in 0 .. Height(removed_values)
<1>1. Depth \in 1 .. Depth
  BY TopRegion DEF RefInv
<1>2. PICK s : s = undo_stack[Depth]
  OBVIOUS
<1>3. s = Top
  BY <1>2 DEF Top
<1>4. /\ s.old_values_end \in Nat /\ s.removed_values_end \in Nat
      /\ s.old_next_id \in Nat /\ s.ctime \in Nat
      /\ s.old_next_id <= next_id /\ next_id \in Nat
  BY <1>1, <1>2, SessionFacts
<1>5. /\ Height(old_values) \in Nat /\ Height(removed_values) \in Nat
      /\ s.old_values_end <= Height(old_values)
      /\ s.removed_values_end <= Height(removed_values)
  <2>1. /\ HeightBounds(old_values) /\ HeightBounds(removed_values) /\ EndsPresent
    BY DEF RefInv, IndInv
  <2>2. /\ s.old_values_end \in DOMAIN old_values \cup {0}
        /\ s.removed_values_end \in DOMAIN removed_values \cup {0}
    BY <1>1, <1>2, <2>1 DEF EndsPresent
  <2>3. Height(old_values) \in Nat /\ Height(removed_values) \in Nat
    BY <2>1 DEF HeightBounds
  <2>4. s.old_values_end <= Height(old_values)
    BY <2>1, <2>2, <2>3 DEF HeightBounds
  <2>5. s.removed_values_end <= Height(removed_values)
    BY <2>1, <2>2, <2>3 DEF HeightBounds
  <2> QED BY <2>3, <2>4, <2>5
<1> QED BY <1>1, <1>2, <1>3, <1>4, <1>5

(* The first loop leaves the rows that are older than the session. *)
LEMMA NewErasedFacts ==
  ASSUME RefInv, TreesInv, undo_stack # <<>>, NEW s, s = Top
  PROVE  GoodTrees(NewErased(s), Stay(s), Rows)
<1> DEFINE n == next_id - s.old_next_id
           S(k) == {x \in table : x < s.old_next_id \/ x >= s.old_next_id + k}
           D == [k \in 0 .. n |-> {T \in [Range(All) -> Seq(S(k))] : GoodTrees(T, S(k), Rows)}]
           Round(k, T) == LET x == s.old_next_id + k - 1
                          IN IF x \in table THEN EraseImpl(T, x) ELSE T
           Step == [k \in 1 .. n |-> [T \in D[k - 1] |-> Round(k, T)]]
           at(f) == [k \in 0 .. n |-> IF k = 0 THEN tree ELSE Round(k, f[k - 1])]
           after == CHOOSE f : f = at(f)
<1>0. /\ s.old_next_id \in Nat /\ next_id \in Nat /\ s.old_next_id <= next_id
      /\ \A x \in table : x \in Nat /\ x < next_id
  BY TopFacts, Accounted
<1>1. n \in Nat /\ 0 \in 0 .. n /\ \A k \in 1 .. n : k \in 0 .. n /\ k - 1 \in 0 .. n /\ k # 0
  BY <1>0
<1>2. tree \in D[0]
  <2>1. S(0) = table
    BY <1>0
  <2> HIDE DEF S
  <2>2. D[0] = {T \in [Range(All) -> Seq(S(0))] : GoodTrees(T, S(0), Rows)}
    BY <1>1
  <2> QED BY <2>1, <2>2 DEF TreesInv, GoodTrees
<1>3. ASSUME NEW k \in 1 .. n, NEW T \in D[k - 1] PROVE Round(k, T) \in D[k]
  <2> DEFINE x == s.old_next_id + k - 1
  <2>1. GoodTrees(T, S(k - 1), Rows)
    BY <1>1
  <2>2. D[k] = {q \in [Range(All) -> Seq(S(k))] : GoodTrees(q, S(k), Rows)}
    BY <1>1
  <2>3. SUFFICES GoodTrees(Round(k, T), S(k), Rows)
    <3> HIDE DEF S, D, Round
    <3> QED BY <2>2 DEF GoodTrees
  <2>4. x \in Nat /\ k \in Nat /\ S(k) = S(k - 1) \ {x}
    <3>1. x \in Nat /\ k \in Nat /\ k >= 1
      BY <1>0, <1>1
    <3>2. ASSUME NEW y \in Nat
          PROVE  y >= s.old_next_id + k <=> y >= s.old_next_id + (k - 1) /\ y # x
      BY <1>0, <3>1
    <3>3. x >= s.old_next_id
      BY <1>0, <3>1
    <3>4. ~(x < s.old_next_id)
      BY <1>0, <3>1, <3>3
    <3> HIDE DEF x
    <3> QED BY <1>0, <3>1, <3>2, <3>4
  <2>5. CASE x \in table
    <3>1. x \in S(k - 1)
      BY <1>0, <1>1, <2>4, <2>5
    <3> HIDE DEF S
    <3>2. T \in [Range(All) -> Seq(S(k - 1))]
      BY <2>1 DEF GoodTrees
    <3>3. \A i \in Range(All) : /\ Lists(T[i], S(k - 1))
                                /\ OrderedBut(T[i], i, Rows, S(k - 1), x)
      BY <2>1 DEF GoodTrees, InOrder, OrderedBut, Ordered
    <3>4. GoodTrees(EraseImpl(T, x), S(k), Rows)
      <4> DEFINE A == S(k - 1)
                 B == S(k)
      <4> HIDE DEF A, B, x
      <4>1. B = A \ {x}
        BY <2>4 DEF A, B
      <4>2. /\ x \in A /\ T \in [Range(All) -> Seq(A)]
            /\ \A i \in Range(All) : Lists(T[i], A) /\ OrderedBut(T[i], i, Rows, A, x)
        BY <3>1, <3>2, <3>3 DEF A
      <4>3. GoodTrees(EraseImpl(T, x), B, Rows)
        BY <4>1, <4>2, EraseFacts
      <4> QED BY <4>3 DEF B
    <3> QED BY <2>5, <3>4
  <2>6. CASE x \notin table
    <3>1. S(k) = S(k - 1)
      BY <2>4, <2>6
    <3> HIDE DEF S
    <3> QED BY <2>1, <2>6, <3>1
  <2> QED BY <2>5, <2>6
<1> HIDE DEF Round
<1>4. \A k \in 1 .. n : \A T \in D[k - 1] : Step[k][T] = Round(k, T)
  <2> HIDE DEF D
  <2> QED OBVIOUS
<1> HIDE DEF D, Step, n
<1>5. PICK g : IsRun(g, n, tree, Step) /\ \A k \in 0 .. n : g[k] \in D[k]
  <2>1. \A k \in 1 .. n : \A T \in D[k - 1] : Step[k][T] \in D[k]
    BY <1>3, <1>4
  <2> QED BY <1>1, <1>2, <2>1, LoopRuns
<1>6. g = at(g)
  <2>1. \A k \in 0 .. n : (IF k = 0 THEN tree ELSE Step[k][g[k - 1]])
                          = (IF k = 0 THEN tree ELSE Round(k, g[k - 1]))
    <3> TAKE k \in 0 .. n
    <3>1. CASE k = 0
      BY <3>1
    <3>2. CASE k # 0
      <4>1. k \in 1 .. n /\ k - 1 \in 0 .. n
        BY <1>1, <3>2
      <4> QED BY <1>4, <1>5, <3>2, <4>1
    <3> QED BY <3>1, <3>2
  <2> QED BY <1>5, <2>1 DEF IsRun
<1>7. after = at(after)
  <2> HIDE DEF at
  <2> QED BY <1>6
<1>8. NewErased(s) = after[n]
  BY DEF NewErased, after, at, n, Round
<1> HIDE DEF after
<1>9. \A k \in 0 .. n : after[k] = IF k = 0 THEN tree ELSE Round(k, after[k - 1])
  BY <1>7
<1>10. \A k \in 1 .. n : after[k - 1] \in D[k - 1] => after[k] \in D[k]
  <2> TAKE k \in 1 .. n
  <2> QED BY <1>1, <1>3, <1>9
<1>11. after[n] \in D[n]
  <2>1. after[0] \in D[0]
    BY <1>1, <1>2, <1>9
  <2>2. \A k \in 0 .. n : after[k] \in D[k]
    BY <1>1, <1>10, <2>1, LoopInvariant
  <2> QED BY <1>1, <2>2
<1>12. GoodTrees(after[n], S(n), Rows)
  <2> HIDE DEF S
  <2>1. D[n] = {T \in [Range(All) -> Seq(S(n))] : GoodTrees(T, S(n), Rows)}
    BY <1>1 DEF D
  <2> QED BY <1>11, <2>1
<1>13. S(n) = Stay(s)
  BY <1>0 DEF n, Stay
<1> HIDE DEF at, S
<1> QED BY <1>8, <1>12, <1>13
(* Backups of x at positions above m that undo of s writes back *)
OlderAbove(x, s, m) == {p \in OlderBackups(x, s) : p > m}

(* The backups above position m are written back. *)
Written(r, s, m) ==
  /\ r \in [tree : [Range(All) -> Seq(Stay(s))], val : [DOMAIN node -> Value]]
  /\ GoodTrees(r.tree, Stay(s), r.val)
  /\ \A x \in DOMAIN node : r.val[x] = RestoredFrom(x, OlderAbove(x, s, m)).val

LEMMA NothingOlder ==
  ASSUME NEW s, NEW p \in Nat, p \notin DOMAIN old_values \/ old_values[p].mtime >= s.ctime,
         s.ctime \in Int, \A q \in DOMAIN old_values : q \in Nat /\ old_values[q].mtime \in Int
  PROVE  \A x : OlderAbove(x, s, p - 1) = OlderAbove(x, s, p)
<1> SUFFICES ASSUME NEW x, NEW q \in OlderBackups(x, s) PROVE q > p - 1 <=> q > p
  BY DEF OlderAbove
<1>1. q \in Nat /\ q \in DOMAIN old_values /\ old_values[q].mtime < s.ctime
  BY DEF OlderBackups, OldRegion
<1>2. q # p
  BY <1>1
<1> QED BY <1>1, <1>2

LEMMA WriteBackStep ==
  ASSUME RefInv, undo_stack # <<>>, NEW s, s = Top, NEW p \in Nat, p > s.old_values_end,
         NEW r, Written(r, s, p)
  PROVE  Written(WriteBack(s, r, p), s, p - 1)
<1> DEFINE S == Stay(s)
<1>0. /\ s.old_next_id \in Nat /\ s.ctime \in Nat /\ s.old_values_end \in Nat
      /\ Depth \in 1 .. Depth /\ s = undo_stack[Depth]
      /\ TypeOK /\ DOMAIN node = table \cup AllRemoved
      /\ \A x \in table : x \in DOMAIN node /\ node[x] \in Node /\ ~node[x].erased
      /\ \A x \in AllRemoved : node[x].erased
  BY TopFacts, Accounted
<1>01. \A q \in DOMAIN old_values : /\ q \in Nat /\ old_values[q].mtime \in Int
                                    /\ old_values[q].val \in Value
                                    /\ old_values[q].id \in Int
  BY <1>0 DEF TypeOK, OldNode, Mtime, Id
<1>1. /\ r \in [tree : [Range(All) -> Seq(S)], val : [DOMAIN node -> Value]]
      /\ GoodTrees(r.tree, S, r.val)
      /\ \A x \in DOMAIN node : r.val[x] = RestoredFrom(x, OlderAbove(x, s, p)).val
  BY DEF Written
<1>2. CASE p \notin DOMAIN old_values \/ old_values[p].mtime >= s.ctime
  <2>1. \A x : OlderAbove(x, s, p - 1) = OlderAbove(x, s, p)
    BY <1>0, <1>01, <1>2, NothingOlder
  <2>2. WriteBack(s, r, p) = r
    BY <1>2 DEF WriteBack
  <2> QED BY <1>1, <2>1, <2>2 DEF Written
<1>3. CASE ~(p \notin DOMAIN old_values \/ old_values[p].mtime >= s.ctime)
  <2> DEFINE b == old_values[p]
             c == b.id
             val == [r.val EXCEPT ![c] = b.val]
             q == WriteBack(s, r, p)
  <2>1. p \in DOMAIN old_values /\ b.mtime < s.ctime /\ p \in OldRegion(s)
    BY <1>0, <1>01, <1>3 DEF OldRegion
  <2>2. c \in DOMAIN node
    BY <1>0, <2>1 DEF RefInv, IndInv, CurrentAlive
  <2>3. ~(c >= s.old_next_id)
    <3>1. c >= s.old_next_id => b.mtime >= s.ctime
      BY <1>0, <2>1 DEF RefInv, IndInv, NewIsRecent
    <3> QED BY <1>0, <1>01, <2>1, <3>1
  <2>4. c < s.old_next_id
    BY <1>0, <1>01, <2>1, <2>3
  <2>5. /\ val \in [DOMAIN node -> Value] /\ val[c] = b.val
        /\ \A x \in DOMAIN node : x # c => val[x] = r.val[x]
    <3>1. r.val \in [DOMAIN node -> Value] /\ b.val \in Value
      BY <1>01, <1>1, <2>1
    <3> HIDE DEF c
    <3> QED BY <2>2, <3>1
  <2> HIDE DEF val
  <2>6. ASSUME NEW x \in DOMAIN node
        PROVE  val[x] = RestoredFrom(x, OlderAbove(x, s, p - 1)).val
    <3>1. \A z \in OlderBackups(x, s) : z \in Nat /\ z \in DOMAIN old_values /\ old_values[z].id = x
      BY <1>01 DEF OlderBackups, OldRegion
    <3>2. CASE x # c
      <4>1. p \notin OlderBackups(x, s)
        BY <3>1, <3>2
      <4>2. OlderAbove(x, s, p - 1) = OlderAbove(x, s, p)
        <5> SUFFICES ASSUME NEW z \in OlderBackups(x, s) PROVE z > p - 1 <=> z > p
          BY DEF OlderAbove
        <5>1. z \in Nat /\ z # p
          BY <3>1, <4>1
        <5> QED BY <5>1
      <4> QED BY <1>1, <2>5, <3>2, <4>2
    <3>3. CASE x = c
      <4> DEFINE ps == OlderAbove(x, s, p - 1)
      <4>1. p \in OlderBackups(x, s)
        BY <2>1, <3>3 DEF OlderBackups
      <4>2. p > p - 1 /\ \A z \in Nat : z > p - 1 => p <= z
        OBVIOUS
      <4>3. IsOldest(p, ps)
        BY <3>1, <4>1, <4>2 DEF IsOldest, OlderAbove
      <4>4. ps \in SUBSET DOMAIN old_values
        BY <3>1 DEF OlderAbove
      <4> HIDE DEF ps
      <4>5. RestoredFrom(x, ps).val = old_values[p].val
        BY <1>0, <4>3, <4>4, ValueFrom
      <4> QED BY <2>5, <3>3, <4>5 DEF ps
    <3> QED BY <3>2, <3>3
  <2>7. Contents(val, S)
    BY <1>0, <2>5, Accounted DEF Contents, Stay
  <2>8. CASE node[c].erased
    <3>1. q = [tree |-> r.tree, val |-> val]
      BY <1>3, <2>8 DEF WriteBack, val
    <3>2. c \notin S
      BY <1>0, <2>8 DEF Stay
    <3>3. \A y \in S : val[y] = r.val[y]
      BY <1>0, <2>5, <3>2 DEF Stay
    <3> HIDE DEF S, c
    <3>4. GoodTrees(r.tree, S, val)
      BY <1>1, <3>3, SameContents
    <3> HIDE DEF q
    <3>5. q.tree = r.tree /\ q.val = val
      BY <3>1
    <3>6. q \in [tree : [Range(All) -> Seq(S)], val : [DOMAIN node -> Value]]
      BY <1>1, <2>5, <3>1
    <3>7. Written(q, s, p - 1)
      BY <2>6, <3>4, <3>5, <3>6 DEF Written, S
    <3> QED BY <3>7 DEF q
  <2>9. CASE ~node[c].erased
    <3> DEFINE m == PostModify(FALSE, r.tree, c, val)
    <3>1. q = [tree |-> m.tree, val |-> val]
      BY <1>3, <2>9 DEF WriteBack, val
    <3>2. c \in S
      BY <1>0, <2>2, <2>4, <2>9 DEF Stay
    <3>3. \A y \in S \ {c} : val[y] = r.val[y]
      BY <1>0, <2>5 DEF Stay
    <3> HIDE DEF S, c
    <3>4. r.tree \in [Range(All) -> Seq(S)]
      BY <1>1
    <3>5. ASSUME NEW i \in Range(All)
          PROVE  /\ Numbered(i, val, S) /\ Lists(r.tree[i], S)
                 /\ OrderedBut(r.tree[i], i, val, S, c)
      <4>1. Numbered(i, val, S)
        BY <2>7, ContentsNumbered
      <4>2. Lists(r.tree[i], S) /\ Ordered(r.tree[i], i, r.val, S)
        BY <1>1 DEF GoodTrees, InOrder
      <4>3. \A y \in S \ {c} : KeyOf(i, y, val) = KeyOf(i, y, r.val)
        BY <3>3 DEF KeyOf
      <4> QED BY <4>1, <4>2, <4>3 DEF OrderedBut, Ordered
    <3>6. PostModified(m, r.tree, FALSE, c, val, S)
      <4>1. FALSE \in BOOLEAN /\ \A i \in Secondary : i \in Range(All)
        BY AllIndices
      <4> QED BY <3>2, <3>4, <3>5, <4>1, PostModifyFacts
    <3> HIDE DEF m, q
    <3>7. /\ m.tree \in [Range(All) -> Seq(S)] /\ m.tree[ById] = r.tree[ById]
          /\ \A i \in Secondary : Lists(m.tree[i], S) /\ Ordered(m.tree[i], i, val, S)
      BY <3>6 DEF PostModified, Results
    <3>8. ASSUME NEW i \in Range(All) PROVE InOrder(m.tree[i], i, val, S)
      <4>1. CASE i = ById
        <5>1. InOrder(r.tree[ById], ById, r.val, S)
          BY <1>1, <4>1 DEF GoodTrees
        <5>2. InOrder(r.tree[ById], ById, val, S)
          BY <5>1 DEF InOrder, Ordered, KeyOf
        <5> QED BY <3>7, <4>1, <5>2
      <4>2. CASE i # ById
        BY <3>7, <4>2, AllIndices DEF InOrder
      <4> QED BY <4>1, <4>2
    <3>9. q.tree = m.tree /\ q.val = val
      BY <3>1
    <3>10. q \in [tree : [Range(All) -> Seq(S)], val : [DOMAIN node -> Value]]
      BY <2>5, <3>1, <3>7
    <3>11. GoodTrees(q.tree, S, q.val)
      BY <3>7, <3>8, <3>9 DEF GoodTrees
    <3>12. Written(q, s, p - 1)
      BY <2>6, <3>9, <3>10, <3>11 DEF Written, S
    <3> QED BY <3>12 DEF q
  <2> QED BY <2>8, <2>9
<1> QED BY <1>2, <1>3

LEMMA WrittenFirst ==
  ASSUME RefInv, TreesInv, undo_stack # <<>>, NEW s, s = Top
  PROVE  Written([tree |-> NewErased(s), val |-> ValNow], s, Height(old_values))
<1> DEFINE r == [tree |-> NewErased(s), val |-> ValNow]
           S == Stay(s)
<1>1. GoodTrees(NewErased(s), S, Rows)
  BY NewErasedFacts
<1>2. /\ \A y \in table : Rows[y] = node[y].val /\ ValNow[y] = node[y].val
      /\ TypeOK /\ S \subseteq table
  BY RowContents, Accounted DEF Stay
<1> HIDE DEF S
<1>3. GoodTrees(NewErased(s), S, ValNow)
  BY <1>1, <1>2, SameContents
<1>4. ValNow \in [DOMAIN node -> Value] /\ \A x \in DOMAIN node : ValNow[x] = node[x].val
  BY <1>2 DEF ValNow, TypeOK, Node
<1>5. ASSUME NEW x \in DOMAIN node
      PROVE  ValNow[x] = RestoredFrom(x, OlderAbove(x, s, Height(old_values))).val
  <2>1. HeightBounds(old_values)
    BY DEF RefInv, IndInv
  <2>2. OlderAbove(x, s, Height(old_values)) = {}
    <3> SUFFICES ASSUME NEW q \in OlderBackups(x, s), q > Height(old_values) PROVE FALSE
      BY DEF OlderAbove
    <3>1. q \in DOMAIN old_values /\ q \in Nat
      BY <1>2 DEF OlderBackups, OldRegion, TypeOK
    <3> QED BY <2>1, <3>1 DEF HeightBounds
  <2>3. {} \in SUBSET DOMAIN old_values
    OBVIOUS
  <2>4. RestoredFrom(x, {}).val = node[x].val
    BY <1>2, <2>3, ValueFrom
  <2> QED BY <1>4, <2>2, <2>4
<1>6. NewErased(s) \in [Range(All) -> Seq(S)]
  BY <1>3 DEF GoodTrees
<1>7. r.tree = NewErased(s) /\ r.val = ValNow
      /\ r \in [tree : [Range(All) -> Seq(S)], val : [DOMAIN node -> Value]]
  BY <1>4, <1>6
<1> HIDE DEF r
<1>8. Written(r, s, Height(old_values))
  BY <1>3, <1>5, <1>7 DEF Written, S
<1> QED BY <1>8 DEF r

(* The second loop ends with the contents of the start of the session. *)
LEMMA OldWrittenFacts ==
  ASSUME RefInv, TreesInv, undo_stack # <<>>, NEW s, s = Top
  PROVE  Written(OldWritten(s), s, s.old_values_end)
<1> DEFINE H == Height(old_values)
           n == H - s.old_values_end
           b == [tree |-> NewErased(s), val |-> ValNow]
           Rs == [tree : [Range(All) -> Seq(Stay(s))], val : [DOMAIN node -> Value]]
           D == [k \in 0 .. n |-> {r \in Rs : Written(r, s, H - k)}]
           Round(k, r) == WriteBack(s, r, H + 1 - k)
           Step == [k \in 1 .. n |-> [r \in D[k - 1] |-> Round(k, r)]]
           at(f) == [k \in 0 .. n |-> IF k = 0 THEN b ELSE Round(k, f[k - 1])]
           after == CHOOSE f : f = at(f)
<1>0. H \in Nat /\ s.old_values_end \in 0 .. H
  BY TopFacts
<1>1. n \in Nat /\ 0 \in 0 .. n /\ \A k \in 1 .. n : k \in 0 .. n /\ k - 1 \in 0 .. n /\ k # 0
  BY <1>0
<1>2. b \in D[0]
  <2>1. Written(b, s, H)
    BY WrittenFirst
  <2> HIDE DEF b
  <2>2. b \in Rs /\ H - 0 = H
    BY <1>0, <2>1 DEF Written
  <2> QED BY <1>1, <2>1, <2>2
<1>3. ASSUME NEW k \in 1 .. n, NEW r \in D[k - 1] PROVE Round(k, r) \in D[k]
  <2> DEFINE p == H + 1 - k
  <2>1. p \in Nat /\ p > s.old_values_end /\ H - (k - 1) = p /\ H - k = p - 1
    BY <1>0
  <2>2. Written(r, s, H - (k - 1))
    BY <1>1
  <2> HIDE DEF p
  <2>3. Written(r, s, p)
    BY <2>1, <2>2
  <2>4. Written(WriteBack(s, r, p), s, p - 1)
    BY <2>1, <2>3, WriteBackStep
  <2>5. Round(k, r) = WriteBack(s, r, p)
    BY DEF p
  <2> HIDE DEF Round
  <2>6. Written(Round(k, r), s, H - k) /\ Round(k, r) \in Rs
    BY <2>1, <2>4, <2>5 DEF Written
  <2> QED BY <1>1, <2>6
<1> HIDE DEF Round, b
<1>4. \A k \in 1 .. n : \A r \in D[k - 1] : Step[k][r] = Round(k, r)
  <2> HIDE DEF D
  <2> QED OBVIOUS
<1> HIDE DEF D, Step, n, H
<1>5. PICK g : IsRun(g, n, b, Step) /\ \A k \in 0 .. n : g[k] \in D[k]
  <2>1. \A k \in 1 .. n : \A r \in D[k - 1] : Step[k][r] \in D[k]
    BY <1>3, <1>4
  <2> QED BY <1>1, <1>2, <2>1, LoopRuns
<1>6. g = at(g)
  <2>1. \A k \in 0 .. n : (IF k = 0 THEN b ELSE Step[k][g[k - 1]])
                          = (IF k = 0 THEN b ELSE Round(k, g[k - 1]))
    <3> TAKE k \in 0 .. n
    <3>1. CASE k = 0
      BY <3>1
    <3>2. CASE k # 0
      <4>1. k \in 1 .. n /\ k - 1 \in 0 .. n
        BY <1>1, <3>2
      <4> QED BY <1>4, <1>5, <3>2, <4>1
    <3> QED BY <3>1, <3>2
  <2> QED BY <1>5, <2>1 DEF IsRun
<1>7. after = at(after)
  <2> HIDE DEF at
  <2> QED BY <1>6
<1>8. OldWritten(s) = after[n]
  BY DEF OldWritten, after, at, n, H, b, Round
<1> HIDE DEF after
<1>9. \A k \in 0 .. n : after[k] = IF k = 0 THEN b ELSE Round(k, after[k - 1])
  BY <1>7
<1>10. \A k \in 1 .. n : after[k - 1] \in D[k - 1] => after[k] \in D[k]
  <2> TAKE k \in 1 .. n
  <2> QED BY <1>1, <1>3, <1>9
<1>11. after[n] \in D[n]
  <2>1. after[0] \in D[0]
    BY <1>1, <1>2, <1>9
  <2>2. \A k \in 0 .. n : after[k] \in D[k]
    BY <1>1, <1>10, <2>1, LoopInvariant
  <2> QED BY <1>1, <2>2
<1>12. Written(after[n], s, H - n)
  <2>1. D[n] = {r \in Rs : Written(r, s, H - n)}
    BY <1>1 DEF D
  <2> QED BY <1>11, <2>1
<1>13. H - n = s.old_values_end
  BY <1>0 DEF n
<1> HIDE DEF at
<1> QED BY <1>8, <1>12, <1>13

(* The rows that the third loop has in the trees when it has handled the   *)
(* removed ones above position m.                                          *)
BackAbove(s, m) ==
  {removed_values[p] : p \in {p \in RemovedRegion(s) :
                                p > m /\ removed_values[p] < s.old_next_id}}
Present(s, m) == Stay(s) \cup BackAbove(s, m)

LEMMA ReinsertStep ==
  ASSUME RefInv, undo_stack # <<>>, NEW s, s = Top, NEW p \in Nat, p > s.removed_values_end,
         NEW val, \A x \in DOMAIN node : val[x] \in Value /\ val[x] = WrittenBack(x, s).val,
         NEW T, GoodTrees(T, Present(s, p), val)
  PROVE  GoodTrees(Reinsert(s, T, val, p), Present(s, p - 1), val)
<1> DEFINE x == removed_values[p]
           S == Present(s, p)
           R == Present(s, p - 1)
<1>0. /\ s.old_next_id \in Nat /\ s.removed_values_end \in Nat
      /\ Depth \in 1 .. Depth /\ s = undo_stack[Depth]
      /\ TypeOK /\ RemovedOnce /\ DOMAIN node = table \cup AllRemoved
      /\ \A y \in DOMAIN node : y \in Nat
  BY TopFacts, Accounted
<1>01. /\ \A q \in DOMAIN removed_values : q \in Nat /\ removed_values[q] \in AllRemoved
       /\ AllRemoved \cap table = {}
       /\ \A q, z \in DOMAIN removed_values :
            removed_values[q] = removed_values[z] => q = z
  BY <1>0 DEF TypeOK, AllRemoved, RemovedOnce
<1>1. CASE p \notin DOMAIN removed_values \/ x >= s.old_next_id
  <2>1. Reinsert(s, T, val, p) = T
    BY <1>1 DEF Reinsert
  <2>2. \A q \in RemovedRegion(s) : removed_values[q] < s.old_next_id
          => (q > p - 1 <=> q > p)
    <3> SUFFICES ASSUME NEW q \in RemovedRegion(s), removed_values[q] < s.old_next_id
                 PROVE  q > p - 1 <=> q > p
      OBVIOUS
    <3>1. q \in DOMAIN removed_values /\ q \in Nat
      BY <1>01 DEF RemovedRegion
    <3>2. q # p
      <4> SUFFICES ASSUME q = p PROVE FALSE
        OBVIOUS
      <4>1. removed_values[p] \in Nat
        BY <1>0, <1>01, <3>1
      <4> QED BY <1>0, <1>1, <3>1, <4>1
    <3> QED BY <3>1, <3>2
  <2>3. R = S
    BY <2>2 DEF Present, BackAbove
  <2> QED BY <2>1, <2>3
<1>2. CASE ~(p \notin DOMAIN removed_values \/ x >= s.old_next_id)
  <2>1. /\ p \in DOMAIN removed_values /\ p \in RemovedRegion(s)
        /\ x \in AllRemoved /\ x \in Nat /\ x < s.old_next_id
    BY <1>0, <1>01, <1>2 DEF RemovedRegion
  <2>2. Reinsert(s, T, val, p) = InsertImpl(Range(All), T, x, val)
    BY <1>2 DEF Reinsert
  <2>3. x \notin S
    <3>1. x \notin Stay(s)
      BY <1>01, <2>1 DEF Stay
    <3>2. x \notin BackAbove(s, p)
      <4> SUFFICES ASSUME NEW q \in RemovedRegion(s), q > p, removed_values[q] = x
                   PROVE  FALSE
        BY DEF BackAbove
      <4>1. q = p
        BY <1>01, <2>1 DEF RemovedRegion
      <4> QED BY <4>1
    <3> QED BY <3>1, <3>2 DEF Present
  <2>4. R = S \cup {x}
    <3>1. \A q \in RemovedRegion(s) : q > p - 1 <=> q > p \/ q = p
      <4> TAKE q \in RemovedRegion(s)
      <4>1. q \in Nat
        BY <1>01 DEF RemovedRegion
      <4> QED BY <4>1
    <3>2. BackAbove(s, p - 1) = BackAbove(s, p) \cup {x}
      BY <2>1, <3>1 DEF BackAbove
    <3> QED BY <3>2 DEF Present
  <2>5. R \subseteq StartIds(s)
    <3>1. StartIds(s) = {y \in table \cup RemovedIds(s) : y < s.old_next_id}
      BY DEF StartIds
    <3>2. Stay(s) \subseteq StartIds(s)
      BY <3>1 DEF Stay
    <3>3. BackAbove(s, p - 1) \subseteq StartIds(s)
      BY <3>1 DEF BackAbove, RemovedIds
    <3> QED BY <3>2, <3>3 DEF Present
  <2>6. /\ StartIds(s) \subseteq DOMAIN node /\ DOMAIN RowsAtStart(s) = StartIds(s)
        /\ \A y \in StartIds(s) : RowsAtStart(s)[y] = WrittenBack(y, s).val
        /\ UniqueRows(RowsAtStart(s))
    BY <1>0, StartIdsAllocated, SessionFacts DEF RowsAtStart, StartIds
  <2>7. \A y, z \in StartIds(s) : y # z => ~Conflict(val[y], val[z])
    BY <2>6 DEF UniqueRows
  <2> HIDE DEF x, S, R
  <2>8. Contents(val, R)
    BY <1>0, <2>5, <2>6 DEF Contents
  <2>9. \A y \in S : ~Conflict(val[x], val[y])
    BY <2>3, <2>4, <2>5, <2>7
  <2>10. GoodTrees(T, S, val)
    BY DEF S
  <2>11. GoodTrees(InsertImpl(Range(All), T, x, val), R, val)
    BY <2>3, <2>4, <2>8, <2>9, <2>10, InsertImplFacts
  <2> QED BY <2>2, <2>11 DEF R
<1> QED BY <1>1, <1>2

(* undo leaves sorted trees of the rows of the start of the session: none  *)
(* of the insertions whose result it ignores is refused.                   *)
LEMMA TreesUndoneFacts ==
  ASSUME RefInv, TreesInv, undo_stack # <<>>, NEW s, s = Top
  PROVE  GoodTrees(TreesUndone, StartIds(s), RowsAtStart(s))
<1> DEFINE H == Height(removed_values)
           n == H - s.removed_values_end
           old == OldWritten(s)
           b == old.tree
           val == old.val
           D == [k \in 0 .. n |-> {T \in [Range(All) -> Seq(Present(s, H - k))] :
                                     GoodTrees(T, Present(s, H - k), val)}]
           Round(k, T) == Reinsert(s, T, val, H + 1 - k)
           Step == [k \in 1 .. n |-> [T \in D[k - 1] |-> Round(k, T)]]
           at(f) == [k \in 0 .. n |-> IF k = 0 THEN b ELSE Round(k, f[k - 1])]
           after == CHOOSE f : f = at(f)
<1>0. H \in Nat /\ s.removed_values_end \in 0 .. H
  BY TopFacts
<1>1. n \in Nat /\ 0 \in 0 .. n /\ \A k \in 1 .. n : k \in 0 .. n /\ k - 1 \in 0 .. n /\ k # 0
  BY <1>0
<1>01. TypeOK /\ HeightBounds(removed_values)
       /\ \A p \in RemovedRegion(s) : p \in DOMAIN removed_values /\ p \in Nat
  BY DEF RefInv, IndInv, RemovedRegion, TypeOK
<1>02. Written(old, s, s.old_values_end)
  BY OldWrittenFacts
<1> HIDE DEF old
<1>03. ASSUME NEW x \in DOMAIN node
       PROVE  val[x] \in Value /\ val[x] = WrittenBack(x, s).val
  <2>1. OlderAbove(x, s, s.old_values_end) = OlderBackups(x, s)
    BY DEF OlderAbove, OlderBackups, OldRegion
  <2>2. val \in [DOMAIN node -> Value]
    BY <1>02 DEF Written
  <2> QED BY <1>02, <2>1, <2>2 DEF Written, WrittenBack
<1>2. b \in D[0]
  <2>1. GoodTrees(b, Stay(s), val)
    BY <1>02 DEF Written
  <2>2. BackAbove(s, H) = {}
    <3> SUFFICES ASSUME NEW p \in RemovedRegion(s), p > H PROVE FALSE
      BY DEF BackAbove
    <3> QED BY <1>0, <1>01 DEF HeightBounds
  <2>3. Present(s, H - 0) = Stay(s)
    <3>1. H - 0 = H
      BY <1>0
    <3> QED BY <2>2, <3>1 DEF Present
  <2> HIDE DEF b
  <2>4. b \in [Range(All) -> Seq(Stay(s))]
    BY <2>1 DEF GoodTrees
  <2> QED BY <1>1, <2>1, <2>3, <2>4
<1>3. ASSUME NEW k \in 1 .. n, NEW T \in D[k - 1] PROVE Round(k, T) \in D[k]
  <2> DEFINE p == H + 1 - k
  <2>1. p \in Nat /\ p > s.removed_values_end /\ H - (k - 1) = p /\ H - k = p - 1
    BY <1>0
  <2>2. GoodTrees(T, Present(s, H - (k - 1)), val)
    BY <1>1
  <2> HIDE DEF p, val
  <2>3. GoodTrees(T, Present(s, p), val)
    BY <2>1, <2>2
  <2>4. GoodTrees(Reinsert(s, T, val, p), Present(s, p - 1), val)
    BY <1>03, <2>1, <2>3, ReinsertStep
  <2>5. Round(k, T) = Reinsert(s, T, val, p)
    BY DEF p
  <2> HIDE DEF Round
  <2>6. GoodTrees(Round(k, T), Present(s, H - k), val)
    BY <2>1, <2>4, <2>5
  <2>7. Round(k, T) \in [Range(All) -> Seq(Present(s, H - k))]
    BY <2>6 DEF GoodTrees
  <2> QED BY <1>1, <2>6, <2>7
<1> HIDE DEF Round, b, val
<1>4. \A k \in 1 .. n : \A T \in D[k - 1] : Step[k][T] = Round(k, T)
  <2> HIDE DEF D
  <2> QED OBVIOUS
<1> HIDE DEF D, Step, n, H
<1>5. PICK g : IsRun(g, n, b, Step) /\ \A k \in 0 .. n : g[k] \in D[k]
  <2>1. \A k \in 1 .. n : \A T \in D[k - 1] : Step[k][T] \in D[k]
    BY <1>3, <1>4
  <2> QED BY <1>1, <1>2, <2>1, LoopRuns
<1>6. g = at(g)
  <2>1. \A k \in 0 .. n : (IF k = 0 THEN b ELSE Step[k][g[k - 1]])
                          = (IF k = 0 THEN b ELSE Round(k, g[k - 1]))
    <3> TAKE k \in 0 .. n
    <3>1. CASE k = 0
      BY <3>1
    <3>2. CASE k # 0
      <4>1. k \in 1 .. n /\ k - 1 \in 0 .. n
        BY <1>1, <3>2
      <4> QED BY <1>4, <1>5, <3>2, <4>1
    <3> QED BY <3>1, <3>2
  <2> QED BY <1>5, <2>1 DEF IsRun
<1>7. after = at(after)
  <2> HIDE DEF at
  <2> QED BY <1>6
<1>8. TreesUndone = after[n]
  BY DEF TreesUndone, after, at, n, H, b, val, old, Round
<1> HIDE DEF after
<1>9. \A k \in 0 .. n : after[k] = IF k = 0 THEN b ELSE Round(k, after[k - 1])
  BY <1>7
<1>10. \A k \in 1 .. n : after[k - 1] \in D[k - 1] => after[k] \in D[k]
  <2> TAKE k \in 1 .. n
  <2> QED BY <1>1, <1>3, <1>9
<1>11. after[n] \in D[n]
  <2>1. after[0] \in D[0]
    BY <1>1, <1>2, <1>9
  <2>2. \A k \in 0 .. n : after[k] \in D[k]
    BY <1>1, <1>10, <2>1, LoopInvariant
  <2> QED BY <1>1, <2>2
<1>12. GoodTrees(after[n], Present(s, H - n), val)
  <2>1. D[n] = {T \in [Range(All) -> Seq(Present(s, H - n))] :
                  GoodTrees(T, Present(s, H - n), val)}
    BY <1>1 DEF D
  <2> QED BY <1>11, <2>1
<1>13. H - n = s.removed_values_end
  BY <1>0 DEF n
<1>14. Present(s, s.removed_values_end) = StartIds(s)
  <2>1. \A p \in RemovedRegion(s) : p > s.removed_values_end
    BY DEF RemovedRegion
  <2>2. BackAbove(s, s.removed_values_end) = Back(s)
    BY <2>1 DEF BackAbove, Back, RemovedIds
  <2> QED BY <2>2 DEF Present, Stay, Back, StartIds
<1> HIDE DEF at
<1>15. GoodTrees(TreesUndone, StartIds(s), val)
  BY <1>8, <1>12, <1>13, <1>14
<1>16. \A y \in StartIds(s) : RowsAtStart(s)[y] = val[y]
  <2>1. StartIds(s) \subseteq DOMAIN node
    BY <1>01, StartIdsAllocated
  <2>2. \A y \in StartIds(s) : RowsAtStart(s)[y] = WrittenBack(y, s).val
    BY DEF RowsAtStart, StartIds
  <2> QED BY <1>03, <2>1, <2>2
<1> QED BY <1>15, <1>16, SameContents

LEMMA UndoTrees ==
  ASSUME RefInv, TypeOK', RemovedOnce', TreesInv, OrdUndo
  PROVE  TreesInv'
<1>1. Undo /\ tree' = TreesUndone
  BY DEF OrdUndo
<1>2. undo_stack # <<>>
  BY <1>1 DEF Undo
<1>3. PICK s : s = Top
  OBVIOUS
<1>4. GoodTrees(TreesUndone, StartIds(s), RowsAtStart(s))
  BY <1>2, <1>3, TreesUndoneFacts
<1>5. Rows' = RowsAtStart(s)
  BY <1>1, <1>3, UndoRows
<1>6. DOMAIN RowsAtStart(s) = StartIds(s)
  BY DEF RowsAtStart, StartIds
<1> DEFINE w == RowsAtStart(s)
           S == StartIds(s)
<1> HIDE DEF w, S
<1>7. /\ GoodTrees(tree', S, w) /\ Rows' = w /\ DOMAIN w = S
  BY <1>1, <1>4, <1>5, <1>6 DEF w, S
<1> QED BY <1>7, TreesNext
----------------------------------------------------------------------------
(* The theorems *)

OrdInv == RefInv /\ TreesInv

LEMMA OrdStep ==
  ASSUME OrdNext
  PROVE  [Next]_vars
<1>1. ASSUME NEW v \in Value, OrdEmplace(v) \/ OrdEmplaceRefused(v) PROVE [Next]_vars
  BY <1>1 DEF OrdEmplace, OrdEmplaceRefused, Next
<1>2. ASSUME NEW x \in table, NEW v \in Value,
             OrdModify(x, v) \/ OrdModifyReverted(x, v) \/ OrdModifyErased(x, v)
      PROVE  Next
  BY <1>2 DEF OrdModify, OrdModifyReverted, OrdModifyErased, Next
<1>3. ASSUME NEW x \in table, OrdRemove(x) PROVE Next
  BY <1>3 DEF OrdRemove, Next
<1>4. CASE OrdUndo
  BY <1>4 DEF OrdUndo, Next
<1>5. CASE (StartSession \/ Squash \/ SquashFast \/ CompressLast) /\ UNCHANGED tree
  BY <1>5 DEF Next
<1>6. ASSUME NEW r \in 0 .. MaxRevision, (Commit(r) \/ SetRevision(r)) /\ UNCHANGED tree
      PROVE  Next
  BY <1>6 DEF Next
<1> QED BY <1>1, <1>2, <1>3, <1>4, <1>5, <1>6 DEF OrdNext

(* The operations on sessions leave the rows, and with them the trees. *)
LEMMA SessionTrees ==
  ASSUME RefInv, RemovedOnce', TreesInv, UNCHANGED tree,
         \/ StartSession \/ Squash \/ SquashFast \/ CompressLast
         \/ \E r \in 0 .. MaxRevision : Commit(r) \/ SetRevision(r)
  PROVE  TreesInv'
<1>1. CASE UNCHANGED <<node, table>>
  BY <1>1, TreesUnchanged DEF Rows
<1>2. ASSUME UNCHANGED table, NEW t, Compress(t) PROVE TreesInv'
  BY <1>2, CompressRows, TreesUnchanged
<1>3. ASSUME UNCHANGED table, NEW ok, NEW rk, Dispose(ok, rk) PROVE TreesInv'
  BY <1>3, DisposeRows, TreesUnchanged
<1>4. CASE StartSession
  BY <1>1, <1>4 DEF StartSession
<1>5. CASE Squash
  <2>1. UNCHANGED table
    BY <1>5 DEF Squash, DropTop
  <2>2. CASE Depth >= 2
    <3>1. Compress(undo_stack[Depth - 1])
      BY <1>5, <2>2 DEF Squash
    <3> QED BY <1>2, <2>1, <3>1
  <2>3. CASE ~(Depth >= 2)
    <3>1. Dispose({}, {})
      BY <1>5, <2>3 DEF Squash
    <3> QED BY <1>3, <2>1, <3>1
  <2> QED BY <2>2, <2>3
<1>6. CASE SquashFast
  <2>1. UNCHANGED table
    BY <1>6 DEF SquashFast, DropTop
  <2>2. CASE Depth = 1
    <3>1. Dispose({}, {})
      BY <1>6, <2>2 DEF SquashFast
    <3> QED BY <1>3, <2>1, <3>1
  <2>3. CASE Depth # 1
    BY <1>1, <1>6, <2>1, <2>3 DEF SquashFast
  <2> QED BY <2>2, <2>3
<1>7. CASE CompressLast
  <2>1. UNCHANGED table /\ Compress(Top)
    BY <1>7 DEF CompressLast
  <2> QED BY <1>2, <2>1
<1>8. ASSUME NEW r \in 0 .. MaxRevision, Commit(r) PROVE TreesInv'
  <2>1. UNCHANGED table
    BY <1>8 DEF Commit
  <2>2. CASE r >= revision
    <3>1. Dispose({}, {})
      BY <1>8, <2>2 DEF Commit
    <3> QED BY <1>3, <2>1, <3>1
  <2>3. CASE ~(r >= revision)
    <3>1. \E ok, rk : Dispose(ok, rk)
      BY <1>8, <2>3 DEF Commit
    <3> QED BY <1>3, <2>1, <3>1
  <2> QED BY <2>2, <2>3
<1>9. ASSUME NEW r \in 0 .. MaxRevision, SetRevision(r) PROVE TreesInv'
  BY <1>1, <1>9 DEF SetRevision
<1> QED BY <1>4, <1>5, <1>6, <1>7, <1>8, <1>9

LEMMA NextOrdInv ==
  ASSUME RetryRefused = FALSE, OrdInv, [OrdNext]_<<vars, tree>>
  PROVE  OrdInv'
<1>1. RefInv /\ TreesInv
  BY DEF OrdInv
<1>2. [Next]_vars
  <2>1. CASE OrdNext
    BY <2>1, OrdStep
  <2>2. CASE UNCHANGED <<vars, tree>>
    BY <2>2
  <2> QED BY <2>1, <2>2
<1>3. RefInv'
  BY <1>1, <1>2, NextRefInv
<1>4. TypeOK' /\ RemovedOnce'
  BY <1>3 DEF RefInv, IndInv
<1> SUFFICES TreesInv'
  BY <1>3 DEF OrdInv
<1>5. ASSUME NEW v \in Value, OrdEmplace(v) PROVE TreesInv'
  BY <1>1, <1>4, <1>5, EmplaceTrees
<1>6. ASSUME NEW v \in Value, OrdEmplaceRefused(v) PROVE TreesInv'
  <2>1. UNCHANGED <<vars, tree>>
    BY <1>1, <1>6, EmplaceRefusedTrees
  <2> QED BY <1>1, <2>1, TreesUnchanged DEF Rows, vars
<1>7. ASSUME NEW x \in table, NEW v \in Value, OrdModify(x, v) PROVE TreesInv'
  BY <1>1, <1>4, <1>7, ModifyTrees
<1>8. ASSUME NEW x \in table, NEW v \in Value, OrdModifyReverted(x, v) PROVE TreesInv'
  BY <1>1, <1>4, <1>8, ModifyRevertedTrees
<1>9. ASSUME NEW x \in table, NEW v \in Value, OrdModifyErased(x, v) PROVE TreesInv'
  BY <1>1, <1>4, <1>9, ModifyErasedTrees
<1>10. ASSUME NEW x \in table, OrdRemove(x) PROVE TreesInv'
  BY <1>1, <1>4, <1>10, RemoveTrees
<1>11. CASE OrdUndo
  BY <1>1, <1>4, <1>11, UndoTrees
<1>12. CASE (StartSession \/ Squash \/ SquashFast \/ CompressLast) /\ UNCHANGED tree
  BY <1>1, <1>4, <1>12, SessionTrees
<1>13. ASSUME NEW r \in 0 .. MaxRevision, (Commit(r) \/ SetRevision(r)) /\ UNCHANGED tree
       PROVE  TreesInv'
  BY <1>1, <1>4, <1>13, SessionTrees
<1>14. CASE UNCHANGED <<vars, tree>>
  BY <1>1, <1>14, TreesUnchanged DEF Rows, vars
<1> QED
  BY <1>5, <1>6, <1>7, <1>8, <1>9, <1>10, <1>11, <1>12, <1>13, <1>14 DEF OrdNext

LEMMA InitOrdInv == OrdInit => OrdInv
<1> SUFFICES ASSUME OrdInit PROVE OrdInv
  OBVIOUS
<1>1. Init /\ tree = [i \in Range(All) |-> <<>>] /\ table = {}
  BY DEF OrdInit, Init
<1>2. RefInv
  BY <1>1, InitRefInv
<1>3. \A i \in Range(All) : tree[i] = <<>>
  BY <1>1
<1>4. <<>> \in Seq(table) /\ DOMAIN <<>> = {}
  BY EmptySeq
<1>5. \A i \in Range(All) : InOrder(tree[i], i, Rows, table)
  BY <1>1, <1>3, <1>4 DEF InOrder, Lists, Ordered
<1>6. tree \in [Range(All) -> Seq(table)]
  BY <1>1, <1>4
<1> QED BY <1>2, <1>5, <1>6 DEF OrdInv, TreesInv, GoodTrees

(* Each index holds a sorted tree of exactly the rows, after each          *)
(* operation: after post_modify, whatever it refused and however it left   *)
(* the trees before the old contents came back, and after an undo, in      *)
(* which keys are duplicate for a while, when no client modifies again an  *)
(* object whose modification was refused.                                  *)
THEOREM TreesStayGood == RetryRefused = FALSE => (OrdSpec => []OrdInv)
<1> SUFFICES ASSUME RetryRefused = FALSE PROVE OrdSpec => []OrdInv
  OBVIOUS
<1>1. OrdInit => OrdInv
  BY InitOrdInv
<1>2. OrdInv /\ [OrdNext]_<<vars, tree>> => OrdInv'
  BY NextOrdInv
<1> QED BY <1>1, <1>2, PTL DEF OrdSpec

(* Each tree holds the rows of the table, all of them and no others,       *)
(* strictly sorted.                                                        *)
THEOREM TreesAlwaysSorted == RetryRefused = FALSE => (OrdSpec => []TreesSorted)
<1> SUFFICES ASSUME RetryRefused = FALSE PROVE OrdSpec => []TreesSorted
  OBVIOUS
<1>1. OrdInv => TreesSorted
  BY InvSorted DEF OrdInv
<1>2. OrdSpec => []OrdInv
  BY TreesStayGood
<1> QED BY <1>1, <1>2, PTL

(* post_modify accepts just the contents that conflict with no row, and    *)
(* "assert(success)" in modify cannot fail: putting the old contents back  *)
(* succeeds in every index and restores each tree.                         *)
THEOREM VerdictAlwaysRight == RetryRefused = FALSE => (OrdSpec => []VerdictRight)
<1> SUFFICES ASSUME RetryRefused = FALSE PROVE OrdSpec => []VerdictRight
  OBVIOUS
<1>1. OrdInv => VerdictRight
  BY InvVerdict DEF OrdInv
<1>2. OrdSpec => []OrdInv
  BY TreesStayGood
<1> QED BY <1>1, <1>2, PTL

(* What the trees add forbids no step of undo_index and invents none: all  *)
(* that is proved of UndoIndex holds with the trees, too.                  *)
THEOREM TreesImplementTable ==
  /\ OrdSpec => Spec
  /\ RetryRefused = FALSE => (OrdSpec => ImplementsTable)
<1>1. OrdInit => Init
  BY DEF OrdInit
<1>2. [OrdNext]_<<vars, tree>> => [Next]_vars
  BY OrdStep
<1>3. OrdSpec => Spec
  BY <1>1, <1>2, PTL DEF OrdSpec, Spec
<1>4. RetryRefused = FALSE => (OrdSpec => ImplementsTable)
  BY <1>3, UndoIndexImplementsTable
<1> QED BY <1>3, <1>4
=============================================================================
