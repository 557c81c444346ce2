--------------------------- MODULE SharedCowProofs ---------------------------
(***************************************************************************)
(* Proofs about SharedCow and SharedCowString: the counts are exact for    *)
(* any number of handles, blocks and places, and so sharing is invisible.  *)
(*                                                                         *)
(* Each operation lets h give up what it holds and then take something.    *)
(* The lemmas follow these two halves, on a state given by its two         *)
(* variables d (data) and I (impl).                                        *)
(***************************************************************************)
EXTENDS SharedCowString, TLAPS, FiniteSetTheorems

(* The invariant, with the variables as parameters. *)
HoldersIn(d, b) == {g \in DOMAIN d : d[g] = b}

Counted(d, I) ==
  \A b \in DOMAIN I : /\ I[b].reference_count = Cardinality(HoldersIn(d, b))
                      /\ HoldersIn(d, b) # {}

Typed(d, I) ==
  /\ DOMAIN d \subseteq Handle
  /\ \A g \in DOMAIN d : d[g] \in DOMAIN I \cup {Null}
  /\ DOMAIN I \subseteq Block
  /\ \A b \in DOMAIN I : I[b] \in Impl /\ I[b].val # <<>>

Housed(d, I) == \A g \in DOMAIN d : d[g] # Null => I[d[g]].home = Home[g]

Good(d, I) == Counted(d, I) /\ Typed(d, I) /\ Housed(d, I)

ValueIn(d, I, g) == IF d[g] = Null THEN <<>> ELSE I[d[g]].val

Less(d, h) == [g \in DOMAIN d \ {h} |-> d[g]]
Passed(d, h, o) == [Put(d, h, d[o]) EXCEPT ![o] = Null]
Written(I, b, v) == [I EXCEPT ![b].val = v]

LEMMA GoodIsInvariant == Good(data, impl) <=> TypeOK /\ CountsExact /\ HomesMatch
BY DEF Good, Counted, Typed, Housed, HoldersIn, TypeOK, CountsExact, HomesMatch, Holders

(* A count below the limit is what it is, modulo the limit. *)
LEMMA Modulo ==
  ASSUME NEW n \in 0 .. RefLimit - 1
  PROVE  n % RefLimit = n
BY SharedCowAssumption

LEMMA HoldersFinite ==
  ASSUME NEW d, DOMAIN d \subseteq Handle, NEW b
  PROVE  /\ IsFiniteSet(HoldersIn(d, b))
         /\ Cardinality(HoldersIn(d, b)) \in Nat
         /\ Cardinality(HoldersIn(d, b)) < RefLimit
<1>1. HoldersIn(d, b) \in SUBSET Handle
  BY DEF HoldersIn
<1>2. /\ IsFiniteSet(HoldersIn(d, b))
      /\ Cardinality(HoldersIn(d, b)) <= Cardinality(Handle)
  BY <1>1, FS_Subset, SharedCowAssumption
<1>3. Cardinality(Handle) \in Nat /\ Cardinality(HoldersIn(d, b)) \in Nat
  BY <1>2, FS_CardinalityType, SharedCowAssumption
<1> QED BY <1>2, <1>3, SharedCowAssumption

(* A handle lets go of its block: the others find theirs as it was. *)
LEMMA LetGo ==
  ASSUME NEW d, NEW I, Good(d, I), NEW h \in DOMAIN d
  PROVE  LET J == DecRef(I, d[h])
         IN  /\ Good(Less(d, h), J)
             /\ \A g \in DOMAIN d \ {h} : ValueIn(Less(d, h), J, g) = ValueIn(d, I, g)
             /\ DOMAIN J \subseteq DOMAIN I
             /\ \A b \in DOMAIN J : b # d[h] => J[b] = I[b]
             /\ \A b \in DOMAIN J : J[b].val = I[b].val
<1> DEFINE J == DecRef(I, d[h])
           e == Less(d, h)
<1>1. /\ DOMAIN e = DOMAIN d \ {h}
      /\ \A g \in DOMAIN e : e[g] = d[g]
      /\ DOMAIN d \subseteq Handle /\ DOMAIN e \subseteq Handle
  BY DEF Less, Good, Typed
<1>2. /\ \A b : b # d[h] => HoldersIn(e, b) = HoldersIn(d, b)
      /\ HoldersIn(e, d[h]) = HoldersIn(d, d[h]) \ {h}
      /\ h \in HoldersIn(d, d[h])
  BY <1>1 DEF HoldersIn
<1>3. CASE d[h] = Null
  <2>1. J = I
    BY <1>3 DEF DecRef
  <2>2. \A b \in DOMAIN I : b # d[h]
    BY <1>3, SharedCowAssumption DEF Good, Typed
  <2> HIDE DEF J, e
  <2>3. Good(e, J)
    BY <1>1, <1>2, <2>1, <2>2 DEF Good, Counted, Typed, Housed
  <2> QED BY <1>1, <2>1, <2>3 DEF ValueIn, J, e
<1>4. CASE d[h] # Null
  <2> DEFINE b == d[h]
  <2>1. /\ b \in DOMAIN I /\ I[b] \in Impl
        /\ I[b].reference_count = Cardinality(HoldersIn(d, b))
    BY <1>4 DEF Good, Typed, Counted
  <2>2. /\ IsFiniteSet(HoldersIn(d, b)) /\ Cardinality(HoldersIn(d, b)) \in Nat
        /\ Cardinality(HoldersIn(d, b)) < RefLimit
    BY <1>1, HoldersFinite
  <2>3. /\ Cardinality(HoldersIn(e, b)) = Cardinality(HoldersIn(d, b)) - 1
        /\ IsFiniteSet(HoldersIn(e, b)) /\ Cardinality(HoldersIn(e, b)) \in Nat
    <3>1. /\ Cardinality(HoldersIn(d, b) \ {h}) = Cardinality(HoldersIn(d, b)) - 1
          /\ IsFiniteSet(HoldersIn(d, b) \ {h})
      BY <1>2, <2>2, FS_RemoveElement
    <3> QED BY <1>2, <3>1, FS_CardinalityType
  <2>4. CASE I[b].reference_count = 1
    <3>1. J = [c \in DOMAIN I \ {b} |-> I[c]]
      BY <1>4, <2>4 DEF DecRef
    <3>2. HoldersIn(e, b) = {}
      BY <2>1, <2>3, <2>4, FS_EmptySet
    <3>3. \A g \in DOMAIN e : e[g] # b
      BY <3>2 DEF HoldersIn
    <3>4. DOMAIN J = DOMAIN I \ {b} /\ \A c \in DOMAIN J : J[c] = I[c]
      BY <3>1
    <3> HIDE DEF J, e, b
    <3>5. Counted(e, J)
      BY <1>2, <3>4 DEF Good, Counted, b
    <3>6. Typed(e, J)
      BY <1>1, <3>3, <3>4 DEF Good, Typed
    <3>7. Housed(e, J)
      BY <1>1, <3>3, <3>4 DEF Good, Housed, Typed
    <3>8. \A g \in DOMAIN d \ {h} : ValueIn(e, J, g) = ValueIn(d, I, g)
      BY <1>1, <3>3, <3>4 DEF ValueIn, Good, Typed
    <3> QED BY <3>4, <3>5, <3>6, <3>7, <3>8 DEF Good, J, e, b
  <2>5. CASE I[b].reference_count # 1
    <3>1. J = [I EXCEPT ![b].reference_count = (@ - 1) % RefLimit]
      BY <1>4, <2>5 DEF DecRef
    <3>2. (I[b].reference_count - 1) % RefLimit = Cardinality(HoldersIn(e, b))
      BY <2>1, <2>2, <2>3, Modulo, SharedCowAssumption
    <3>3. /\ DOMAIN J = DOMAIN I
          /\ \A c \in DOMAIN I : c # b => J[c] = I[c]
          /\ J[b] \in Impl /\ J[b].val = I[b].val /\ J[b].home = I[b].home
          /\ J[b].reference_count = Cardinality(HoldersIn(e, b))
      <4>1. Cardinality(HoldersIn(e, b)) \in 0 .. RefLimit - 1
        BY <2>2, <2>3, SharedCowAssumption
      <4>2. J = [I EXCEPT ![b].reference_count = Cardinality(HoldersIn(e, b))]
        BY <3>1, <3>2
      <4> HIDE DEF J, e, b
      <4> QED BY <2>1, <4>1, <4>2 DEF Impl
    <3>4. HoldersIn(e, b) # {}
      BY <2>1, <2>2, <2>3, <2>5, FS_EmptySet
    <3> HIDE DEF J, e, b
    <3>5. Counted(e, J)
      BY <1>2, <3>3, <3>4 DEF Good, Counted, b
    <3>6. Typed(e, J)
      BY <1>1, <2>1, <3>3 DEF Good, Typed
    <3>7. Housed(e, J)
      BY <1>1, <3>3 DEF Good, Housed, Typed
    <3>8. \A g \in DOMAIN d \ {h} : ValueIn(e, J, g) = ValueIn(d, I, g)
      BY <1>1, <3>3 DEF ValueIn, Good, Typed
    <3> QED BY <3>3, <3>5, <3>6, <3>7, <3>8 DEF Good, J, e, b
  <2> QED BY <2>4, <2>5
<1> QED BY <1>3, <1>4
(* A new handle without a block. *)
LEMMA TakeNull ==
  ASSUME NEW d, NEW I, Good(d, I), NEW h \in Handle \ DOMAIN d
  PROVE  LET e == Put(d, h, Null)
         IN  /\ Good(e, I)
             /\ ValueIn(e, I, h) = <<>>
             /\ \A g \in DOMAIN d : ValueIn(e, I, g) = ValueIn(d, I, g)
<1> DEFINE e == Put(d, h, Null)
<1>1. /\ DOMAIN e = DOMAIN d \cup {h} /\ e[h] = Null
      /\ \A g \in DOMAIN d : e[g] = d[g]
  BY DEF Put
<1>2. \A b \in DOMAIN I : b # Null
  BY SharedCowAssumption DEF Good, Typed
<1> HIDE DEF e
<1>3. \A b \in DOMAIN I : HoldersIn(e, b) = HoldersIn(d, b)
  BY <1>1, <1>2 DEF HoldersIn
<1>4. Good(e, I)
  BY <1>1, <1>2, <1>3 DEF Good, Counted, Typed, Housed
<1> QED BY <1>1, <1>4 DEF ValueIn, e

(* A new handle with a block of its own. *)
LEMMA TakeNew ==
  ASSUME NEW d, NEW I, Good(d, I), NEW h \in Handle \ DOMAIN d,
         NEW b \in Block \ DOMAIN I, NEW v \in Contents, v # <<>>
  PROVE  LET e == Put(d, h, b)
             J == Put(I, b, [reference_count |-> 1, val |-> v, home |-> Home[h]])
         IN  /\ Good(e, J)
             /\ ValueIn(e, J, h) = v
             /\ \A g \in DOMAIN d : ValueIn(e, J, g) = ValueIn(d, I, g)
<1> DEFINE r == [reference_count |-> 1, val |-> v, home |-> Home[h]]
           e == Put(d, h, b)
           J == Put(I, b, r)
<1>1. /\ DOMAIN e = DOMAIN d \cup {h} /\ e[h] = b
      /\ \A g \in DOMAIN d : e[g] = d[g]
      /\ DOMAIN J = DOMAIN I \cup {b} /\ J[b] = r
      /\ \A c \in DOMAIN I : J[c] = I[c]
  BY DEF Put
<1>2. \A g \in DOMAIN d : d[g] # b
  BY SharedCowAssumption DEF Good, Typed
<1>3. r \in Impl /\ r.val = v /\ r.home = Home[h] /\ r.reference_count = 1
  <2>1. 1 \in 0 .. RefLimit - 1
    <3>1. \E g \in Handle : TRUE
      OBVIOUS
    <3>2. Cardinality(Handle) \in Nat /\ Cardinality(Handle) # 0
      BY <3>1, FS_CardinalityType, FS_EmptySet, SharedCowAssumption
    <3> QED BY <3>2, SharedCowAssumption
  <2> QED BY <2>1, SharedCowAssumption DEF Impl
<1>4. b # Null
  BY SharedCowAssumption
<1> HIDE DEF e, J, r
<1>5. /\ \A c \in DOMAIN I : HoldersIn(e, c) = HoldersIn(d, c)
      /\ HoldersIn(e, b) = {h}
  BY <1>1, <1>2 DEF HoldersIn
<1>6. Cardinality(HoldersIn(e, b)) = 1
  BY <1>5, FS_Singleton
<1>7. Counted(e, J)
  BY <1>1, <1>3, <1>5, <1>6 DEF Good, Counted
<1>8. Typed(e, J)
  BY <1>1, <1>3 DEF Good, Typed
<1>9. Housed(e, J)
  BY <1>1, <1>2, <1>3 DEF Good, Housed, Typed
<1>10. \A g \in DOMAIN d : ValueIn(e, J, g) = ValueIn(d, I, g)
  BY <1>1, <1>2 DEF ValueIn, Good, Typed
<1> QED BY <1>1, <1>3, <1>4, <1>7, <1>8, <1>9, <1>10 DEF Good, ValueIn, e, J, r

(* A new handle that takes part in the block of another one. *)
LEMMA TakePart ==
  ASSUME NEW d, NEW I, Good(d, I), NEW h \in Handle \ DOMAIN d,
         NEW o \in DOMAIN d, Home[h] = Home[o]
  PROVE  LET e == Put(d, h, d[o])
             J == IncRef(I, d[o])
         IN  /\ Good(e, J)
             /\ ValueIn(e, J, h) = ValueIn(d, I, o)
             /\ \A g \in DOMAIN d : ValueIn(e, J, g) = ValueIn(d, I, g)
<1> DEFINE b == d[o]
           e == Put(d, h, b)
           J == IncRef(I, b)
<1>1. CASE b = Null
  <2>1. J = I
    BY <1>1 DEF IncRef
  <2>2. e = Put(d, h, Null)
    BY <1>1
  <2>3. /\ Good(e, I)
        /\ ValueIn(e, I, h) = <<>>
        /\ \A g \in DOMAIN d : ValueIn(e, I, g) = ValueIn(d, I, g)
    BY <2>2, TakeNull
  <2>4. ValueIn(d, I, o) = <<>>
    BY <1>1 DEF ValueIn
  <2> HIDE DEF J, e
  <2> QED BY <2>1, <2>3, <2>4 DEF J, e
<1>2. CASE b # Null
  <2>1. /\ DOMAIN e = DOMAIN d \cup {h} /\ e[h] = b
        /\ \A g \in DOMAIN d : e[g] = d[g]
        /\ DOMAIN e \subseteq Handle
    BY DEF Put, Good, Typed
  <2>2. /\ b \in DOMAIN I /\ I[b] \in Impl /\ I[b].home = Home[o]
        /\ I[b].reference_count = Cardinality(HoldersIn(d, b))
    BY <1>2 DEF Good, Typed, Counted, Housed
  <2>3. /\ \A c : c # b => HoldersIn(e, c) = HoldersIn(d, c)
        /\ HoldersIn(e, b) = HoldersIn(d, b) \cup {h} /\ h \notin HoldersIn(d, b)
    BY <2>1 DEF HoldersIn
  <2>4. IsFiniteSet(HoldersIn(d, b)) /\ Cardinality(HoldersIn(d, b)) \in Nat
    BY HoldersFinite DEF Good, Typed
  <2>5. Cardinality(HoldersIn(e, b)) = Cardinality(HoldersIn(d, b)) + 1
    BY <2>3, <2>4, FS_AddElement
  <2>6. Cardinality(HoldersIn(e, b)) \in Nat /\ Cardinality(HoldersIn(e, b)) < RefLimit
    BY <2>1, HoldersFinite
  <2>7. Cardinality(HoldersIn(e, b)) \in 0 .. RefLimit - 1
    BY <2>6, SharedCowAssumption
  <2>8. J = [I EXCEPT ![b].reference_count = Cardinality(HoldersIn(e, b))]
    <3>1. (I[b].reference_count + 1) % RefLimit = Cardinality(HoldersIn(e, b))
      BY <2>2, <2>5, <2>7, Modulo
    <3> QED BY <1>2, <3>1 DEF IncRef
  <2>9. /\ DOMAIN J = DOMAIN I
        /\ \A c \in DOMAIN I : c # b => J[c] = I[c]
        /\ J[b] \in Impl /\ J[b].val = I[b].val /\ J[b].home = I[b].home
        /\ J[b].reference_count = Cardinality(HoldersIn(e, b))
    <3> HIDE DEF J, e, b
    <3> QED BY <2>2, <2>7, <2>8 DEF Impl
  <2> HIDE DEF J, e
  <2>10. Counted(e, J)
    BY <2>1, <2>3, <2>9 DEF Good, Counted
  <2>11. Typed(e, J)
    BY <2>1, <2>2, <2>9 DEF Good, Typed
  <2>12. Housed(e, J)
    BY <2>1, <2>2, <2>9 DEF Good, Housed, Typed
  <2>13. \A g \in DOMAIN d : ValueIn(e, J, g) = ValueIn(d, I, g)
    BY <2>1, <2>9 DEF ValueIn, Good, Typed
  <2> QED BY <1>2, <2>1, <2>9, <2>10, <2>11, <2>12, <2>13 DEF Good, ValueIn, e, J
<1> QED BY <1>1, <1>2

(* A new handle that takes over the block of another one. *)
LEMMA TakeOver ==
  ASSUME NEW d, NEW I, Good(d, I), NEW h \in Handle \ DOMAIN d,
         NEW o \in DOMAIN d, Home[h] = Home[o]
  PROVE  LET e == Passed(d, h, o)
         IN  /\ Good(e, I)
             /\ ValueIn(e, I, h) = ValueIn(d, I, o)
             /\ ValueIn(e, I, o) = <<>>
             /\ \A g \in DOMAIN d \ {o} : ValueIn(e, I, g) = ValueIn(d, I, g)
<1> DEFINE b == d[o]
           e == Passed(d, h, o)
<1>1. /\ DOMAIN e = DOMAIN d \cup {h} /\ e[h] = b /\ e[o] = Null /\ h # o
      /\ \A g \in DOMAIN d \ {o} : e[g] = d[g]
      /\ DOMAIN d \subseteq Handle
  BY DEF Passed, Put, Good, Typed
<1>2. \A c \in DOMAIN I : c # Null
  BY SharedCowAssumption DEF Good, Typed
<1>3. b # Null => I[b].home = Home[h]
  BY DEF Good, Housed
<1> HIDE DEF e
<1>4. /\ \A c : c # b /\ c # Null => HoldersIn(e, c) = HoldersIn(d, c)
      /\ b # Null => HoldersIn(e, b) = (HoldersIn(d, b) \ {o}) \cup {h}
      /\ h \notin HoldersIn(d, b) /\ o \in HoldersIn(d, b)
  BY <1>1 DEF HoldersIn
<1>5. b # Null => Cardinality(HoldersIn(e, b)) = Cardinality(HoldersIn(d, b))
  <2>1. IsFiniteSet(HoldersIn(d, b)) /\ Cardinality(HoldersIn(d, b)) \in Nat
    BY <1>1, HoldersFinite
  <2>2. /\ IsFiniteSet(HoldersIn(d, b) \ {o})
        /\ Cardinality(HoldersIn(d, b) \ {o}) = Cardinality(HoldersIn(d, b)) - 1
    BY <1>4, <2>1, FS_RemoveElement
  <2>3. Cardinality((HoldersIn(d, b) \ {o}) \cup {h}) = Cardinality(HoldersIn(d, b) \ {o}) + 1
    BY <1>4, <2>2, FS_AddElement
  <2> QED BY <1>4, <2>1, <2>2, <2>3
<1>6. Counted(e, I)
  BY <1>2, <1>4, <1>5 DEF Good, Counted
<1>7. Typed(e, I)
  BY <1>1 DEF Good, Typed
<1>8. Housed(e, I)
  BY <1>1, <1>3 DEF Good, Housed
<1> QED BY <1>1, <1>6, <1>7, <1>8 DEF Good, ValueIn, e

(* The only holder of a block writes to it. *)
LEMMA WriteOwn ==
  ASSUME NEW d, NEW I, Good(d, I), NEW h \in DOMAIN d, d[h] # Null,
         I[d[h]].reference_count = 1, NEW v \in Contents, v # <<>>
  PROVE  LET J == Written(I, d[h], v)
         IN  /\ Good(d, J)
             /\ ValueIn(d, J, h) = v
             /\ \A g \in DOMAIN d \ {h} : ValueIn(d, J, g) = ValueIn(d, I, g)
<1> DEFINE b == d[h]
           J == Written(I, b, v)
<1>1. /\ b \in DOMAIN I /\ I[b] \in Impl
      /\ Cardinality(HoldersIn(d, b)) = 1 /\ h \in HoldersIn(d, b)
  BY DEF Good, Typed, Counted, HoldersIn
<1>2. HoldersIn(d, b) = {h}
  <2>1. IsFiniteSet(HoldersIn(d, b))
    BY HoldersFinite DEF Good, Typed
  <2> QED BY <1>1, <2>1, FS_Singleton
<1>3. \A g \in DOMAIN d \ {h} : d[g] # b
  BY <1>2 DEF HoldersIn
<1>4. /\ DOMAIN J = DOMAIN I
      /\ \A c \in DOMAIN I : c # b => J[c] = I[c]
      /\ J[b] \in Impl /\ J[b].val = v /\ J[b].home = I[b].home
      /\ J[b].reference_count = I[b].reference_count
  BY <1>1 DEF Impl, Written
<1> HIDE DEF J
<1>5. Good(d, J)
  BY <1>1, <1>4 DEF Good, Counted, Typed, Housed
<1> QED BY <1>3, <1>4, <1>5 DEF ValueIn, Good, Typed, J-----------------------------------------------------------------------------
(* The operations, on the variables. *)

Inv == Good(data, impl)

LEMMA ValuesIn ==
  /\ DOMAIN Values = DOMAIN data
  /\ \A g \in DOMAIN data : Values[g] = ValueIn(data, impl, g)
BY DEF Values, Val, ValueIn

LEMMA ValuesTyped ==
  ASSUME Inv
  PROVE  \A g \in DOMAIN data : Values[g] \in Contents
BY ValuesIn, SharedCowAssumption DEF Inv, Good, Typed, ValueIn, Impl

(* h lets go of what it holds, if it holds anything. *)
LEMMA LetGoHeld ==
  ASSUME Inv, NEW h \in Handle
  PROVE  LET d == Less(data, h)
             J == DecRef(impl, Held(h))
         IN  /\ Good(d, J) /\ DOMAIN d = DOMAIN data \ {h}
             /\ \A g \in DOMAIN d : d[g] = data[g]
             /\ \A g \in DOMAIN d : ValueIn(d, J, g) = ValueIn(data, impl, g)
             /\ DOMAIN J \subseteq DOMAIN impl
             /\ \A b \in DOMAIN J : b # Held(h) => J[b] = impl[b]
<1>1. CASE h \in DOMAIN data
  <2>1. /\ Good(Less(data, h), DecRef(impl, data[h]))
        /\ \A g \in DOMAIN data \ {h} :
             ValueIn(Less(data, h), DecRef(impl, data[h]), g) = ValueIn(data, impl, g)
        /\ DOMAIN DecRef(impl, data[h]) \subseteq DOMAIN impl
        /\ \A b \in DOMAIN DecRef(impl, data[h]) :
             b # data[h] => DecRef(impl, data[h])[b] = impl[b]
    BY <1>1, LetGo DEF Inv
  <2>2. Held(h) = data[h]
    BY <1>1 DEF Held
  <2>3. /\ DOMAIN Less(data, h) = DOMAIN data \ {h}
        /\ \A g \in DOMAIN data \ {h} : Less(data, h)[g] = data[g]
    BY DEF Less
  <2> QED BY <2>1, <2>2, <2>3
<1>2. CASE h \notin DOMAIN data
  <2>1. DecRef(impl, Held(h)) = impl
    BY <1>2 DEF Held, DecRef
  <2>2. /\ DOMAIN Less(data, h) = DOMAIN data
        /\ \A g \in DOMAIN data : Less(data, h)[g] = data[g]
    BY <1>2 DEF Less
  <2>3. \A b : HoldersIn(Less(data, h), b) = HoldersIn(data, b)
    BY <2>2 DEF HoldersIn
  <2>4. Good(Less(data, h), impl)
    BY <2>2, <2>3 DEF Inv, Good, Counted, Typed, Housed
  <2>5. DOMAIN data \ {h} = DOMAIN data
    BY <1>2
  <2>6. \A g \in DOMAIN data : ValueIn(Less(data, h), impl, g) = ValueIn(data, impl, g)
    BY <2>2 DEF ValueIn
  <2> QED BY <2>1, <2>2, <2>4, <2>5, <2>6
<1> QED BY <1>1, <1>2

LEMMA PutAgain ==
  ASSUME NEW d, NEW h, NEW x
  PROVE  Put(d, h, x) = Put(Less(d, h), h, x)
BY DEF Put, Less

LEMMA AllocStep ==
  ASSUME Inv, NEW h \in Handle, NEW v \in Contents, Alloc(h, v)
  PROVE  Inv' /\ Values' = Put(Values, h, v)
<1> DEFINE d == Less(data, h)
           J == DecRef(impl, Held(h))
<1>1. /\ Good(d, J) /\ DOMAIN d = DOMAIN data \ {h}
      /\ \A g \in DOMAIN d : ValueIn(d, J, g) = ValueIn(data, impl, g)
      /\ DOMAIN J \subseteq DOMAIN impl
      /\ \A b \in DOMAIN J : b # Held(h) => J[b] = impl[b]
  BY LetGoHeld
<1>2. /\ Inv' /\ DOMAIN data' = DOMAIN data \cup {h}
      /\ ValueIn(data', impl', h) = v
      /\ \A g \in DOMAIN data \ {h} : ValueIn(data', impl', g) = ValueIn(data, impl, g)
  <2>1. CASE v = <<>>
    <3>1. data' = Put(d, h, Null) /\ impl' = J
      BY <2>1, PutAgain DEF Alloc
    <3>2. h \in Handle \ DOMAIN d
      BY <1>1
    <3>3. LET e == Put(d, h, Null)
          IN  /\ Good(e, J)
              /\ ValueIn(e, J, h) = <<>>
              /\ \A g \in DOMAIN d : ValueIn(e, J, g) = ValueIn(d, J, g)
      <4>1. Good(d, J)
        BY <1>1
      <4> QED BY <4>1, <3>2, TakeNull
    <3>4. DOMAIN data' = DOMAIN data \cup {h}
      BY <1>1, <3>1 DEF Put
    <3> QED BY <1>1, <2>1, <3>1, <3>3, <3>4 DEF Inv
  <2>2. CASE v # <<>>
    <3> DEFINE r == [reference_count |-> 1, val |-> v, home |-> Home[h]]
    <3>1. PICK b \in Block \ DOMAIN impl :
            /\ data' = Put(data, h, b)
            /\ impl' = DecRef(Put(impl, b, r), Held(h))
      BY <2>2 DEF Alloc
    <3>2. data' = Put(d, h, b)
      BY <3>1, PutAgain
    <3>3. impl' = Put(J, b, r)
      <4>1. CASE Held(h) = Null
        BY <3>1, <4>1 DEF DecRef
      <4>2. CASE Held(h) # Null
        <5>1. Held(h) \in DOMAIN impl /\ Held(h) # b
          BY <3>1, <4>2 DEF Held, Inv, Good, Typed
        <5>2. /\ DOMAIN Put(impl, b, r) = DOMAIN impl \cup {b}
              /\ Put(impl, b, r)[b] = r
              /\ \A c \in DOMAIN impl : Put(impl, b, r)[c] = impl[c]
          BY <3>1 DEF Put
        <5> HIDE DEF r
        <5>3. CASE impl[Held(h)].reference_count = 1
          <6>1. impl' = [c \in (DOMAIN impl \cup {b}) \ {Held(h)} |-> Put(impl, b, r)[c]]
            BY <3>1, <4>2, <5>1, <5>2, <5>3 DEF DecRef
          <6>2. J = [c \in DOMAIN impl \ {Held(h)} |-> impl[c]]
            BY <4>2, <5>3 DEF DecRef
          <6> QED BY <5>1, <5>2, <6>1, <6>2 DEF Put
        <5>4. CASE impl[Held(h)].reference_count # 1
          <6>1. impl' = [Put(impl, b, r) EXCEPT
                           ![Held(h)].reference_count = (@ - 1) % RefLimit]
            BY <3>1, <4>2, <5>1, <5>2, <5>4 DEF DecRef
          <6>2. J = [impl EXCEPT ![Held(h)].reference_count = (@ - 1) % RefLimit]
            BY <4>2, <5>4 DEF DecRef
          <6> QED BY <5>1, <5>2, <6>1, <6>2 DEF Put
        <5> QED BY <5>3, <5>4
      <4> QED BY <4>1, <4>2
    <3>4. h \in Handle \ DOMAIN d /\ b \in Block \ DOMAIN J
      BY <1>1, <3>1
    <3>5. LET e == Put(d, h, b)
              K == Put(J, b, [reference_count |-> 1, val |-> v, home |-> Home[h]])
          IN  /\ Good(e, K)
              /\ ValueIn(e, K, h) = v
              /\ \A g \in DOMAIN d : ValueIn(e, K, g) = ValueIn(d, J, g)
      <4>1. Good(d, J)
        BY <1>1
      <4> QED BY <4>1, <2>2, <3>4, TakeNew
    <3>6. DOMAIN data' = DOMAIN data \cup {h}
      BY <1>1, <3>2 DEF Put
    <3> QED BY <1>1, <3>2, <3>3, <3>5, <3>6 DEF Inv
  <2> QED BY <2>1, <2>2
<1>3. Values' = [g \in DOMAIN data \cup {h} |-> IF g = h THEN v ELSE Values[g]]
  <2>1. Values' = [g \in DOMAIN data' |-> ValueIn(data', impl', g)]
    BY DEF Values, Val, ValueIn
  <2> HIDE DEF d, J
  <2> QED BY <1>2, <2>1, ValuesIn
<1> QED BY <1>2, <1>3, ValuesIn DEF Put
(* The values after a step, handle by handle. *)
LEMMA NewValues ==
  /\ DOMAIN Values' = DOMAIN data'
  /\ \A g \in DOMAIN data' : Values'[g] = ValueIn(data', impl', g)
  /\ Values' = [g \in DOMAIN data' |-> ValueIn(data', impl', g)]
BY DEF Values, Val, ValueIn

LEMMA ShareStep ==
  ASSUME Inv, NEW h \in Handle, NEW o \in DOMAIN data, h # o, SameHome(h, o), Share(h, o)
  PROVE  Inv' /\ Values' = Put(Values, h, Values[o])
<1> DEFINE d == Less(data, h)
           J == DecRef(impl, Held(h))
<1>1. /\ Good(d, J) /\ DOMAIN d = DOMAIN data \ {h}
      /\ \A g \in DOMAIN d : d[g] = data[g]
      /\ \A g \in DOMAIN d : ValueIn(d, J, g) = ValueIn(data, impl, g)
  BY LetGoHeld
<1>2. h \in Handle \ DOMAIN d /\ o \in DOMAIN d /\ Home[h] = Home[o]
  BY <1>1 DEF SameHome
<1>3. data' = Put(d, h, d[o]) /\ impl' = IncRef(J, d[o])
  BY <1>1, <1>2, PutAgain DEF Share
<1>4. LET e == Put(d, h, d[o])
          K == IncRef(J, d[o])
      IN  /\ Good(e, K)
          /\ ValueIn(e, K, h) = ValueIn(d, J, o)
          /\ \A g \in DOMAIN d : ValueIn(e, K, g) = ValueIn(d, J, g)
  BY <1>1, <1>2, TakePart
<1>5. DOMAIN data' = DOMAIN data \cup {h}
  BY DEF Share, Put
<1>6. /\ ValueIn(data', impl', h) = Values[o]
      /\ \A g \in DOMAIN data \ {h} : ValueIn(data', impl', g) = Values[g]
  BY <1>1, <1>2, <1>3, <1>4, ValuesIn
<1>7. Values' = Put(Values, h, Values[o])
  <2> HIDE DEF d, J
  <2> QED BY <1>5, <1>6, NewValues, ValuesIn DEF Put
<1> QED BY <1>3, <1>4, <1>7 DEF Inv

LEMMA StealStep ==
  ASSUME Inv, NEW h \in Handle, NEW o \in DOMAIN data, h # o, SameHome(h, o), Steal(h, o)
  PROVE  Inv' /\ Values' = [Put(Values, h, Values[o]) EXCEPT ![o] = <<>>]
<1> DEFINE d == Less(data, h)
           J == DecRef(impl, Held(h))
<1>1. /\ Good(d, J) /\ DOMAIN d = DOMAIN data \ {h}
      /\ \A g \in DOMAIN d : d[g] = data[g]
      /\ \A g \in DOMAIN d : ValueIn(d, J, g) = ValueIn(data, impl, g)
  BY LetGoHeld
<1>2. h \in Handle \ DOMAIN d /\ o \in DOMAIN d /\ Home[h] = Home[o]
  BY <1>1 DEF SameHome
<1>3. data' = Passed(d, h, o) /\ impl' = J
  <2>1. Put(data, h, data[o]) = Put(d, h, d[o])
    BY <1>1, <1>2, PutAgain
  <2> QED BY <2>1 DEF Steal, Passed
<1>4. LET e == Passed(d, h, o)
      IN  /\ Good(e, J)
          /\ ValueIn(e, J, h) = ValueIn(d, J, o)
          /\ ValueIn(e, J, o) = <<>>
          /\ \A g \in DOMAIN d \ {o} : ValueIn(e, J, g) = ValueIn(d, J, g)
  BY <1>1, <1>2, TakeOver
<1>5. DOMAIN data' = DOMAIN data \cup {h}
  BY DEF Steal, Put
<1>6. /\ ValueIn(data', impl', h) = Values[o]
      /\ ValueIn(data', impl', o) = <<>>
      /\ \A g \in DOMAIN data \ {h, o} : ValueIn(data', impl', g) = Values[g]
  BY <1>1, <1>2, <1>3, <1>4, ValuesIn
<1>7. Values' = [Put(Values, h, Values[o]) EXCEPT ![o] = <<>>]
  <2> HIDE DEF d, J
  <2> QED BY <1>5, <1>6, NewValues, ValuesIn DEF Put
<1> QED BY <1>3, <1>4, <1>7 DEF Inv

LEMMA DestroyStep ==
  ASSUME Inv, NEW h \in Handle, Destroy(h)
  PROVE  Inv' /\ Values' = [g \in DOMAIN Values \ {h} |-> Values[g]]
<1>1. h \in DOMAIN data /\ data' = Less(data, h) /\ impl' = DecRef(impl, Held(h))
  BY DEF Destroy, Less, Held
<1>2. /\ Good(data', impl') /\ DOMAIN data' = DOMAIN data \ {h}
      /\ \A g \in DOMAIN data' : ValueIn(data', impl', g) = ValueIn(data, impl, g)
  BY <1>1, LetGoHeld
<1>3. Values' = [g \in DOMAIN Values \ {h} |-> Values[g]]
  BY <1>2, NewValues, ValuesIn
<1> QED BY <1>2, <1>3 DEF Inv

LEMMA ClearStep ==
  ASSUME Inv, NEW h \in Handle, Clear(h)
  PROVE  Inv' /\ Values' = Put(Values, h, <<>>)
<1>1. Alloc(h, <<>>)
  BY DEF Clear, Alloc, Held, Put
<1> QED BY <1>1, AllocStep, SharedCowAssumption

(* Writing in place reaches no other handle. *)
LEMMA InPlaceStep ==
  ASSUME Inv, NEW h \in DOMAIN data, NEW v \in Contents, InPlace(h, v),
         impl' = [impl EXCEPT ![data[h]].val = v], UNCHANGED data
  PROVE  Inv' /\ Values' = Put(Values, h, v)
<1>1. /\ data[h] # Null /\ impl[data[h]].reference_count = 1
      /\ Len(impl[data[h]].val) = Len(v)
  BY DEF InPlace, Held
<1>2. v # <<>>
  <2>1. data[h] \in DOMAIN impl
    BY <1>1 DEF Inv, Good, Typed
  <2>2. impl[data[h]].val \in Contents /\ impl[data[h]].val # <<>>
    BY <2>1 DEF Inv, Good, Typed, Impl
  <2>3. Len(<<>>) = 0
    OBVIOUS
  <2> QED BY <1>1, <2>2, <2>3, SharedCowAssumption
<1>3. LET J == Written(impl, data[h], v)
      IN  /\ Good(data, J)
          /\ ValueIn(data, J, h) = v
          /\ \A g \in DOMAIN data \ {h} : ValueIn(data, J, g) = ValueIn(data, impl, g)
  BY <1>1, <1>2, WriteOwn DEF Inv
<1>4. /\ Good(data', impl') /\ DOMAIN data' = DOMAIN data
      /\ ValueIn(data', impl', h) = v
      /\ \A g \in DOMAIN data \ {h} : ValueIn(data', impl', g) = ValueIn(data, impl, g)
  BY <1>3 DEF Written
<1>5. Values' = Put(Values, h, v)
  BY <1>4, NewValues, ValuesIn DEF Put
<1> QED BY <1>4, <1>5 DEF Inv

LEMMA WriteStep ==
  ASSUME Inv, NEW h \in Handle, h \in DOMAIN data, NEW v \in Contents, Write(h, v)
  PROVE  Inv' /\ Values' = Put(Values, h, v)
BY AllocStep, InPlaceStep DEF Write
-----------------------------------------------------------------------------
(* The operations as those of ValueHandles. *)

ValueStep == V!Next \/ UNCHANGED Values

LEMMA SetValue ==
  ASSUME NEW h \in Handle, NEW v \in Contents, Values' = Put(Values, h, v)
  PROVE  ValueStep
BY DEF ValueStep, V!Next, V!Set, V!Assigned, Put

LEMMA CopyValue ==
  ASSUME NEW h \in Handle, NEW o \in DOMAIN Values, o \in Handle,
         Values' = Put(Values, h, Values[o])
  PROVE  ValueStep
<1>1. V!Copy(h, o)
  BY DEF V!Copy, V!Assigned, Put
<1> QED BY <1>1 DEF ValueStep, V!Next

LEMMA MoveValue ==
  ASSUME NEW h \in Handle, NEW o \in DOMAIN Values, o \in Handle, h # o,
         Values' = [Put(Values, h, Values[o]) EXCEPT ![o] = <<>>]
  PROVE  ValueStep
<1>1. V!Move(h, o)
  BY DEF V!Move, V!Assigned, Put
<1> QED BY <1>1 DEF ValueStep, V!Next

LEMMA TransferStep ==
  ASSUME Inv, NEW h \in Handle, NEW o \in DOMAIN data, h # o,
         \/ SameHome(h, o) /\ (Share(h, o) \/ Steal(h, o))
         \/ Alloc(h, Val(o))
         \/ h \in DOMAIN data /\ Write(h, Val(o))
  PROVE  Inv' /\ ValueStep
<1>1. /\ o \in Handle /\ o \in DOMAIN Values
      /\ Values[o] = Val(o) /\ Val(o) \in Contents
  BY ValuesIn, ValuesTyped DEF Inv, Good, Typed, Values
<1>2. CASE SameHome(h, o) /\ Share(h, o)
  BY <1>1, <1>2, ShareStep, CopyValue
<1>3. CASE SameHome(h, o) /\ Steal(h, o)
  BY <1>1, <1>3, StealStep, MoveValue
<1>4. CASE Alloc(h, Val(o))
  BY <1>1, <1>4, AllocStep, SetValue
<1>5. CASE h \in DOMAIN data /\ Write(h, Val(o))
  BY <1>1, <1>5, WriteStep, SetValue
<1> QED BY <1>2, <1>3, <1>4, <1>5

(* What vectors and strings have in common. *)
LEMMA CommonStep ==
  ASSUME Inv, NEW h \in Handle,
         \/ \E v \in Contents : Construct(h, v)
         \/ \E o \in DOMAIN data : CopyConstruct(h, o)
         \/ \E o \in DOMAIN data : MoveConstruct(h, o)
         \/ Destroy(h)
         \/ \E o \in DOMAIN data : CopyAssign(h, o)
         \/ \E o \in DOMAIN data : MoveAssign(h, o)
         \/ \E v \in Contents : h \in DOMAIN data /\ Write(h, v)
  PROVE  Inv' /\ ValueStep
<1>1. ASSUME NEW v \in Contents, Construct(h, v)
      PROVE  Inv' /\ ValueStep
  BY <1>1, AllocStep, SetValue DEF Construct
<1>2. ASSUME NEW o \in DOMAIN data, CopyConstruct(h, o)
      PROVE  Inv' /\ ValueStep
  BY <1>2, TransferStep DEF CopyConstruct, New
<1>3. ASSUME NEW o \in DOMAIN data, MoveConstruct(h, o)
      PROVE  Inv' /\ ValueStep
  BY <1>3, TransferStep DEF MoveConstruct, New
<1>4. CASE Destroy(h)
  <2>1. Inv' /\ V!Destroy(h)
    BY <1>4, DestroyStep DEF V!Destroy
  <2> QED BY <2>1 DEF ValueStep, V!Next
<1>5. ASSUME NEW o \in DOMAIN data, CopyAssign(h, o)
      PROVE  Inv' /\ ValueStep
  BY <1>5, TransferStep DEF CopyAssign
<1>6. ASSUME NEW o \in DOMAIN data, MoveAssign(h, o)
      PROVE  Inv' /\ ValueStep
  BY <1>6, TransferStep DEF MoveAssign
<1>7. ASSUME NEW v \in Contents, h \in DOMAIN data, Write(h, v)
      PROVE  Inv' /\ ValueStep
  BY <1>7, WriteStep, SetValue
<1> QED BY <1>1, <1>2, <1>3, <1>4, <1>5, <1>6, <1>7

LEMMA CowStep ==
  ASSUME Inv, [CowNext]_<<vars, class>>
  PROVE  Inv' /\ ValueStep
<1>1. CASE UNCHANGED <<vars, class>>
  BY <1>1 DEF vars, Inv, ValueStep, Values, Val
<1>2. CASE Next
  <2>1. PICK h \in Handle :
          \/ \E v \in Contents : Construct(h, v)
          \/ \E o \in DOMAIN data : CopyConstruct(h, o)
          \/ \E o \in DOMAIN data : MoveConstruct(h, o)
          \/ Destroy(h)
          \/ \E o \in DOMAIN data : CopyAssign(h, o)
          \/ \E o \in DOMAIN data : MoveAssign(h, o)
          \/ \E v \in Contents : Assign(h, v)
          \/ Clear(h)
          \/ \E v \in Contents : EmplaceBack(h, v)
    BY <1>2 DEF Next
  <2>2. CASE Clear(h)
    BY <2>2, ClearStep, SetValue, SharedCowAssumption
  <2> QED BY <2>1, <2>2, CommonStep DEF Assign, EmplaceBack
<1>3. CASE StringNext
  <2>1. PICK h \in Handle :
          \/ \E v \in Contents : Construct(h, v)
          \/ \E o \in DOMAIN data : CopyConstruct(h, o)
          \/ \E o \in DOMAIN data : MoveConstruct(h, o)
          \/ Destroy(h)
          \/ \E o \in DOMAIN data : CopyAssign(h, o)
          \/ \E o \in DOMAIN data : MoveAssign(h, o)
          \/ \E v \in Contents : StringAssign(h, v)
          \/ \E v \in Contents : ResizeAndFill(h, v)
          \/ \E v \in Contents : MutableData(h, v)
    BY <1>3 DEF StringNext
  <2>2. ASSUME NEW v \in Contents, MutableData(h, v)
        PROVE  Inv' /\ ValueStep
    BY <2>2, InPlaceStep, SetValue DEF MutableData
  <2> QED BY <2>1, <2>2, CommonStep DEF StringAssign, ResizeAndFill
<1> QED BY <1>1, <1>2, <1>3 DEF CowNext

LEMMA CowBegins == CowInit => Inv /\ V!Init
<1>1. Init => Good(data, impl)
  BY DEF Init, Good, Counted, Typed, Housed
<1>2. Init => Values = [h \in {} |-> <<>>]
  BY DEF Init, Values
<1> QED BY <1>1, <1>2 DEF CowInit, Inv, V!Init

(* For every set of handles, blocks and places: a handle points to nothing *)
(* or to a block that is allocated, and a block is never empty.            *)
THEOREM CowTypeCorrect == CowSpec => []TypeOK
<1>1. Inv => TypeOK
  BY GoodIsInvariant DEF Inv
<1> QED BY <1>1, CowBegins, CowStep, PTL DEF CowSpec

(* reference_count is the number of handles that hold the block: none is   *)
(* freed that a handle still points to, and none leaks.                    *)
THEOREM CowCountsExact == CowSpec => []CountsExact
<1>1. Inv => CountsExact
  BY GoodIsInvariant DEF Inv
<1> QED BY <1>1, CowBegins, CowStep, PTL DEF CowSpec

(* A handle frees its block with the allocator it came from.               *)
THEOREM CowHomesMatch == CowSpec => []HomesMatch
<1>1. Inv => HomesMatch
  BY GoodIsInvariant DEF Inv
<1> QED BY <1>1, CowBegins, CowStep, PTL DEF CowSpec

(* shared_cow_vector and shared_cow_string implement handles with contents *)
(* of their own: that they share and copy on write is not observable.      *)
THEOREM CowImplementsValues == CowSpec => ImplementsValues
<1>1. Inv /\ [CowNext]_<<vars, class>> => Inv' /\ [V!Next]_Values
  BY CowStep DEF ValueStep
<1> QED BY <1>1, CowBegins, PTL DEF CowSpec, ImplementsValues, V!Spec
==============================================================================
