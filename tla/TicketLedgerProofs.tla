--------------------------- MODULE TicketLedgerProofs ---------------------------
(***************************************************************************)
(* Proofs about the four handlers and what users are shown of their        *)
(* tables, for any number of wallets, logs, losses and rewinds.            *)
(*                                                                         *)
(* The invariant comes in layers, each inductive with those before it:     *)
(*                                                                         *)
(*   Inv         the types, which rows are there, and that the rows a job  *)
(*               found awaits ago are still there (HandInv)                *)
(*   ChainInv    what the contracts check before they emit a log           *)
(*   FreshInv    the log in hand has not been applied                      *)
(*   ExactInv    listings show what the recorded purchases leave of them   *)
(*   RecordInv, CancelledReadInv, SoldReadInv                              *)
(*               what is recorded, and what jobs have read, stays true     *)
(*   SignInv     nothing in the tables or in hand is negative              *)
(*   StatusInv   closed is only what was cancelled, and only a purchase    *)
(*               can have opened it again                                  *)
(*   ClosedInv, RefundInv                                                  *)
(*               what a cancellation leaves, short of two causes of drift  *)
(*   TallyInv    a wallet's rows add up to the logs that were applied      *)
(*   ConservedInv  rows and offers add up to the first sales               *)
(*                                                                         *)
(* Each but the first is used where a commit writes what was read before:  *)
(* it says that the reading is still right, or which cause is to blame.    *)
(*                                                                         *)
(* Sums come first: what MapThenSumSet of the community modules obeys.  It *)
(* is defined by a recursive function that takes out one chosen element    *)
(* after the other, so that even its order matters at first.               *)
(***************************************************************************)
EXTENDS TicketQueries, FiniteSetTheorems, SequenceTheorems, WellFoundedInduction,
        TLAPS

-------------------------------------------------------------------------------
(* Sums over finite sets. *)

\* The sum of f over S, as the models' sums are built.
Sum(f, S) == MapThenSumSet(LAMBDA x : f[x], S)

\* The element that MapThenSumSet takes out of s.
First(s) == CHOOSE x \in s : TRUE

\* h adds up f over the subsets of S, one element after the other.
Adds(h, f, S) ==
  \A s \in SUBSET S :
    h[s] = IF s = {} THEN 0 ELSE f[First(s)] + h[s \ {First(s)}]

\* A function that does, and whose values are numbers.
IsSum(h, f, S) == h \in [SUBSET S -> Int] /\ Adds(h, f, S)

\* Among subsets of a finite set some have no smaller one beside them.  It
\* stands in for induction over finite sets: the library's theorems on that take
\* an operator as a parameter.
LEMMA MinimalSubset ==
  ASSUME NEW S, IsFiniteSet(S), NEW B \in SUBSET SUBSET S, B # {}
  PROVE  \E s \in B : \A x \in s : s \ {x} \notin B
<1> DEFINE N == {Cardinality(s) : s \in B}
<1>1. \A s \in B : IsFiniteSet(s) /\ Cardinality(s) \in Nat
  BY FS_Subset, FS_CardinalityType
<1>2. N \subseteq Nat /\ N # {}
  BY <1>1
<1>3. PICK n \in N : \A m \in N : ~ (<<m, n>> \in OpToRel(<, Nat))
  <2> HIDE DEF N
  <2> QED BY <1>2, WFMin, NatLessThanWellFounded
<1>4. PICK s \in B : Cardinality(s) = n
  BY <1>3
<1>5. ASSUME NEW x \in s, s \ {x} \in B
      PROVE  FALSE
  <2>1. Cardinality(s \ {x}) = Cardinality(s) - 1
    BY <1>1, FS_RemoveElement
  <2>2. Cardinality(s \ {x}) \in N
    BY <1>5
  <2>3. <<n - 1, n>> \in OpToRel(<, Nat)
    BY <1>1, <1>4, <1>5, <2>1 DEF OpToRel
  <2> QED BY <1>3, <1>4, <2>1, <2>2, <2>3
<1> QED BY <1>5

\* First is one of the elements.
LEMMA FirstIn == ASSUME NEW s, s # {} PROVE First(s) \in s
BY DEF First

-------------------------------------------------------------------------------
(* Sums exist and are unique. *)

\* Two functions that add up f agree where both do.
LEMMA SumUnique ==
  ASSUME NEW f, NEW S, IsFiniteSet(S),
         NEW g, Adds(g, f, S), NEW T \in SUBSET S, NEW h, Adds(h, f, T)
  PROVE  g[T] = h[T]
<1> DEFINE B == {t \in SUBSET T : g[t] # h[t]}
<1> SUFFICES B = {}
  OBVIOUS
<1>1. SUFFICES ASSUME B # {}
               PROVE  FALSE
  OBVIOUS
<1>2. IsFiniteSet(T)
  BY FS_Subset
<1>3. PICK t \in B : \A x \in t : t \ {x} \notin B
  BY <1>1, <1>2, MinimalSubset, B \in SUBSET SUBSET T
<1>4. t # {}
  BY <1>3 DEF Adds
<1>5. First(t) \in t /\ t \ {First(t)} \in SUBSET T
  BY <1>4, FirstIn, <1>3
<1>6. g[t \ {First(t)}] = h[t \ {First(t)}]
  BY <1>5, <1>3
<1>7. g[t] = f[First(t)] + g[t \ {First(t)}]
  BY <1>3, <1>4 DEF Adds
<1>8. h[t] = f[First(t)] + h[t \ {First(t)}]
  BY <1>3, <1>4 DEF Adds
<1> QED
  BY <1>6, <1>7, <1>8, <1>3

\* What adds up over S adds up over a part of it.
LEMMA SumRestricted ==
  ASSUME NEW f, NEW S, NEW g, IsSum(g, f, S), NEW T \in SUBSET S
  PROVE  IsSum([t \in SUBSET T |-> g[t]], f, T)
<1> DEFINE h == [t \in SUBSET T |-> g[t]]
<1>1. h \in [SUBSET T -> Int]
  BY DEF IsSum, Adds
<1>2. ASSUME NEW s \in SUBSET T
      PROVE  h[s] = IF s = {} THEN 0 ELSE f[First(s)] + h[s \ {First(s)}]
  <2>1. h[s] = g[s] /\ h[s \ {First(s)}] = g[s \ {First(s)}]
    OBVIOUS
  <2> QED
    BY <2>1 DEF IsSum, Adds
<1> QED
  BY <1>1, <1>2 DEF IsSum, Adds

\* Numbers can be added up over any finite set.
LEMMA SumExists ==
  ASSUME NEW f, NEW S, IsFiniteSet(S), \A x \in S : f[x] \in Int
  PROVE  \E h : IsSum(h, f, S)
<1> DEFINE B == {s \in SUBSET S : ~ \E h : IsSum(h, f, s)}
<1>1. SUFFICES ASSUME B # {}
               PROVE  FALSE
  OBVIOUS
<1>2. PICK s \in B : \A x \in s : s \ {x} \notin B
  BY <1>1, MinimalSubset, B \in SUBSET SUBSET S
<1> DEFINE C(t) == CHOOSE h : IsSum(h, f, t)
<1>3. ASSUME NEW t \in SUBSET s, t # s
      PROVE  IsSum(C(t), f, t)
  <2>1. PICK x \in s : x \notin t
    BY <1>3
  <2>2. PICK h : IsSum(h, f, s \ {x})
    BY <1>2, <2>1
  <2>3. t \in SUBSET (s \ {x})
    BY <2>1
  <2>4. \E k : IsSum(k, f, t)
    BY <2>2, <2>3, SumRestricted
  <2> QED
    BY <2>4
<1> HIDE DEF C
<1> DEFINE h == [t \in SUBSET s |->
                   IF t # s THEN C(t)[t]
                   ELSE IF s = {} THEN 0
                   ELSE f[First(s)] + C(s \ {First(s)})[s \ {First(s)}]]
<1>4. ASSUME NEW t \in SUBSET s, t # {}
      PROVE  /\ First(t) \in t
             /\ t \ {First(t)} \in SUBSET s
             /\ t \ {First(t)} # s
             /\ h[t \ {First(t)}] = C(t \ {First(t)})[t \ {First(t)}]
  BY <1>4, FirstIn
<1>5. ASSUME NEW t \in SUBSET s, t # s
      PROVE  C(t)[t] \in Int
  BY <1>3, <1>5 DEF IsSum, Adds
<1>6. h \in [SUBSET s -> Int]
  <2>1. ASSUME NEW t \in SUBSET s
        PROVE  h[t] \in Int
    <3>1. CASE t # s
      BY <3>1, <1>5
    <3>2. CASE t = s /\ s = {}
      BY <3>2
    <3>3. CASE t = s /\ s # {}
      <4>1. First(s) \in s /\ s \ {First(s)} # s /\ s \ {First(s)} \in SUBSET s
        BY <3>3, FirstIn
      <4>2. C(s \ {First(s)})[s \ {First(s)}] \in Int
        BY <4>1, <1>5
      <4>3. f[First(s)] \in Int
        BY <4>1, <1>2
      <4>4. h[t] = f[First(s)] + C(s \ {First(s)})[s \ {First(s)}]
        BY <3>3
      <4> HIDE DEF h
      <4> QED
        BY <4>2, <4>3, <4>4
    <3> QED
      BY <3>1, <3>2, <3>3
  <2> QED
    BY <2>1
<1>7. ASSUME NEW t \in SUBSET s
      PROVE  h[t] = IF t = {} THEN 0 ELSE f[First(t)] + h[t \ {First(t)}]
  <2>1. CASE t = s
    BY <2>1, <1>4
  <2>2. CASE t # s /\ t = {}
    <3>1. IsSum(C(t), f, t)
      BY <2>2, <1>3
    <3>2. C(t)[t] = 0
      BY <3>1, <2>2 DEF IsSum, Adds
    <3> QED
      BY <2>2, <3>2
  <2>3. CASE t # s /\ t # {}
    <3> DEFINE u == t \ {First(t)}
    <3>1. u \in SUBSET s /\ u # s /\ u \in SUBSET t
      BY <2>3, <1>4
    <3>2. IsSum(C(t), f, t) /\ IsSum(C(u), f, u)
      BY <2>3, <3>1, <1>3
    <3>3. IsFiniteSet(t)
      BY FS_Subset
    <3>4. C(t)[u] = C(u)[u]
      <4> HIDE DEF u
      <4>1. Adds(C(t), f, t) /\ Adds(C(u), f, u)
        BY <3>2 DEF IsSum
      <4> QED
        BY <3>1, <4>1, <3>3, SumUnique
    <3>5. C(t)[t] = f[First(t)] + C(t)[u]
      BY <3>2, <2>3 DEF IsSum, Adds
    <3>6. h[t] = C(t)[t] /\ h[u] = C(u)[u]
      BY <2>3, <3>1
    <3> QED
      BY <3>4, <3>5, <3>6, <2>3
  <2> QED
    BY <2>1, <2>2, <2>3
<1>8. IsSum(h, f, s)
  <2> HIDE DEF h
  <2> QED BY <1>6, <1>7 DEF IsSum, Adds
<1> QED
  BY <1>8, <1>2

-------------------------------------------------------------------------------
(* What sums obey. *)

\* Whatever adds up f gives the sum: MapThenSumSet chooses such a function.
LEMMA SumIs ==
  ASSUME NEW f, NEW S, IsFiniteSet(S), NEW h, IsSum(h, f, S)
  PROVE  Sum(f, S) = h[S]
<1> DEFINE Body(g) ==
      [s \in SUBSET S |-> IF s = {} THEN 0 ELSE f[First(s)] + g[s \ {First(s)}]]
           c == CHOOSE g : g = Body(g)
<1>1. Sum(f, S) = c[S]
  BY Zenon DEF Sum, MapThenSumSet, MapThenFoldSet, First
<1>2. h = Body(h)
  BY DEF IsSum, Adds
<1>3. \A g : g = Body(g) => Adds(g, f, S)
  BY DEF Adds
<1>4. c = Body(c)
  <2>1. \E g : g = Body(g)
    BY <1>2
  <2> HIDE DEF Body
  <2> QED
    BY <2>1
<1>5. Adds(c, f, S) /\ Adds(h, f, S)
  BY <1>3, <1>4 DEF IsSum
<1>6. c[S] = h[S]
  <2> HIDE DEF c, Body
  <2> QED
    BY <1>5, SumUnique, S \in SUBSET S
<1> QED
  BY <1>1, <1>6

\* And that of every part.
LEMMA SumOfSubset ==
  ASSUME NEW f, NEW S, IsFiniteSet(S), NEW h, IsSum(h, f, S), NEW T \in SUBSET S
  PROVE  Sum(f, T) = h[T]
<1>1. IsSum([t \in SUBSET T |-> h[t]], f, T)
  BY SumRestricted
<1>2. IsFiniteSet(T)
  BY FS_Subset
<1> QED
  BY <1>1, <1>2, SumIs

\* The empty sum.
LEMMA SumEmpty == \A f : Sum(f, {}) = 0
<1> TAKE f
<1>1. IsFiniteSet({})
  BY FS_EmptySet
<1>2. PICK h : IsSum(h, f, {})
  BY <1>1, SumExists
<1> QED
  BY <1>1, <1>2, SumIs DEF IsSum, Adds

\* A sum of integers is an integer.
LEMMA SumInt ==
  ASSUME NEW f, NEW S, IsFiniteSet(S), \A x \in S : f[x] \in Int
  PROVE  Sum(f, S) \in Int
<1>1. PICK h : IsSum(h, f, S)
  BY SumExists
<1> QED
  BY <1>1, SumIs DEF IsSum

\* The element that is taken out first counts once.
LEMMA SumFirst ==
  ASSUME NEW f, NEW S, IsFiniteSet(S), S # {}, \A x \in S : f[x] \in Int
  PROVE  Sum(f, S) = f[First(S)] + Sum(f, S \ {First(S)})
<1>1. PICK h : IsSum(h, f, S)
  BY SumExists
<1>2. Sum(f, S) = h[S] /\ Sum(f, S \ {First(S)}) = h[S \ {First(S)}]
  BY <1>1, SumOfSubset
<1> QED
  BY <1>1, <1>2 DEF IsSum, Adds

\* So does every other: the order does not matter.  In a least set where it
\* would, the first element and the other can be exchanged.
LEMMA SumRemove ==
  ASSUME NEW f, NEW S, IsFiniteSet(S), \A x \in S : f[x] \in Int, NEW z \in S
  PROVE  Sum(f, S) = f[z] + Sum(f, S \ {z})
<1> DEFINE Bad(s) == \E x \in s : Sum(f, s) # f[x] + Sum(f, s \ {x})
           B == {s \in SUBSET S : Bad(s)}
<1>1. SUFFICES ASSUME B # {}
               PROVE  FALSE
  OBVIOUS
<1>2. PICK s \in B : \A x \in s : s \ {x} \notin B
  <2> B \in SUBSET SUBSET S
    OBVIOUS
  <2> HIDE DEF B
  <2> QED
    BY <1>1, MinimalSubset
<1>3. PICK x \in s : Sum(f, s) # f[x] + Sum(f, s \ {x})
  BY <1>2
<1>4. PICK y \in s : y = First(s)
  BY <1>3, FirstIn
<1>5. IsFiniteSet(s) /\ IsFiniteSet(s \ {x}) /\ IsFiniteSet(s \ {y})
  BY <1>2, FS_Subset
<1>6. Sum(f, s) = f[y] + Sum(f, s \ {y})
  BY <1>2, <1>3, <1>4, <1>5, SumFirst
<1>7. x # y
  BY <1>3, <1>6
<1>8. Sum(f, s \ {y}) = f[x] + Sum(f, (s \ {y}) \ {x})
  BY <1>2, <1>7
<1>9. Sum(f, s \ {x}) = f[y] + Sum(f, (s \ {x}) \ {y})
  BY <1>2, <1>7
<1>10. (s \ {y}) \ {x} = (s \ {x}) \ {y}
  OBVIOUS
<1>11. Sum(f, (s \ {x}) \ {y}) \in Int
  <2>1. IsFiniteSet((s \ {x}) \ {y})
    BY <1>5, FS_Subset
  <2> QED
    BY <1>2, <2>1, SumInt
<1>12. f[x] \in Int /\ f[y] \in Int
  BY <1>2
<1>13. Sum(f, s \ {y}) = f[x] + Sum(f, (s \ {x}) \ {y})
  BY <1>8, <1>10
<1>14. Sum(f, s) = f[x] + Sum(f, s \ {x})
  <2> HIDE DEF B
  <2> QED
    BY <1>6, <1>9, <1>11, <1>12, <1>13
<1> QED
  BY <1>3, <1>14

\* One more element adds its value.
LEMMA SumAdd ==
  ASSUME NEW f, NEW S, IsFiniteSet(S), NEW z, z \notin S,
         \A x \in S \cup {z} : f[x] \in Int
  PROVE  Sum(f, S \cup {z}) = f[z] + Sum(f, S)
<1>1. IsFiniteSet(S \cup {z})
  BY FS_AddElement
<1>2. (S \cup {z}) \ {z} = S
  OBVIOUS
<1> QED
  BY <1>1, <1>2, SumRemove

\* Functions that agree on the set have the same sum.
LEMMA SumSame ==
  ASSUME NEW f, NEW g, NEW S, IsFiniteSet(S),
         \A x \in S : f[x] \in Int /\ f[x] = g[x]
  PROVE  Sum(f, S) = Sum(g, S)
<1>1. PICK h : IsSum(h, f, S)
  BY SumExists
<1>2. IsSum(h, g, S)
  <2>1. ASSUME NEW s \in SUBSET S
        PROVE  h[s] = IF s = {} THEN 0 ELSE g[First(s)] + h[s \ {First(s)}]
    <3>1. s # {} => f[First(s)] = g[First(s)]
      BY FirstIn
    <3> QED
      BY <1>1, <3>1 DEF IsSum, Adds
  <2> QED
    BY <1>1, <2>1 DEF IsSum, Adds
<1> QED
  BY <1>1, <1>2, SumIs

\* A function that is nowhere greater has no greater sum.
LEMMA SumLeq ==
  ASSUME NEW f, NEW g, NEW S, IsFiniteSet(S),
         \A x \in S : f[x] \in Int /\ g[x] \in Int /\ f[x] <= g[x]
  PROVE  Sum(f, S) <= Sum(g, S)
<1> DEFINE B == {s \in SUBSET S : ~ (Sum(f, s) <= Sum(g, s))}
<1>1. SUFFICES ASSUME B # {}
               PROVE  FALSE
  OBVIOUS
<1>2. PICK s \in B : \A x \in s : s \ {x} \notin B
  <2> B \in SUBSET SUBSET S
    OBVIOUS
  <2> HIDE DEF B
  <2> QED
    BY <1>1, MinimalSubset
<1>3. s # {}
  BY <1>2, SumEmpty
<1>4. PICK x \in s : TRUE
  BY <1>3
<1>5. IsFiniteSet(s) /\ IsFiniteSet(s \ {x})
  BY <1>2, FS_Subset
<1>6. Sum(f, s) = f[x] + Sum(f, s \ {x})
  BY <1>2, <1>5, SumRemove
<1>7. Sum(g, s) = g[x] + Sum(g, s \ {x})
  BY <1>2, <1>5, SumRemove
<1>8. Sum(f, s \ {x}) <= Sum(g, s \ {x})
  BY <1>2
<1>9. Sum(f, s \ {x}) \in Int /\ Sum(g, s \ {x}) \in Int
  BY <1>2, <1>5, SumInt
<1>10. f[x] \in Int /\ g[x] \in Int /\ f[x] <= g[x] /\ ~ (Sum(f, s) <= Sum(g, s))
  BY <1>2
<1> HIDE DEF B
<1> QED
  BY <1>6, <1>7, <1>8, <1>9, <1>10

\* The sum over a set is that over a part and that over the rest.
LEMMA SumUnion ==
  ASSUME NEW f, NEW S, IsFiniteSet(S), \A x \in S : f[x] \in Int,
         NEW T \in SUBSET S
  PROVE  Sum(f, S) = Sum(f, T) + Sum(f, S \ T)
<1>0. IsFiniteSet(T) /\ IsFiniteSet(S \ T)
  BY FS_Subset
<1>a. ASSUME NEW R \in SUBSET T, Sum(f, S) # Sum(f, R) + Sum(f, S \ R)
      PROVE  \E Q \in SUBSET T : /\ Sum(f, S) # Sum(f, Q) + Sum(f, S \ Q)
               /\ \A x \in Q : Sum(f, S) = Sum(f, Q \ {x}) + Sum(f, S \ (Q \ {x}))
  <2> DEFINE C == {q \in SUBSET T : Sum(f, S) # Sum(f, q) + Sum(f, S \ q)}
  <2>1. C \in SUBSET SUBSET T /\ C # {}
    BY <1>a
  <2>2. PICK Q \in C : \A x \in Q : Q \ {x} \notin C
    <3> HIDE DEF C
    <3> QED
      BY <2>1, <1>0, MinimalSubset
  <2> QED
    BY <2>2
<1>1. SUFFICES ASSUME Sum(f, S) # Sum(f, T) + Sum(f, S \ T)
               PROVE  FALSE
  OBVIOUS
<1>2. PICK Q \in SUBSET T :
        /\ Sum(f, S) # Sum(f, Q) + Sum(f, S \ Q)
        /\ \A x \in Q : Sum(f, S) = Sum(f, Q \ {x}) + Sum(f, S \ (Q \ {x}))
  BY <1>1, <1>a, T \in SUBSET T
<1>3. IsFiniteSet(Q) /\ IsFiniteSet(S \ Q)
  BY FS_Subset
<1>4. Sum(f, S) \in Int
  BY SumInt
<1>5. CASE Q = {}
  <2>1. S \ Q = S
    BY <1>5
  <2>2. Sum(f, Q) = 0
    BY <1>5, SumEmpty
  <2> QED
    BY <1>2, <1>4, <2>1, <2>2
<1>6. CASE Q # {}
  <2>1. PICK x \in Q : TRUE
    BY <1>6
  <2>2. S \ (Q \ {x}) = (S \ Q) \cup {x}
    BY <2>1
  <2>3. Sum(f, (S \ Q) \cup {x}) = f[x] + Sum(f, S \ Q)
    BY <1>3, SumAdd, x \notin S \ Q
  <2>4. Sum(f, Q) = f[x] + Sum(f, Q \ {x})
    BY <1>3, SumRemove
  <2>5. Sum(f, Q \ {x}) \in Int /\ Sum(f, S \ Q) \in Int /\ f[x] \in Int
    <3>1. IsFiniteSet(Q \ {x})
      BY <1>3, FS_Subset
    <3> QED
      BY <3>1, <1>3, SumInt
  <2>6. Sum(f, S) = Sum(f, Q \ {x}) + (f[x] + Sum(f, S \ Q))
    BY <1>2, <2>1, <2>2, <2>3
  <2> QED
    BY <1>2, <2>4, <2>5, <2>6
<1> QED
  BY <1>5, <1>6

\* The sum of nothings.
LEMMA SumZero ==
  ASSUME NEW f, NEW S, IsFiniteSet(S), \A x \in S : f[x] = 0
  PROVE  Sum(f, S) = 0
<1> DEFINE h == [s \in SUBSET S |-> 0]
<1>1. IsSum(h, f, S)
  <2>1. h \in [SUBSET S -> Int]
    OBVIOUS
  <2>2. ASSUME NEW s \in SUBSET S
        PROVE  h[s] = IF s = {} THEN 0 ELSE f[First(s)] + h[s \ {First(s)}]
    <3>1. CASE s # {}
      <4>1. First(s) \in S /\ s \ {First(s)} \in SUBSET S
        BY <3>1, FirstIn
      <4>2. f[First(s)] = 0 /\ h[s \ {First(s)}] = 0 /\ h[s] = 0
        BY <4>1
      <4> QED
        BY <3>1, <4>2
    <3> QED
      BY <3>1
  <2> QED
    BY <2>1, <2>2 DEF IsSum, Adds
<1>2. h[S] = 0
  OBVIOUS
<1> QED
  BY <1>1, <1>2, SumIs

\* A sum of naturals is a natural number.
LEMMA SumNat ==
  ASSUME NEW f, NEW S, IsFiniteSet(S), \A x \in S : f[x] \in Nat
  PROVE  Sum(f, S) \in Nat
<1> DEFINE zero == [x \in S |-> 0]
<1>1. Sum(zero, S) <= Sum(f, S)
  <2> HIDE DEF zero
  <2>1. \A x \in S : zero[x] = 0
    BY DEF zero
  <2> QED
    BY <2>1, SumLeq
<1>2. Sum(zero, S) = 0
  <2>1. \A x \in S : zero[x] = 0
    OBVIOUS
  <2> HIDE DEF zero
  <2> QED
    BY <2>1, SumZero
<1>3. Sum(f, S) \in Int
  BY SumInt
<1> QED
  BY <1>1, <1>2, <1>3

\* If one value changes, the sum changes by as much.
LEMMA SumOne ==
  ASSUME NEW f, NEW g, NEW S, IsFiniteSet(S), NEW z \in S,
         \A x \in S : f[x] \in Int /\ g[x] \in Int,
         \A x \in S \ {z} : f[x] = g[x]
  PROVE  Sum(g, S) = Sum(f, S) + (g[z] - f[z])
<1>1. IsFiniteSet(S \ {z})
  BY FS_Subset
<1>2. Sum(f, S) = f[z] + Sum(f, S \ {z})
  BY SumRemove
<1>3. Sum(g, S) = g[z] + Sum(g, S \ {z})
  BY SumRemove
<1>4. Sum(f, S \ {z}) = Sum(g, S \ {z})
  BY <1>1, SumSame
<1>5. Sum(f, S \ {z}) \in Int /\ f[z] \in Int /\ g[z] \in Int
  BY <1>1, SumInt
<1> QED
  BY <1>2, <1>3, <1>4, <1>5

-------------------------------------------------------------------------------
(* Sums of operators. *)

\* The equation that MapThenSumSet solves, for a function f.  A sum of an
\* operator of a specification is shown to solve the same equation.
SumBody(g, f, S) ==
  [s \in SUBSET S |-> IF s = {} THEN 0 ELSE f[First(s)] + g[s \ {First(s)}]]

\* It has a solution.
LEMMA SumBodyExists ==
  ASSUME NEW f, NEW S, IsFiniteSet(S), \A x \in S : f[x] \in Int
  PROVE  \E h : h = SumBody(h, f, S)
<1>1. PICK h : IsSum(h, f, S)
  BY SumExists
<1> QED
  BY <1>1 DEF SumBody, IsSum, Adds

\* Every solution gives the sum.
LEMMA SumBodyIs ==
  ASSUME NEW f, NEW S, IsFiniteSet(S), \A x \in S : f[x] \in Int,
         NEW c, c = SumBody(c, f, S)
  PROVE  Sum(f, S) = c[S]
<1>1. PICK h : IsSum(h, f, S)
  BY SumExists
<1>2. Adds(c, f, S) /\ Adds(h, f, S)
  BY <1>1 DEF SumBody, Adds, IsSum
<1>3. c[S] = h[S]
  BY <1>2, SumUnique, S \in SUBSET S
<1> QED
  BY <1>1, <1>3, SumIs

-------------------------------------------------------------------------------
(* The first layer. *)

USE LedgerAssumption DEF LedgerAssumption

\* The first layer of the invariant: the types, and which rows are there.
Inv == TypeOK /\ LedgerInv

\* The handlers only add snapshots, sales and ticket rows, and never unlist.
Grown ==
  /\ snapshots \subseteq snapshots'
  /\ firstSales \subseteq firstSales'
  /\ \A s \in Places : listing[s] # NoListing => listing'[s] # NoListing
  /\ Len(tickets) <= Len(tickets')
  /\ \A r \in DOMAIN tickets : tickets'[r].owner = tickets[r].owner

-------------------------------------------------------------------------------
(* Places, logs and rows. *)

\* The log at a place of the chain is an event (TypeOK).
LEMMA ChainTyped ==
  ASSUME TypeOK
  PROVE  /\ Len(chain) \in Nat /\ DOMAIN chain = 1 .. Len(chain)
         /\ DOMAIN chain \subseteq Places
         /\ \A p \in DOMAIN chain :
              /\ p \in Nat
              /\ chain[p] \in Event /\ chain[p].kind \in Kinds
              /\ chain[p].wallet \in Wallets /\ Amount(p) \in Nat
<1>1. Len(chain) \in Nat /\ DOMAIN chain = 1 .. Len(chain)
  BY LenProperties DEF TypeOK
<1>2. \A p \in DOMAIN chain : chain[p] \in Event
  BY <1>1, ElementOfSeq DEF TypeOK
<1>3. DOMAIN chain \subseteq Places
  BY <1>1 DEF TypeOK, Places
<1>4. ASSUME NEW p \in DOMAIN chain
      PROVE  /\ p \in Nat /\ chain[p] \in Event /\ chain[p].kind \in Kinds
             /\ chain[p].wallet \in Wallets /\ Amount(p) \in Nat
  <2>1. chain[p] \in Event /\ p \in Nat
    BY <1>1, <1>2
  <2>2. chain[p].kind \in Kinds /\ chain[p].wallet \in Wallets
    BY <2>1 DEF Event
  <2>3. chain[p].amount \in Amounts \cup {0}
    BY <2>1 DEF Event
  <2>4. chain[p].amount \in Nat
    <3>1. \A n \in Amounts \cup {0} : n \in Nat
      OBVIOUS
    <3> QED
      BY <2>3, <3>1
  <2>5. Amount(p) \in Nat
    BY <2>4 DEF Amount
  <2> QED
    BY <2>1, <2>2, <2>5
<1> QED
  BY <1>1, <1>3, <1>4

\* The rows of nft_tickets have an owner and a whole quantity (TypeOK).
LEMMA TicketsTyped ==
  ASSUME TypeOK
  PROVE  /\ Len(tickets) \in Nat /\ DOMAIN tickets = 1 .. Len(tickets)
         /\ \A r \in DOMAIN tickets :
              /\ tickets[r] \in Ticket /\ tickets[r].quantity \in Int
              /\ tickets[r].owner \in Owner
<1>1. Len(tickets) \in Nat /\ DOMAIN tickets = 1 .. Len(tickets)
  BY LenProperties DEF TypeOK
<1>2. \A r \in DOMAIN tickets : tickets[r] \in Ticket
  BY <1>1, ElementOfSeq DEF TypeOK
<1> QED
  BY <1>1, <1>2 DEF Ticket

\* What a job has read has the types of what it read (TypeOK).
LEMMA LocalTyped ==
  ASSUME TypeOK, NEW k \in Kinds
  PROVE  /\ local[k] \in Local /\ local[k].row \in Nat
         /\ local[k].quantity \in Int /\ local[k].owner \in Owner
         /\ local[k].listing \in Listing
  BY DEF TypeOK, Local

\* Nothing has been read: a value of every type.
LEMMA NothingTyped ==
  Nothing \in Local /\ Nothing.row = 0 /\ NoListing \in Listing
  BY DEF Nothing, Local, Listing, Owner

\* A listing that is there has a number and a status.
LEMMA ListingThere ==
  ASSUME NEW l \in Listing, l # NoListing
  PROVE  l \in [remaining : Int, status : Statuses]
  BY DEF Listing

\* A listing with a status is there.
LEMMA StatusThere ==
  ASSUME NEW l \in [remaining : Int, status : Statuses]
  PROVE  l \in Listing /\ l # NoListing
  BY DEF Listing, NoListing, Statuses

\* A job has one log in hand.
LEMMA AtUnique ==
  ASSUME TypeOK, NEW k \in Kinds, NEW p, NEW q, At(k, p), At(k, q)
  PROVE  p = q
<1>1. p \in LogsOf(k) /\ q \in LogsOf(k) /\ p \in Nat /\ q \in Nat
  BY ChainTyped DEF At, LogsOf
<1>2. p <= q /\ q <= p
  BY DEF At
<1> QED
  BY <1>1, <1>2

\* The log that a job has in hand is one of its kind.
LEMMA AtIsLog ==
  ASSUME TypeOK, NEW k \in Kinds, NEW p, At(k, p)
  PROVE  /\ p \in DOMAIN chain /\ p \in Places /\ p \in 0 .. MaxLogs
         /\ chain[p].kind = k
  BY ChainTyped DEF At, LogsOf, Places

\* save of a row that was found.
LEMMA PutKeeps ==
  ASSUME TypeOK, NEW r \in DOMAIN tickets, NEW n \in Int, PutQuantity(r, n)
  PROVE  /\ tickets' \in Seq(Ticket) /\ Len(tickets') = Len(tickets)
         /\ \A q \in DOMAIN tickets : tickets'[q].owner = tickets[q].owner
<1> DEFINE row == [tickets[r] EXCEPT !.quantity = n]
<1>1. row \in Ticket /\ row.owner = tickets[r].owner
  BY TicketsTyped DEF Ticket
<1>2. tickets' = [tickets EXCEPT ![r] = row]
  BY DEF PutQuantity
<1>3. r \in 1 .. Len(tickets) /\ tickets \in Seq(Ticket)
  BY TicketsTyped DEF TypeOK
<1> HIDE DEF row
<1>4. /\ [tickets EXCEPT ![r] = row] \in Seq(Ticket)
      /\ Len([tickets EXCEPT ![r] = row]) = Len(tickets)
      /\ \A q \in 1 .. Len(tickets) :
           [tickets EXCEPT ![r] = row][q] = IF q = r THEN row ELSE tickets[q]
  BY <1>1, <1>3, ExceptSeq
<1> QED
  BY <1>1, <1>2, <1>4, TicketsTyped

\* insert of a row.
LEMMA InsertKeeps ==
  ASSUME TypeOK, NEW w \in Owner, NEW n \in Int, InsertTicket(w, n)
  PROVE  /\ tickets' \in Seq(Ticket) /\ Len(tickets') = Len(tickets) + 1
         /\ \A q \in DOMAIN tickets : tickets'[q].owner = tickets[q].owner
<1>1. [owner |-> w, quantity |-> n] \in Ticket
  BY DEF Ticket
<1> QED
  BY <1>1, AppendProperties, TicketsTyped DEF TypeOK, InsertTicket

\* Rows of a wallet remain its rows.
LEMMA RowsGrow ==
  ASSUME TypeOK, tickets' \in Seq(Ticket), Grown, NEW w
  PROVE  RowsOf(w) \subseteq RowsOf(w)'
<1>1. DOMAIN tickets \subseteq DOMAIN tickets'
  BY TicketsTyped, LenProperties DEF Grown
<1> QED
  BY <1>1 DEF RowsOf, Grown

-------------------------------------------------------------------------------
(* Steps of one job, as the invariant sees them. *)

\* Only job k moves.
Only(k) ==
  \A j \in Kinds \ {k} : /\ phase'[j] = phase[j] /\ local'[j] = local[j]
                         /\ upTo'[j] = upTo[j]

\* Pass puts one job to rest and moves no other.
LEMMA PassMoves ==
  ASSUME TypeOK, NEW k \in Kinds, NEW p \in 0 .. MaxLogs, Pass(k, p)
  PROVE  /\ upTo' \in [Kinds -> 0 .. MaxLogs]
         /\ phase' \in [Kinds -> Phases] /\ phase'[k] = "idle"
         /\ local' \in [Kinds -> Local] /\ local'[k] = Nothing
         /\ Only(k)
  BY NothingTyped DEF TypeOK, Pass, Only, Phases

\* Proceed takes one job to its next await and moves no other.
LEMMA ProceedMoves ==
  ASSUME TypeOK, NEW k \in Kinds, NEW ph \in Phases, NEW found \in Local,
         Proceed(k, ph, found)
  PROVE  /\ upTo' = upTo
         /\ phase' \in [Kinds -> Phases] /\ phase'[k] = ph
         /\ local' \in [Kinds -> Local] /\ local'[k] = found
         /\ Only(k)
  BY DEF TypeOK, Proceed, Only

\* The jobs that do not move keep what they have in hand.
LEMMA HandKept ==
  ASSUME Inv, tickets' \in Seq(Ticket), UNCHANGED chain, Grown, NEW k \in Kinds,
         Only(k), local'[k].row <= Len(tickets'),
         phase'[k] # "idle" => \E p \in DOMAIN chain : (At(k, p) /\ InHand(k, p))'
  PROVE  HandInv'
<1> USE DEF Inv, LedgerInv
<1>1. ASSUME NEW j \in Kinds, phase'[j] # "idle"
      PROVE  \E p \in DOMAIN chain : (At(j, p) /\ InHand(j, p))'
  <2>1. CASE j = k
    BY <1>1, <2>1
  <2>2. CASE j # k
    <3>1. PICK p \in DOMAIN chain : At(j, p) /\ InHand(j, p)
      BY <1>1, <2>2 DEF HandInv, Only
    <3>2. At(j, p)'
      BY <2>2, <3>1 DEF At, LogsOf, Only
    <3>3. RowsOf(chain[p].wallet) \subseteq RowsOf(chain[p].wallet)'
      BY RowsGrow
    <3>4. chain[p].kind = j
      BY <3>1, AtIsLog
    <3>5. ASSUME j \in {"CancelledResellTicket", "BoughtTicket"}
          PROVE  listing'[chain[p].sale] # NoListing
      <4>1. chain[p].sale \in Places
        BY <3>4, <3>5, ChainTyped DEF SaleInv, LogsOf
      <4>2. listing[chain[p].sale] # NoListing
        BY <3>1, <3>5 DEF InHand
      <4> QED
        BY <4>1, <4>2 DEF Grown
    <3>6. InHand(j, p)'
      BY <2>2, <3>1, <3>3, <3>5 DEF InHand, Only, Grown
    <3> QED
      BY <3>2, <3>6
  <2> QED
    BY <2>1, <2>2
<1>2. ASSUME NEW j \in Kinds PROVE local'[j].row <= Len(tickets')
  <2>1. CASE j # k
    <3>1. /\ local[j].row <= Len(tickets) /\ local'[j] = local[j]
          /\ Len(tickets) <= Len(tickets')
      BY <2>1 DEF HandInv, Only, Grown
    <3>2. local[j].row \in Nat /\ Len(tickets) \in Nat /\ Len(tickets') \in Nat
      BY LocalTyped, TicketsTyped, LenProperties
    <3> QED
      BY <3>1, <3>2
  <2> QED
    BY <2>1
<1> QED
  BY <1>1, <1>2 DEF HandInv

\* The same for a job that is done with its log.
LEMMA HandPassed ==
  ASSUME Inv, tickets' \in Seq(Ticket), UNCHANGED chain, Grown,
         NEW k \in Kinds, NEW p \in 0 .. MaxLogs, Pass(k, p)
  PROVE  HandInv'
<1>1. Only(k) /\ phase'[k] = "idle" /\ local'[k] = Nothing
  BY PassMoves DEF Inv
<1>2. local'[k].row <= Len(tickets')
  BY <1>1, NothingTyped, LenProperties
<1> QED
  BY <1>1, <1>2, HandKept

\* When the database does not change, only the hands can be disturbed.
LEMMA QuietKeeps ==
  ASSUME Inv, UNCHANGED <<chain, db>>, HandInv' PROVE LedgerInv'
<1> USE DEF Inv, LedgerInv, db
<1>1. SaleInv' /\ ListingInv'
  BY DEF SaleInv, ListingInv, LogsOf
<1>2. MarketAtomic' /\ RefundHasRow'
  BY DEF MarketAtomic, RefundHasRow, RowsOf
<1> QED
  BY <1>1, <1>2

\* A database that does not change has grown.
LEMMA QuietGrown ==
  ASSUME TypeOK, UNCHANGED db PROVE Grown /\ tickets' \in Seq(Ticket)
  BY TicketsTyped DEF TypeOK, Grown, db

\* A job that goes on with what it has found, and changes no row.
LEMMA FindStepKeeps ==
  ASSUME Inv, NEW k \in Kinds, NEW p \in DOMAIN chain, At(k, p),
         NEW ph \in Phases, NEW found \in Local, Proceed(k, ph, found),
         found.row <= Len(tickets), UNCHANGED <<chain, users, db, credited, blame>>,
         phase'[k] = ph /\ local'[k] = found /\ ph # "idle" => InHand(k, p)'
  PROVE  Inv'
<1>1. /\ upTo' = upTo
      /\ phase' \in [Kinds -> Phases] /\ phase'[k] = ph
      /\ local' \in [Kinds -> Local] /\ local'[k] = found
      /\ Only(k)
  BY ProceedMoves DEF Inv
<1>2. TypeOK'
  BY <1>1 DEF Inv, TypeOK, db
<1>3. Grown /\ tickets' \in Seq(Ticket) /\ tickets' = tickets
  BY QuietGrown DEF Inv, db
<1>4. At(k, p)'
  BY <1>1 DEF At, LogsOf
<1>5. HandInv'
  BY <1>1, <1>3, <1>4, HandKept
<1> QED
  BY <1>2, <1>5, QuietKeeps DEF Inv

-------------------------------------------------------------------------------
(* The chain grows. *)

\* A new log refers to a listing opened before, or opens its own.
LEMMA EmitKeeps ==
  ASSUME Inv, NEW e \in Event, Emit(e),
         e.kind = "ResoldTicket" => e.sale = Len(chain) + 1,
         e.kind \in {"CancelledResellTicket", "BoughtTicket"} =>
           e.sale \in LogsOf("ResoldTicket")
  PROVE  Inv'
<1> USE DEF Inv, LedgerInv, Emit
<1>1. /\ chain' \in Seq(Event) /\ Len(chain') = Len(chain) + 1
      /\ \A i \in 1 .. Len(chain) : chain'[i] = chain[i]
      /\ chain'[Len(chain) + 1] = e
  BY AppendProperties DEF TypeOK
<1>2. DOMAIN chain = 1 .. Len(chain) /\ DOMAIN chain' = 1 .. Len(chain')
      /\ Len(chain) \in Nat
  BY <1>1, LenProperties DEF TypeOK
<1>3. /\ DOMAIN chain \subseteq DOMAIN chain'
      /\ \A p \in DOMAIN chain : chain'[p] = chain[p]
      /\ \A p \in DOMAIN chain' : p \in DOMAIN chain \/ p = Len(chain) + 1
      /\ Len(chain) + 1 \notin DOMAIN chain
  BY <1>1, <1>2
<1>4. TypeOK'
  <2>1. Len(chain') <= MaxLogs
    BY <1>1, <1>2 DEF TypeOK
  <2> QED
    BY <1>1, <1>3, <2>1 DEF TypeOK, db
<1>5. SaleInv' /\ ListingInv'
  <2>1. \A k \in Kinds : LogsOf(k) \subseteq LogsOf(k)'
    BY <1>3 DEF LogsOf
  <2> QED
    BY <1>1, <1>3, <2>1 DEF SaleInv, ListingInv, db, Kinds
<1>6. MarketAtomic'
  <2>1. Len(chain) + 1 \notin snapshots /\ Len(chain) + 1 \notin purchases
    BY <1>3 DEF TypeOK
  <2>2. listing[Len(chain) + 1] = NoListing \/ Len(chain) + 1 \notin Places
    BY <1>3 DEF ListingInv, LogsOf
  <2>3. Len(chain) + 1 \in Places
    BY <1>2 DEF Places
  <2> QED
    BY <1>1, <1>3, <2>1, <2>2, <2>3 DEF MarketAtomic, db
<1>7. RefundHasRow'
  <2>1. ASSUME NEW s \in Places, listing[s] # NoListing
        PROVE  chain'[s].wallet = chain[s].wallet
    BY <1>3, <2>1 DEF ListingInv, LogsOf
  <2> QED
    BY <2>1 DEF RefundHasRow, RowsOf, db
<1>8. ASSUME NEW k \in Kinds, NEW p \in DOMAIN chain, At(k, p) PROVE At(k, p)'
  <2>1. \A q \in LogsOf(k)' : q \in LogsOf(k) \/ q = Len(chain) + 1
    BY <1>3 DEF LogsOf
  <2>2. p <= Len(chain) + 1 /\ p \in LogsOf(k)'
    BY <1>2, <1>3, <1>8 DEF At, LogsOf
  <2> QED
    BY <1>8, <2>1, <2>2 DEF At
<1>9. ASSUME NEW k \in Kinds, NEW p \in DOMAIN chain, InHand(k, p)
      PROVE  InHand(k, p)'
  BY <1>3, <1>9 DEF InHand, RowsOf, db
<1>10. HandInv'
  BY <1>3, <1>8, <1>9 DEF HandInv, db
<1> QED
  BY <1>4, <1>5, <1>6, <1>7, <1>10

\* The contracts' four events refer to listings as EmitKeeps asks.
LEMMA ContractsKeep ==
  ASSUME Inv, Contracts PROVE Inv'
<1> USE DEF Inv, LedgerInv
<1>1. Len(chain) \in Nat /\ Len(chain) + 1 \in Nat
  BY ChainTyped
<1>2. ASSUME NEW w \in Wallets, NEW n \in Amounts,
             Emit([kind |-> "TicketSold", sale |-> 0, wallet |-> w, amount |-> n])
      PROVE  Inv'
  <2> DEFINE e == [kind |-> "TicketSold", sale |-> 0, wallet |-> w, amount |-> n]
  <2>1. e \in Event /\ e.kind = "TicketSold"
    BY DEF Event, Kinds
  <2> QED
    BY <1>2, <2>1, EmitKeeps
<1>3. ASSUME NEW w \in Wallets, NEW n \in Amounts,
             Emit([kind |-> "ResoldTicket", sale |-> Len(chain) + 1,
                   wallet |-> w, amount |-> n])
      PROVE  Inv'
  <2> DEFINE e == [kind |-> "ResoldTicket", sale |-> Len(chain) + 1,
                   wallet |-> w, amount |-> n]
  <2>1. Len(chain) + 1 \in 0 .. MaxLogs
    BY <1>1, <1>3 DEF Emit
  <2>2. e \in Event /\ e.kind = "ResoldTicket" /\ e.sale = Len(chain) + 1
    BY <2>1 DEF Event, Kinds
  <2> QED
    BY <1>3, <2>2, EmitKeeps
<1>4. ASSUME NEW s \in LogsOf("ResoldTicket"), NEW w \in Wallets,
             NEW n \in Amounts \cup {0},
             NEW k \in {"CancelledResellTicket", "BoughtTicket"},
             Emit([kind |-> k, sale |-> s, wallet |-> w, amount |-> n])
      PROVE  Inv'
  <2> DEFINE e == [kind |-> k, sale |-> s, wallet |-> w, amount |-> n]
  <2>1. s \in 0 .. MaxLogs
    BY ChainTyped DEF LogsOf, Places
  <2>2. e \in Event /\ e.kind = k /\ e.sale = s
    BY <2>1 DEF Event, Kinds
  <2>3. e.kind # "ResoldTicket" /\ e.sale \in LogsOf("ResoldTicket")
    BY <2>2
  <2> QED
    BY <1>4, <2>2, <2>3, EmitKeeps
<1>5. \A s \in LogsOf("ResoldTicket") : chain[s].wallet \in Wallets
  BY ChainTyped DEF LogsOf
<1>6. CASE FirstSell
  BY <1>2, <1>6 DEF FirstSell
<1>7. CASE ResellTicket
  BY <1>3, <1>7 DEF ResellTicket
<1>8. CASE BuyTicket
  BY <1>4, <1>8 DEF BuyTicket
<1>9. CASE CancelResellTicket
  BY <1>4, <1>5, <1>9 DEF CancelResellTicket
<1> QED
  BY <1>6, <1>7, <1>8, <1>9 DEF Contracts

\* A login adds a user, which no table refers to.
LEMMA RegisterKeeps ==
  ASSUME Inv, Register PROVE Inv'
<1> USE DEF Inv, LedgerInv, Register
<1>1. TypeOK'
  BY DEF TypeOK, db
<1>2. HandInv'
  BY DEF HandInv, InHand, At, LogsOf, RowsOf, db
<1> QED
  BY <1>1, <1>2, QuietKeeps

-------------------------------------------------------------------------------
(* Delivery. *)

\* SkipRecorded and Lose: the job passes over a log and writes nothing.
LEMMA SkipKeeps ==
  ASSUME Inv, NEW k \in Kinds, NEW p, At(k, p), Pass(k, p),
         UNCHANGED <<chain, users, db, credited, blame>>
  PROVE  Inv'
<1> USE DEF Inv
<1>1. p \in 0 .. MaxLogs
  BY AtIsLog
<1>2. TypeOK'
  BY <1>1, PassMoves DEF TypeOK, db
<1>3. HandInv'
  BY <1>1, QuietGrown, HandPassed
<1> QED
  BY <1>2, <1>3, QuietKeeps

\* An interrupted job forgets what it has read and takes its log again.
LEMMA AbortKeeps ==
  ASSUME Inv, NEW k \in Kinds, Abort(k) PROVE Inv'
<1> USE DEF Inv, Abort
<1>1. PICK p \in DOMAIN chain : At(k, p)
  BY DEF LedgerInv, HandInv
<1>2. Nothing.row <= Len(tickets)
  BY NothingTyped, TicketsTyped
<1>3. "idle" \in Phases
  BY DEF Phases
<1> QED
  BY <1>1, <1>2, <1>3, NothingTyped, FindStepKeeps

\* A job that starts further back has nothing in hand.
LEMMA RewindKeeps ==
  ASSUME Inv, NEW k \in Kinds, Rewind(k) PROVE Inv'
<1> USE DEF Inv, Rewind
<1>1. upTo' \in [Kinds -> 0 .. MaxLogs] /\ Only(k)
  BY DEF TypeOK, Only
<1>2. TypeOK'
  BY <1>1 DEF TypeOK, db
<1>3. local'[k].row <= Len(tickets')
  BY DEF LedgerInv, HandInv, db
<1>4. HandInv'
  BY <1>1, <1>3, QuietGrown, HandKept
<1> QED
  BY <1>2, <1>4, QuietKeeps

-------------------------------------------------------------------------------
(* handleTicketSoldEvent. *)

\* Its writes touch no listing and no purchase, so the marketplace invariants
\* only need what was there to stay.
LEMMA FirstSaleKeeps ==
  ASSUME Inv, TypeOK', Grown, HandInv', UNCHANGED <<chain, purchases, listing>>,
         \A p \in DOMAIN chain :
           p \in snapshots' \ snapshots => chain[p].kind = "TicketSold"
  PROVE  LedgerInv'
<1> USE DEF Inv, LedgerInv
<1>1. SaleInv' /\ ListingInv'
  BY DEF SaleInv, ListingInv, LogsOf
<1>2. MarketAtomic'
  BY DEF MarketAtomic, Grown
<1>3. RefundHasRow'
  <2>1. \A w : RowsOf(w) \subseteq RowsOf(w)'
    BY RowsGrow DEF TypeOK
  <2> QED
    BY <2>1 DEF RefundHasRow
<1> QED
  BY <1>1, <1>2, <1>3

\* The snapshot is written first, so the log in hand is recorded.
LEMMA SaveSnapshotKeeps ==
  ASSUME Inv, SaveSnapshot PROVE Inv'
<1> DEFINE k == "TicketSold"
<1> USE DEF Inv
<1>1. PICK p \in DOMAIN chain \ snapshots :
        /\ At(k, p) /\ snapshots' = snapshots \cup {p}
        /\ Proceed(k, "saleRow", Nothing)
  BY DEF SaveSnapshot
<1>2. k \in Kinds /\ "saleRow" \in Phases
  BY DEF Kinds, Phases
<1>3. /\ upTo' = upTo /\ phase' \in [Kinds -> Phases] /\ phase'[k] = "saleRow"
      /\ local' \in [Kinds -> Local] /\ local'[k] = Nothing /\ Only(k)
  BY <1>1, <1>2, NothingTyped, ProceedMoves
<1>4. UNCHANGED <<chain, users, firstSales, purchases, listing, tickets,
                  credited, blame>>
  BY DEF SaveSnapshot
<1>5. TypeOK'
  BY <1>1, <1>3, <1>4 DEF TypeOK
<1>6. Grown
  BY <1>1, <1>4, TicketsTyped DEF Grown
<1>7. (At(k, p) /\ InHand(k, p))'
  BY <1>1, <1>3, <1>4 DEF At, LogsOf, InHand, PhasesOf
<1>8. HandInv'
  BY <1>1, <1>2, <1>3, <1>4, <1>5, <1>6, <1>7, HandKept, NothingTyped,
     TicketsTyped DEF TypeOK
<1>9. chain[p].kind = "TicketSold"
  BY <1>1, <1>2, AtIsLog
<1> QED
  BY <1>1, <1>4, <1>5, <1>6, <1>8, <1>9, FirstSaleKeeps

\* The sale row is written for a recorded log.
LEMMA SaveFirstSaleKeeps ==
  ASSUME Inv, SaveFirstSale PROVE Inv'
<1> DEFINE k == "TicketSold"
<1> USE DEF Inv
<1>1. PICK p \in DOMAIN chain :
        /\ At(k, p) /\ firstSales' = firstSales \cup {p}
        /\ Proceed(k, "find", Nothing)
  BY DEF SaveFirstSale
<1>2. k \in Kinds /\ "find" \in Phases /\ phase[k] # "idle"
  BY DEF Kinds, Phases, SaveFirstSale
<1>3. /\ upTo' = upTo /\ phase' \in [Kinds -> Phases] /\ phase'[k] = "find"
      /\ local' \in [Kinds -> Local] /\ local'[k] = Nothing /\ Only(k)
  BY <1>1, <1>2, NothingTyped, ProceedMoves
<1>4. UNCHANGED <<chain, users, snapshots, purchases, listing, tickets,
                  credited, blame>>
  BY DEF SaveFirstSale
<1>5. p \in snapshots
  BY <1>1, <1>2, AtUnique DEF LedgerInv, HandInv, InHand
<1>6. TypeOK'
  BY <1>1, <1>3, <1>4, <1>5 DEF TypeOK
<1>7. Grown
  BY <1>1, <1>4, TicketsTyped DEF Grown
<1>8. (At(k, p) /\ InHand(k, p))'
  BY <1>1, <1>3, <1>4, <1>5 DEF At, LogsOf, InHand, PhasesOf
<1>9. HandInv'
  BY <1>1, <1>2, <1>3, <1>4, <1>6, <1>7, <1>8, HandKept, NothingTyped,
     TicketsTyped DEF TypeOK
<1> QED
  BY <1>4, <1>6, <1>7, <1>9, FirstSaleKeeps

\* The buyer's row, or any row, or none is found.
LEMMA FindBuyerTicketKeeps ==
  ASSUME Inv, FindBuyerTicket PROVE Inv'
<1> DEFINE k == "TicketSold"
<1> USE DEF Inv
<1>1. PICK p \in DOMAIN chain, r \in 0 .. Len(tickets), w \in Owner :
        /\ At(k, p)
        /\ Proceed(k, "write", [row |-> r, owner |-> w,
                                quantity |-> QuantityAt(r),
                                listing |-> NoListing])
  <2>1. \A p \in DOMAIN chain :
          (IF chain[p].wallet \in users THEN chain[p].wallet ELSE NoOwner) \in Owner
    BY ChainTyped DEF Owner
  <2> QED
    BY <2>1 DEF FindBuyerTicket
<1> DEFINE found == [row |-> r, owner |-> w, quantity |-> QuantityAt(r),
                     listing |-> NoListing]
<1>2. k \in Kinds /\ "write" \in Phases /\ phase[k] # "idle"
  BY DEF Kinds, Phases, FindBuyerTicket
<1>3. found \in Local /\ found.row <= Len(tickets)
  <2>1. QuantityAt(r) \in Int /\ r \in Nat /\ r <= Len(tickets)
    BY TicketsTyped DEF QuantityAt
  <2> QED
    BY <2>1, NothingTyped DEF Local
<1>4. p \in snapshots /\ p \in firstSales
  <2>1. phase[k] = "find"
    BY DEF FindBuyerTicket
  <2> QED
    BY <1>1, <1>2, <2>1, AtUnique DEF LedgerInv, HandInv, InHand
<1>5. UNCHANGED <<chain, users, db, credited, blame>>
  BY DEF FindBuyerTicket
<1> HIDE DEF found
<1>6. phase'[k] = "write" => InHand(k, p)'
  BY <1>4, <1>5 DEF InHand, PhasesOf, db
<1>7. Proceed(k, "write", found)
  BY <1>1 DEF found
<1> QED
  BY <1>1, <1>2, <1>3, <1>5, <1>6, <1>7, FindStepKeeps

\* The ticket row is written for a log that has its sale row.
LEMMA CreditBuyerKeeps ==
  ASSUME Inv, CreditBuyer PROVE Inv'
<1> DEFINE k == "TicketSold"
           read == local[k]
<1> USE DEF Inv
<1>1. PICK p \in DOMAIN chain :
        /\ At(k, p) /\ Pass(k, p) /\ credited' = credited \cup {p}
        /\ \/ read.row # 0 /\ PutQuantity(read.row, read.quantity + Amount(p))
           \/ read.row = 0 /\ InsertTicket(read.owner, Amount(p))
  BY DEF CreditBuyer
<1>2. k \in Kinds /\ phase[k] = "write"
  BY DEF Kinds, CreditBuyer
<1>3. /\ UNCHANGED <<chain, users, snapshots, firstSales, purchases, listing>>
      /\ blame' \subseteq blame \cup Causes
  BY DEF CreditBuyer, Stale, Causes
<1>4. p \in firstSales
  BY <1>1, <1>2, AtUnique DEF LedgerInv, HandInv, InHand
<1>5. /\ read.row \in Nat /\ read.row <= Len(tickets) /\ read.quantity \in Int
      /\ read.owner \in Owner /\ Amount(p) \in Int
  BY <1>2, LocalTyped, ChainTyped DEF LedgerInv, HandInv
<1> HIDE DEF read
<1>6. /\ tickets' \in Seq(Ticket) /\ Len(tickets) <= Len(tickets')
      /\ \A q \in DOMAIN tickets : tickets'[q].owner = tickets[q].owner
  <2>1. CASE read.row # 0
    <3>1. read.row \in DOMAIN tickets /\ read.quantity + Amount(p) \in Int
      BY <1>5, <2>1, TicketsTyped
    <3> QED
      BY <1>1, <2>1, <3>1, PutKeeps, TicketsTyped
  <2>2. CASE read.row = 0
    BY <1>1, <1>5, <2>2, InsertKeeps, TicketsTyped
  <2> QED
    BY <2>1, <2>2
<1>7. p \in 0 .. MaxLogs
  BY <1>1, <1>2, AtIsLog
<1>8. TypeOK'
  BY <1>1, <1>2, <1>3, <1>4, <1>6, <1>7, PassMoves DEF TypeOK
<1>9. Grown
  BY <1>3, <1>6 DEF Grown
<1>10. HandInv'
  BY <1>1, <1>2, <1>3, <1>6, <1>7, <1>9, HandPassed
<1> QED
  BY <1>3, <1>8, <1>9, <1>10, FirstSaleKeeps

-------------------------------------------------------------------------------
(* The marketplace handlers. *)

\* Rows that were there keep every listing's seller with a row.
LEMMA RefundKept ==
  ASSUME Inv, TypeOK', Grown, UNCHANGED chain,
         \A s \in Places : listing'[s] # NoListing /\ listing[s] = NoListing =>
           RowsOf(chain[s].wallet) # {}
  PROVE  RefundHasRow'
<1>1. \A w : RowsOf(w) \subseteq RowsOf(w)'
  BY RowsGrow DEF Inv, TypeOK
<1> QED
  BY <1>1 DEF Inv, LedgerInv, RefundHasRow

\* The seller's row is found, and will be there at the commit.
LEMMA FindSellerTicketKeeps ==
  ASSUME Inv, FindSellerTicket PROVE Inv'
<1> DEFINE k == "ResoldTicket"
<1> USE DEF Inv
<1>0. PICK p \in DOMAIN chain :
        /\ At(k, p)
        /\ \E r \in RowsOf(chain[p].wallet) :
             Proceed(k, "commit",
                     [Nothing EXCEPT !.row = r, !.quantity = tickets[r].quantity])
  BY DEF FindSellerTicket
<1>1. PICK r \in RowsOf(chain[p].wallet) :
        Proceed(k, "commit",
                [Nothing EXCEPT !.row = r, !.quantity = tickets[r].quantity])
  BY <1>0
<1> DEFINE found == [Nothing EXCEPT !.row = r, !.quantity = tickets[r].quantity]
<1>2. k \in Kinds /\ "commit" \in Phases
  BY DEF Kinds, Phases
<1>3. found \in Local /\ found.row = r /\ r <= Len(tickets)
  <2>1. r \in Nat /\ r <= Len(tickets) /\ tickets[r].quantity \in Int
    BY TicketsTyped DEF RowsOf
  <2> QED
    BY <2>1 DEF Nothing, Local, Owner, Listing
<1>4. UNCHANGED <<chain, users, db, credited, blame>>
  BY DEF FindSellerTicket
<1>5. Proceed(k, "commit", found)
  BY <1>1
<1> HIDE DEF found
<1>6. phase'[k] = "commit" /\ local'[k] = found => InHand(k, p)'
  BY <1>3, <1>4 DEF InHand, PhasesOf, RowsOf, db
<1> QED
  BY <1>0, <1>2, <1>3, <1>4, <1>5, <1>6, FindStepKeeps

\* Listing, snapshot and the seller's row are written together.
LEMMA CommitResoldKeeps ==
  ASSUME Inv, CommitResold PROVE Inv'
<1> DEFINE k == "ResoldTicket"
           read == local[k]
<1> USE DEF Inv
<1>1. PICK p \in DOMAIN chain :
        /\ At(k, p) /\ Pass(k, p) /\ snapshots' = snapshots \cup {p}
        /\ listing' = [listing EXCEPT
                         ![p] = [remaining |-> Amount(p), status |-> "selling"]]
        /\ PutQuantity(read.row, read.quantity - Amount(p))
  BY DEF CommitResold
<1>2. k \in Kinds /\ phase[k] = "commit"
  BY DEF Kinds, CommitResold
<1>3. /\ UNCHANGED <<chain, users, firstSales, purchases, credited>>
      /\ blame' \subseteq blame \cup Causes
  BY DEF CommitResold, Stale, Causes
<1>4. read.row \in RowsOf(chain[p].wallet)
  BY <1>1, <1>2, AtUnique DEF LedgerInv, HandInv, InHand
<1>5. /\ read.row \in DOMAIN tickets /\ read.quantity - Amount(p) \in Int
      /\ Amount(p) \in Int
  BY <1>2, <1>4, LocalTyped, ChainTyped DEF RowsOf
<1> HIDE DEF read
<1>6. /\ tickets' \in Seq(Ticket) /\ Len(tickets') = Len(tickets)
      /\ \A q \in DOMAIN tickets : tickets'[q].owner = tickets[q].owner
  BY <1>1, <1>5, PutKeeps
<1>7. p \in 0 .. MaxLogs /\ p \in Places /\ chain[p].kind = k
  BY <1>1, <1>2, AtIsLog
<1>8. [remaining |-> Amount(p), status |-> "selling"]
        \in [remaining : Int, status : Statuses]
  BY <1>5 DEF Statuses
<1>9. /\ listing' \in [Places -> Listing] /\ listing'[p] # NoListing
      /\ \A s \in Places : s # p => listing'[s] = listing[s]
  BY <1>1, <1>7, <1>8, StatusThere DEF TypeOK
<1>10. TypeOK'
  BY <1>1, <1>2, <1>3, <1>6, <1>7, <1>9, PassMoves DEF TypeOK
<1>11. Grown
  BY <1>1, <1>3, <1>6, <1>9, TicketsTyped DEF Grown
<1>12. HandInv'
  BY <1>1, <1>2, <1>3, <1>6, <1>7, <1>11, HandPassed
<1>13. SaleInv' /\ ListingInv'
  BY <1>3, <1>7, <1>9 DEF LedgerInv, SaleInv, ListingInv, LogsOf
<1>14. MarketAtomic'
  BY <1>1, <1>3, <1>7, <1>9, ChainTyped DEF LedgerInv, MarketAtomic
<1>15. RefundHasRow'
  BY <1>3, <1>4, <1>9, <1>10, <1>11, RefundKept
<1> QED
  BY <1>10, <1>12, <1>13, <1>14, <1>15 DEF LedgerInv

\* Both handlers that look for the sale go on with a listing that is there.
LEMMA SaleFoundKeeps ==
  ASSUME Inv, NEW k \in {"CancelledResellTicket", "BoughtTicket"},
         NEW p \in DOMAIN chain, At(k, p), NEW ph \in PhasesOf(k),
         listing[chain[p].sale] # NoListing,
         Proceed(k, ph, [Nothing EXCEPT !.listing = listing[chain[p].sale]]),
         UNCHANGED <<chain, users, db, credited, blame>>
  PROVE  Inv'
<1> DEFINE found == [Nothing EXCEPT !.listing = listing[chain[p].sale]]
<1> USE DEF Inv
<1>1. k \in Kinds /\ ph \in Phases /\ ph \notin {"find", "write"}
  BY DEF Kinds, Phases, PhasesOf
<1>2. chain[p].sale \in Places
  BY <1>1, AtIsLog, ChainTyped DEF LedgerInv, SaleInv, LogsOf
<1>3. found \in Local /\ found.row = 0 /\ found.listing = listing[chain[p].sale]
  BY <1>2 DEF TypeOK, Nothing, Local, Owner
<1>4. found.row <= Len(tickets)
  BY <1>3, TicketsTyped
<1> HIDE DEF found
<1>5. Proceed(k, ph, found)
  BY DEF found
<1>6. phase'[k] = ph /\ local'[k] = found => InHand(k, p)'
  BY <1>1, <1>3 DEF InHand, db
<1> QED
  BY <1>1, <1>3, <1>4, <1>5, <1>6, FindStepKeeps

\* FindSale and FindCancelledSale are such steps.
LEMMA FindSaleKeeps ==
  ASSUME Inv, FindSale \/ FindCancelledSale PROVE Inv'
<1>1. CASE FindSale
  BY <1>1, SaleFoundKeeps DEF FindSale, PhasesOf
<1>2. CASE FindCancelledSale
  BY <1>2, SaleFoundKeeps DEF FindCancelledSale, PhasesOf
<1> QED
  BY <1>1, <1>2

\* The sale that was read is kept in hand with the buyer's row.
LEMMA FindPurchaserTicketKeeps ==
  ASSUME Inv, FindPurchaserTicket PROVE Inv'
<1> DEFINE k == "BoughtTicket"
<1> USE DEF Inv
<1>1. PICK p \in DOMAIN chain, r \in 0 .. Len(tickets) :
        /\ At(k, p)
        /\ Proceed(k, "commit",
                   [local[k] EXCEPT !.row = r, !.quantity = QuantityAt(r)])
  BY DEF FindPurchaserTicket
<1> DEFINE found == [local[k] EXCEPT !.row = r, !.quantity = QuantityAt(r)]
<1>2. k \in Kinds /\ "commit" \in Phases /\ phase[k] = "ticket"
  BY DEF Kinds, Phases, FindPurchaserTicket
<1>3. found \in Local /\ found.row = r /\ found.listing = local[k].listing
  <2>1. r \in Nat /\ QuantityAt(r) \in Int
    BY TicketsTyped DEF QuantityAt
  <2>2. local[k] \in Local
    BY <1>2, LocalTyped
  <2> QED
    BY <2>1, <2>2 DEF Local
<1>4. local[k].listing # NoListing /\ listing[chain[p].sale] # NoListing
  BY <1>1, <1>2, AtUnique DEF LedgerInv, HandInv, InHand
<1>5. r <= Len(tickets)
  BY TicketsTyped
<1>6. UNCHANGED <<chain, users, db, credited, blame>>
  BY DEF FindPurchaserTicket
<1>7. Proceed(k, "commit", found)
  BY <1>1
<1> HIDE DEF found
<1>8. phase'[k] = "commit" /\ local'[k] = found => InHand(k, p)'
  BY <1>3, <1>4, <1>6 DEF InHand, PhasesOf, db
<1> QED
  BY <1>1, <1>2, <1>3, <1>5, <1>6, <1>7, <1>8, FindStepKeeps

\* Purchase, snapshot, listing and the buyer's row are written together.
LEMMA CommitBoughtKeeps ==
  ASSUME Inv, CommitBought PROVE Inv'
<1> DEFINE k == "BoughtTicket"
           read == local[k]
<1> USE DEF Inv
<1>1. PICK p \in DOMAIN chain :
        /\ At(k, p) /\ Pass(k, p) /\ snapshots' = snapshots \cup {p}
        /\ purchases' = purchases \cup {p}
        /\ listing' = [listing EXCEPT ![chain[p].sale] =
                         AfterPurchase(read.listing, Amount(p))]
        /\ \/ read.row # 0 /\ PutQuantity(read.row, read.quantity + Amount(p))
           \/ read.row = 0 /\ InsertTicket(chain[p].wallet, Amount(p))
  BY DEF CommitBought
<1> DEFINE sale == chain[p].sale
           after == AfterPurchase(read.listing, Amount(p))
<1>2. k \in Kinds /\ phase[k] = "commit"
  BY DEF Kinds, CommitBought
<1>3. /\ UNCHANGED <<chain, users, firstSales, credited>>
      /\ blame' \subseteq blame \cup Causes
  BY DEF CommitBought, Stale, Causes
<1>4. read.listing # NoListing /\ listing[sale] # NoListing
  BY <1>1, <1>2, AtUnique DEF LedgerInv, HandInv, InHand
<1>5. /\ read.row \in Nat /\ read.row <= Len(tickets) /\ read.quantity \in Int
      /\ read.listing \in Listing /\ chain[p].wallet \in Owner /\ Amount(p) \in Int
  BY <1>2, LocalTyped, ChainTyped DEF LedgerInv, HandInv, Owner
<1>6. p \in 0 .. MaxLogs /\ p \in Places /\ chain[p].kind = k
  BY <1>1, <1>2, AtIsLog
<1>7. sale \in Places /\ sale \in DOMAIN chain /\ chain[sale].kind = "ResoldTicket"
  BY <1>6, ChainTyped DEF LedgerInv, SaleInv, LogsOf
<1> HIDE DEF read
<1>8. /\ tickets' \in Seq(Ticket) /\ Len(tickets) <= Len(tickets')
      /\ \A q \in DOMAIN tickets : tickets'[q].owner = tickets[q].owner
  <2>1. CASE read.row # 0
    <3>1. read.row \in DOMAIN tickets /\ read.quantity + Amount(p) \in Int
      BY <1>5, <2>1, TicketsTyped
    <3> QED
      BY <1>1, <2>1, <3>1, PutKeeps, TicketsTyped
  <2>2. CASE read.row = 0
    BY <1>1, <1>5, <2>2, InsertKeeps, TicketsTyped
  <2> QED
    BY <2>1, <2>2
<1>9. after \in Listing /\ after # NoListing
  <2>1. read.listing \in [remaining : Int, status : Statuses]
    BY <1>4, <1>5, ListingThere
  <2>2. after \in [remaining : Int, status : Statuses]
    BY <1>5, <2>1 DEF AfterPurchase, Statuses
  <2> QED
    BY <2>2, StatusThere
<1> HIDE DEF after
<1>10. /\ listing' \in [Places -> Listing] /\ listing'[sale] # NoListing
       /\ \A s \in Places : s # sale => listing'[s] = listing[s]
  BY <1>1, <1>7, <1>9 DEF TypeOK, after
<1>11. TypeOK'
  BY <1>1, <1>2, <1>3, <1>6, <1>8, <1>10, PassMoves DEF TypeOK
<1>12. Grown
  BY <1>1, <1>3, <1>8, <1>10 DEF Grown
<1>13. HandInv'
  BY <1>1, <1>2, <1>3, <1>6, <1>8, <1>12, HandPassed
<1>14. SaleInv' /\ ListingInv'
  BY <1>3, <1>4, <1>10 DEF LedgerInv, SaleInv, ListingInv, LogsOf
<1>15. MarketAtomic'
  <2>1. sale \in snapshots
    BY <1>4, <1>7 DEF LedgerInv, MarketAtomic
  <2> QED
    BY <1>1, <1>3, <1>4, <1>6, <1>10, <2>1, ChainTyped
       DEF LedgerInv, MarketAtomic
<1>16. RefundHasRow'
  BY <1>3, <1>4, <1>10, <1>11, <1>12, RefundKept
<1> QED
  BY <1>11, <1>13, <1>14, <1>15, <1>16 DEF LedgerInv

\* The listing is closed and the seller's row credited together.
LEMMA CommitCancelledKeeps ==
  ASSUME Inv, CommitCancelled PROVE Inv'
<1> DEFINE k == "CancelledResellTicket"
           refund == local[k].listing.remaining
<1> USE DEF Inv
<1>1. PICK p \in DOMAIN chain :
        /\ At(k, p) /\ Pass(k, p) /\ snapshots' = snapshots \cup {p}
        /\ listing' = [listing EXCEPT ![chain[p].sale].status = "closed"]
        /\ \E r \in RowsOf(chain[chain[p].sale].wallet) :
             PutQuantity(r, tickets[r].quantity + refund)
  BY DEF CommitCancelled
<1> DEFINE sale == chain[p].sale
<1>2. k \in Kinds /\ phase[k] = "commit"
  BY DEF Kinds, CommitCancelled
<1>3. /\ UNCHANGED <<chain, users, firstSales, purchases, credited>>
      /\ blame' \subseteq blame \cup Causes
  BY DEF CommitCancelled, Causes
<1>4. local[k].listing # NoListing /\ listing[sale] # NoListing
  BY <1>1, <1>2, AtUnique DEF LedgerInv, HandInv, InHand
<1>5. refund \in Int
  BY <1>2, <1>4, LocalTyped, ListingThere
<1>6. p \in 0 .. MaxLogs /\ p \in Places /\ chain[p].kind = k
  BY <1>1, <1>2, AtIsLog
<1>7. sale \in Places
  BY <1>6, ChainTyped DEF LedgerInv, SaleInv, LogsOf
<1> HIDE DEF refund
<1>8. PICK r \in DOMAIN tickets : PutQuantity(r, tickets[r].quantity + refund)
  BY <1>1 DEF RowsOf
<1>9. /\ tickets' \in Seq(Ticket) /\ Len(tickets') = Len(tickets)
      /\ \A q \in DOMAIN tickets : tickets'[q].owner = tickets[q].owner
  <2>1. tickets[r].quantity + refund \in Int
    BY <1>5, TicketsTyped
  <2> QED
    BY <1>8, <2>1, PutKeeps
<1>10. /\ listing' \in [Places -> Listing] /\ listing'[sale] # NoListing
       /\ \A s \in Places : s # sale => listing'[s] = listing[s]
  <2> DEFINE closed == [listing[sale] EXCEPT !.status = "closed"]
  <2>0. listing[sale] \in [remaining : Int, status : Statuses]
    BY <1>4, <1>7, ListingThere DEF TypeOK
  <2>1. closed \in [remaining : Int, status : Statuses]
    BY <2>0 DEF Statuses
  <2>2. closed \in Listing /\ closed # NoListing
    BY <2>1, StatusThere
  <2>3. listing' = [listing EXCEPT ![sale] = closed]
    BY <1>1
  <2> HIDE DEF closed
  <2> QED
    BY <1>7, <2>2, <2>3 DEF TypeOK
<1>11. TypeOK'
  BY <1>1, <1>2, <1>3, <1>6, <1>9, <1>10, PassMoves DEF TypeOK
<1>12. Grown
  BY <1>1, <1>3, <1>9, <1>10, TicketsTyped DEF Grown
<1>13. HandInv'
  BY <1>1, <1>2, <1>3, <1>6, <1>9, <1>12, HandPassed
<1>14. SaleInv' /\ ListingInv'
  BY <1>3, <1>4, <1>10 DEF LedgerInv, SaleInv, ListingInv, LogsOf
<1>15. MarketAtomic'
  BY <1>1, <1>3, <1>4, <1>6, <1>10, ChainTyped DEF LedgerInv, MarketAtomic
<1>16. RefundHasRow'
  BY <1>3, <1>4, <1>10, <1>11, <1>12, RefundKept
<1> QED
  BY <1>11, <1>13, <1>14, <1>15, <1>16 DEF LedgerInv

-------------------------------------------------------------------------------
\* Nothing is recorded, listed or in hand at first.
LEMMA InitInv == Init => Inv
<1> SUFFICES ASSUME Init PROVE Inv
  OBVIOUS
<1>1. TypeOK
  BY NothingTyped, EmptySeq DEF Init, TypeOK, Phases
<1>2. SaleInv /\ MarketAtomic
  BY DEF Init, SaleInv, MarketAtomic
<1>3. ListingInv /\ RefundHasRow /\ HandInv
  BY NothingTyped, EmptySeq DEF Init, ListingInv, RefundHasRow, HandInv
<1> QED
  BY <1>1, <1>2, <1>3 DEF Inv, LedgerInv

\* What the jobs have in hand, the tables and the snapshots fit together at
\* every await of every handler (the four handle...Event methods).
THEOREM LedgerInvariant == Spec => []Inv
<1>1. Inv /\ [Next]_vars => Inv'
  <2> SUFFICES ASSUME Inv, [Next]_vars PROVE Inv'
    OBVIOUS
  <2>1. CASE Contracts \/ Register
    BY <2>1, ContractsKeep, RegisterKeeps
  <2>2. CASE Handlers
    BY <2>2, SaveSnapshotKeeps, SaveFirstSaleKeeps, FindBuyerTicketKeeps,
       CreditBuyerKeeps, FindSellerTicketKeeps, CommitResoldKeeps,
       FindSaleKeeps, FindPurchaserTicketKeeps, CommitBoughtKeeps,
       CommitCancelledKeeps DEF Handlers
  <2>3. ASSUME NEW k \in Kinds, SkipRecorded(k) \/ Lose(k) PROVE Inv'
    BY <2>3, SkipKeeps DEF SkipRecorded, Lose
  <2>4. ASSUME NEW k \in Kinds, Abort(k) \/ Rewind(k) PROVE Inv'
    BY <2>4, AbortKeeps, RewindKeeps
  <2>5. CASE UNCHANGED vars
    <3>1. HandInv'
      BY <2>5 DEF vars, Inv, LedgerInv, HandInv, InHand, At, LogsOf, RowsOf
    <3>2. TypeOK'
      BY <2>5 DEF vars, Inv, TypeOK
    <3> QED
      BY <2>5, <3>1, <3>2, QuietKeeps DEF vars, db, Inv
  <2> QED
    BY <2>1, <2>2, <2>3, <2>4, <2>5 DEF Next
<1> QED
  BY InitInv, <1>1, PTL DEF Spec

\* The tables keep their types; above all a sale row or a credit never exists
\* without the snapshot that keeps its log from being handled twice.
THEOREM LedgerTypes == Spec => []TypeOK
<1>1. Inv => TypeOK
  BY DEF Inv
<1> QED
  BY <1>1, LedgerInvariant, PTL

\* A marketplace handler's rows and its snapshot are there together or not at
\* all, for any number of logs, losses, rewinds and interruptions
\* (handleResoldTicketEvent, handleBoughtTicketEvent).
THEOREM MarketAtomicAlways == Spec => []MarketAtomic
<1>1. Inv => MarketAtomic
  BY DEF Inv, LedgerInv
<1> QED
  BY <1>1, LedgerInvariant, PTL

\* A cancellation finds the seller's ticket row, whatever the other jobs do
\* between its awaits (handleCancelledResellTicketEvent).
THEOREM RefundHasRowAlways == Spec => []RefundHasRow
<1>1. Inv => RefundHasRow
  BY DEF Inv, LedgerInv
<1> QED
  BY <1>1, LedgerInvariant, PTL

-------------------------------------------------------------------------------
(* The further layers of the invariant. *)

\* The contract never sells more of a listing than is on sale, and of a
\* cancelled one something is left.
SalesInv ==
  \A s \in LogsOf("ResoldTicket") :
    OnSale(s) >= 0 /\ (Cancelled(s) => OnSale(s) > 0)

\* Amounts are positive; a listing is cancelled once, by its seller.
LogsInv ==
  /\ \A p \in DOMAIN chain :
       chain[p].kind # "CancelledResellTicket" => Amount(p) > 0
  /\ \A p \in LogsOf("CancelledResellTicket") :
       /\ chain[p].wallet = chain[chain[p].sale].wallet
       /\ \A q \in LogsOf("CancelledResellTicket") :
            chain[q].sale = chain[p].sale => q = p

\* First sales are rows of first sales' logs, and a cancellation is recorded
\* after the listing it cancels.
RecordInv ==
  /\ firstSales \subseteq LogsOf("TicketSold")
  /\ \A p \in snapshots :
       chain[p].kind = "CancelledResellTicket" => chain[p].sale \in snapshots

\* The log a job has in hand is one it has not applied yet.
FreshInv ==
  \A k \in Kinds, p \in DOMAIN chain :
    phase[k] # "idle" /\ At(k, p) =>
      p \notin (IF k = "TicketSold" THEN credited ELSE snapshots)

\* What handleTicketSoldEvent found for the log at p: a row of the buyer, if
\* it found the buyer.
SoldRead(p) ==
  LET read == local["TicketSold"] IN
  phase["TicketSold"] = "write" /\ read.owner # NoOwner =>
    /\ read.owner = chain[p].wallet
    /\ read.row # 0 => read.row \in RowsOf(read.owner)

\* What handleBoughtTicketEvent found for the log at p: the remainder that
\* the listing still has, and a row of the purchaser.
BoughtRead(p) ==
  LET read == local["BoughtTicket"]
      now == listing[chain[p].sale]
  IN  /\ read.listing.remaining = now.remaining
      /\ read.listing.status = "sold" <=> read.listing.remaining = 0
      /\ phase["BoughtTicket"] = "commit" /\ read.row # 0 =>
           read.row \in RowsOf(chain[p].wallet)

\* What handleCancelledResellTicketEvent found for the log at p: no less
\* than now remains, since purchases in between only take.
CancelledRead(p) ==
  listing[chain[p].sale].remaining
    <= local["CancelledResellTicket"].listing.remaining

\* No quantity is negative, in a row or in hand.
SignInv ==
  /\ NeverNegative
  /\ \A k \in Kinds :
       local[k].quantity >= 0 /\ local[k].listing.remaining >= 0

\* Without a purchase that wrote back an old status, the closed listings are
\* those whose cancellation is recorded.
ClosedInv ==
  "reopened" \notin blame =>
    \A s \in snapshots \cap LogsOf("ResoldTicket") :
      listing[s].status = "closed" <=> RecordedCancel(s)

\* StatusInv, of one listing.
StatusFor(s) ==
  /\ listing[s].status = "closed" => RecordedCancel(s)
  /\ RecordedCancel(s) /\ listing[s].status # "closed"
       => BoughtFrom(s) \cap snapshots # {}

\* What the purchase in hand has read as closed has been cancelled.
BoughtStatusInv ==
  \A p \in DOMAIN chain :
    phase["BoughtTicket"] # "idle" /\ At("BoughtTicket", p) =>
      (local["BoughtTicket"].listing.status = "closed" =>
         RecordedCancel(chain[p].sale))

\* Whatever was written back: closed listings have been cancelled, and
\* cancelled ones that are not closed have been bought from.
StatusInv ==
  /\ \A s \in snapshots \cap LogsOf("ResoldTicket") : StatusFor(s)
  /\ BoughtStatusInv

\* Without a refund of a remainder that purchases were still to lower, a
\* cancelled listing remains at what the contract had left of it.
RefundInv ==
  "early refund" \notin blame =>
    \A p \in snapshots : chain[p].kind = "CancelledResellTicket" =>
      listing[chain[p].sale].remaining = OnSale(chain[p].sale)

\* The amounts of the logs, as a function to sum.
amountOf == [p \in DOMAIN chain |-> Amount(p)]

\* Total is the sum of amountOf.  The statement is a definition of its own so
\* that it can be primed.
TotalSums ==
  \A S \in SUBSET DOMAIN chain :
    IsFiniteSet(S) /\ (\A p \in S : Amount(p) \in Int) => Total(S) = Sum(amountOf, S)

\* Total, an operator passed to MapThenSumSet, is a Sum of a function, to
\* which the lemmas on sums apply (Total of TicketLedger).
LEMMA TotalIsSum == TotalSums
<1> SUFFICES ASSUME NEW S \in SUBSET DOMAIN chain, IsFiniteSet(S),
                    \A p \in S : Amount(p) \in Int
             PROVE  Total(S) = Sum(amountOf, S)
  BY DEF TotalSums
<1> DEFINE Body(g) == [s \in SUBSET S |->
              IF s = {} THEN 0 ELSE Amount(First(s)) + g[s \ {First(s)}]]
<1>1. Total(S) = (CHOOSE g : g = Body(g))[S]
  BY Zenon DEF Total, MapThenSumSet, MapThenFoldSet, First
<1>2. \A g : Body(g) = SumBody(g, amountOf, S)
  BY FirstIn DEF amountOf, SumBody
<1>3. \E h : h = SumBody(h, amountOf, S)
  BY SumBodyExists DEF amountOf
<1>4. PICK c : c = SumBody(c, amountOf, S) /\ Total(S) = c[S]
  <2> HIDE DEF Body
  <2> QED
    BY <1>1, <1>2, <1>3
<1> QED
  BY <1>4, SumBodyIs DEF amountOf

\* The same in the next state.
LEMMA TotalIsSumNext == TotalSums'
BY TotalIsSum, PTL

\* Any set of logs is finite and its amounts are numbers.
LEMMA AmountsTyped ==
  ASSUME TypeOK
  PROVE  \A S \in SUBSET DOMAIN chain :
           IsFiniteSet(S) /\ \A p \in S : amountOf[p] = Amount(p) /\ Amount(p) \in Nat
<1>1. IsFiniteSet(DOMAIN chain)
  BY ChainTyped, FS_Interval
<1> QED
  BY <1>1, ChainTyped, FS_Subset DEF amountOf

\* The total of any set of logs is a number.
LEMMA TotalIs ==
  ASSUME TypeOK, NEW S \in SUBSET DOMAIN chain
  PROVE  Total(S) = Sum(amountOf, S) /\ Total(S) \in Nat
<1>1. IsFiniteSet(S) /\ \A p \in S : amountOf[p] = Amount(p) /\ Amount(p) \in Nat
  BY AmountsTyped
<1>2. Total(S) = Sum(amountOf, S)
  BY <1>1, TotalIsSum DEF TotalSums
<1>3. Sum(amountOf, S) \in Nat
  BY <1>1, SumNat
<1> QED
  BY <1>2, <1>3

\* No logs, no tickets.
LEMMA TotalEmpty == TypeOK => Total({}) = 0
BY TotalIs, SumEmpty

\* One more log adds its amount.
LEMMA TotalAdd ==
  ASSUME TypeOK, NEW S \in SUBSET DOMAIN chain, NEW p \in DOMAIN chain \ S
  PROVE  Total(S \cup {p}) = Amount(p) + Total(S)
<1>1. /\ IsFiniteSet(S)
      /\ \A q \in S \cup {p} : amountOf[q] = Amount(q) /\ amountOf[q] \in Int
  BY AmountsTyped, S \cup {p} \in SUBSET DOMAIN chain
<1>2. Sum(amountOf, S \cup {p}) = amountOf[p] + Sum(amountOf, S)
  BY <1>1, SumAdd
<1> QED
  BY <1>1, <1>2, TotalIs

\* TotalAdd for all sets and logs, to be primed.
TotalAdds ==
  TypeOK => \A S \in SUBSET DOMAIN chain : \A p \in DOMAIN chain \ S :
              Total(S \cup {p}) = Amount(p) + Total(S)

\* The same in the next state.
LEMMA TotalAddNext == TotalAdds'
<1>1. TotalAdds
  BY TotalAdd DEF TotalAdds
<1> QED
  BY <1>1, PTL

\* The total of a set is that of a part and of the rest.
LEMMA TotalSplit ==
  ASSUME TypeOK, NEW S \in SUBSET DOMAIN chain, NEW T \in SUBSET S
  PROVE  Total(S) = Total(T) + Total(S \ T)
<1>1. IsFiniteSet(S) /\ \A q \in S : amountOf[q] \in Int
  BY AmountsTyped
<1>2. Sum(amountOf, S) = Sum(amountOf, T) + Sum(amountOf, S \ T)
  BY <1>1, SumUnion
<1> QED
  BY <1>2, TotalIs

\* A part totals no more, not even with one of the other logs.
LEMMA TotalSubset ==
  ASSUME TypeOK, NEW S \in SUBSET DOMAIN chain, NEW T \in SUBSET S
  PROVE  /\ Total(T) <= Total(S)
         /\ \A p \in S \ T : Total(T) + Amount(p) <= Total(S)
<1>1. Total(S) \in Nat /\ Total(T) \in Nat /\ Total(S \ T) \in Nat
  BY TotalIs
<1>2. Total(S) = Total(T) + Total(S \ T)
  BY TotalSplit
<1>3. ASSUME NEW p \in S \ T
      PROVE  Amount(p) <= Total(S \ T) /\ Amount(p) \in Nat
  <2>1. Total(((S \ T) \ {p}) \cup {p}) = Amount(p) + Total((S \ T) \ {p})
    BY TotalAdd
  <2>2. ((S \ T) \ {p}) \cup {p} = S \ T
    OBVIOUS
  <2>3. Total((S \ T) \ {p}) \in Nat /\ Amount(p) \in Nat
    BY TotalIs, AmountsTyped
  <2> QED
    BY <1>1, <2>1, <2>2, <2>3
<1> QED
  BY <1>1, <1>2, <1>3

\* As long as logs stay what they are, so do their totals.
LEMMA TotalKept ==
  ASSUME TypeOK, TypeOK',
         \A p \in DOMAIN chain : p \in DOMAIN chain' /\ chain'[p] = chain[p]
  PROVE  \A S \in SUBSET DOMAIN chain : Total(S)' = Total(S)
<1> TAKE S \in SUBSET DOMAIN chain
<1>1. IsFiniteSet(S) /\ \A p \in S : amountOf[p] = Amount(p) /\ Amount(p) \in Nat
  BY AmountsTyped
<1>2. \A p \in S : Amount(p)' = Amount(p)
  BY DEF Amount
<1>3. \A p \in S : amountOf'[p] = amountOf[p]
  BY <1>1, <1>2 DEF amountOf
<1>4. Total(S)' = Sum(amountOf', S)
  <2>1. S \in SUBSET DOMAIN chain' /\ \A p \in S : Amount(p)' \in Int
    BY <1>1, <1>2
  <2> QED
    BY <1>1, <2>1, TotalIsSumNext DEF TotalSums
<1>5. Sum(amountOf', S) = Sum(amountOf, S)
  BY <1>1, <1>3, SumSame
<1> QED
  BY <1>4, <1>5, TotalIs

\* A log that is emitted leaves the places before it as they were.
LEMMA EmitGrows ==
  ASSUME TypeOK, NEW e \in Event, Emit(e)
  PROVE  LET n == Len(chain) + 1 IN
         /\ n \in Nat \ {0} /\ n \notin DOMAIN chain
         /\ DOMAIN chain' = DOMAIN chain \cup {n}
         /\ \A p \in DOMAIN chain : chain'[p] = chain[p]
         /\ chain'[n] = e
<1>1. /\ chain' \in Seq(Event) /\ Len(chain') = Len(chain) + 1
      /\ \A i \in 1 .. Len(chain) : chain'[i] = chain[i]
      /\ chain'[Len(chain) + 1] = e
  BY AppendProperties DEF TypeOK, Emit
<1>2. DOMAIN chain = 1 .. Len(chain) /\ DOMAIN chain' = 1 .. Len(chain')
      /\ Len(chain) \in Nat
  BY <1>1, LenProperties DEF TypeOK
<1> QED
  BY <1>1, <1>2

\* What the contracts check before they emit a log (FirstSell, ResellTicket,
\* BuyTicket, CancelResellTicket).
Checked(e) ==
  /\ e.kind # "CancelledResellTicket" => e.amount > 0
  /\ e.kind = "ResoldTicket" => e.sale = Len(chain) + 1
  /\ e.kind = "BoughtTicket" =>
       /\ e.sale \in LogsOf("ResoldTicket") /\ ~Cancelled(e.sale)
       /\ e.amount <= OnSale(e.sale)
  /\ e.kind = "CancelledResellTicket" =>
       /\ e.sale \in LogsOf("ResoldTicket") /\ ~Cancelled(e.sale)
       /\ OnSale(e.sale) > 0 /\ e.wallet = chain[e.sale].wallet

\* Every action of the contracts emits a log with these checks.
LEMMA ContractsCheck ==
  ASSUME TypeOK, Contracts
  PROVE  \E e \in Event : Emit(e) /\ Checked(e)
<1>1. \A s \in LogsOf("ResoldTicket") : s \in 0 .. MaxLogs
  BY ChainTyped DEF LogsOf, Places
<1>2. \A n \in Amounts : n \in Nat /\ n > 0
  OBVIOUS
<1>3. CASE FirstSell
  <2>1. PICK w \in Wallets, n \in Amounts :
          Emit([kind |-> "TicketSold", sale |-> 0, wallet |-> w, amount |-> n])
    BY <1>3 DEF FirstSell
  <2> DEFINE e == [kind |-> "TicketSold", sale |-> 0, wallet |-> w, amount |-> n]
  <2>2. e \in Event /\ Checked(e)
    BY <1>2 DEF Event, Kinds, Checked
  <2> QED
    BY <2>1, <2>2
<1>4. CASE ResellTicket
  <2>1. PICK w \in Wallets, n \in Amounts :
          Emit([kind |-> "ResoldTicket", sale |-> Len(chain) + 1, wallet |-> w,
                amount |-> n])
    BY <1>4 DEF ResellTicket
  <2> DEFINE e == [kind |-> "ResoldTicket", sale |-> Len(chain) + 1,
                   wallet |-> w, amount |-> n]
  <2>2. Len(chain) + 1 \in 0 .. MaxLogs
    BY <2>1, ChainTyped DEF Emit
  <2>3. e \in Event /\ Checked(e)
    BY <1>2, <2>2 DEF Event, Kinds, Checked
  <2> QED
    BY <2>1, <2>3
<1>5. CASE BuyTicket
  <2>1. PICK s \in LogsOf("ResoldTicket"), w \in Wallets, n \in Amounts :
          /\ ~Cancelled(s) /\ n <= OnSale(s)
          /\ Emit([kind |-> "BoughtTicket", sale |-> s, wallet |-> w,
                   amount |-> n])
    BY <1>5 DEF BuyTicket
  <2> DEFINE e == [kind |-> "BoughtTicket", sale |-> s, wallet |-> w,
                   amount |-> n]
  <2>2. e \in Event
    BY <1>1 DEF Event, Kinds
  <2>3. Checked(e)
    BY <1>2, <2>1 DEF Checked
  <2> QED
    BY <2>1, <2>2, <2>3
<1>6. CASE CancelResellTicket
  <2>1. PICK s \in LogsOf("ResoldTicket") :
          /\ ~Cancelled(s) /\ OnSale(s) > 0
          /\ Emit([kind |-> "CancelledResellTicket", sale |-> s,
                   wallet |-> chain[s].wallet, amount |-> 0])
    BY <1>6 DEF CancelResellTicket
  <2> DEFINE e == [kind |-> "CancelledResellTicket", sale |-> s,
                   wallet |-> chain[s].wallet, amount |-> 0]
  <2>2. chain[s].wallet \in Wallets
    BY ChainTyped DEF LogsOf
  <2>3. e \in Event
    BY <1>1, <2>2 DEF Event, Kinds
  <2>4. Checked(e)
    BY <2>1 DEF Checked
  <2> QED
    BY <2>1, <2>3, <2>4
<1> QED
  BY <1>3, <1>4, <1>5, <1>6 DEF Contracts

\* The chain grows by a log that the contracts have checked, or stays.
LEMMA ChainSteps ==
  ASSUME TypeOK, [Next]_vars
  PROVE  UNCHANGED chain \/ \E e \in Event : Emit(e) /\ Checked(e)
<1>1. CASE Contracts
  BY <1>1, ContractsCheck
<1>2. CASE Register
  BY <1>2 DEF Register
<1>3. CASE Handlers
  BY <1>3 DEF Handlers, SaveSnapshot, SaveFirstSale, FindBuyerTicket, CreditBuyer,
     FindSellerTicket, CommitResold, FindSale, FindPurchaserTicket, CommitBought,
     FindCancelledSale, CommitCancelled
<1>4. CASE \E k \in Kinds : SkipRecorded(k) \/ Lose(k) \/ Abort(k) \/ Rewind(k)
  BY <1>4 DEF SkipRecorded, Lose, Abort, Rewind
<1>5. CASE UNCHANGED vars
  BY <1>5 DEF vars
<1> QED
  BY <1>1, <1>2, <1>3, <1>4, <1>5 DEF Next

\* Whatever happens, the logs that are there stay, and so does what is summed
\* over them.
LEMMA PlacesKept ==
  ASSUME TypeOK, TypeOK', [Next]_vars
  PROVE  /\ DOMAIN chain \subseteq DOMAIN chain'
         /\ \A p \in DOMAIN chain : chain'[p] = chain[p]
         /\ \A S \in SUBSET DOMAIN chain : Total(S)' = Total(S)
<1>1. \A p \in DOMAIN chain : p \in DOMAIN chain' /\ chain'[p] = chain[p]
  <2>1. CASE UNCHANGED chain
    BY <2>1
  <2>2. ASSUME NEW e \in Event, Emit(e)
        PROVE  \A p \in DOMAIN chain : p \in DOMAIN chain' /\ chain'[p] = chain[p]
    BY <2>2, EmitGrows
  <2> QED
    BY <2>1, <2>2, ChainSteps
<1> QED
  BY <1>1, TotalKept

\* The amount of a log is a number.
LEMMA EventTyped ==
  \A e \in Event : e.amount \in Nat /\ e.amount \in Int
<1>1. \A n \in Amounts \cup {0} : n \in Nat /\ n \in Int
  OBVIOUS
<1> QED
  BY <1>1 DEF Event

\* Purchases are logs of the chain.
LEMMA BoughtIn ==
  \A s : BoughtFrom(s) \in SUBSET DOMAIN chain
BY DEF BoughtFrom, LogsOf

\* What is on sale, as a difference of two numbers.
LEMMA OnSaleTyped ==
  ASSUME TypeOK, NEW s \in DOMAIN chain
  PROVE  /\ OnSale(s) \in Int /\ Amount(s) \in Nat
         /\ OnSale(s) = Amount(s) - Total(BoughtFrom(s))
         /\ Total(BoughtFrom(s)) \in Nat
<1>1. Total(BoughtFrom(s)) \in Nat
  BY TotalIs, BoughtIn
<1>2. Amount(s) \in Nat
  BY ChainTyped
<1> QED
  BY <1>1, <1>2 DEF OnSale

\* As long as no log is added, what is on sale does not change.
LEMMA OnSaleKept ==
  ASSUME TypeOK, TypeOK', [Next]_vars, UNCHANGED chain
  PROVE  \A s \in DOMAIN chain :
           /\ BoughtFrom(s)' = BoughtFrom(s) /\ OnSale(s)' = OnSale(s)
           /\ Amount(s)' = Amount(s) /\ Cancelled(s)' = Cancelled(s)
<1> TAKE s \in DOMAIN chain
<1>1. BoughtFrom(s)' = BoughtFrom(s) /\ Amount(s)' = Amount(s)
  BY DEF BoughtFrom, LogsOf, Amount
<1>2. Cancelled(s)' = Cancelled(s)
  BY DEF Cancelled, LogsOf
<1>3. PICK B : B = BoughtFrom(s)
  OBVIOUS
<1>4. Total(B)' = Total(B)
  BY <1>3, PlacesKept, BoughtIn
<1>5. OnSale(s)' = OnSale(s)
  BY <1>1, <1>3, <1>4 DEF OnSale
<1> QED
  BY <1>1, <1>2, <1>5

\* A new log takes from the listing it buys from, and from no other.
LEMMA OnSaleEmitted ==
  ASSUME Inv, TypeOK', NEW e \in Event, Emit(e), Checked(e), [Next]_vars
  PROVE  LET n == Len(chain) + 1 IN
         \A s \in LogsOf("ResoldTicket")' :
           /\ s = n => OnSale(s)' = e.amount /\ ~Cancelled(s)'
           /\ s # n => s \in LogsOf("ResoldTicket")
           /\ s # n =>
                OnSale(s)' = OnSale(s) -
                  (IF e.kind = "BoughtTicket" /\ e.sale = s THEN e.amount ELSE 0)
           /\ s # n =>
                (Cancelled(s)' <=> \/ Cancelled(s)
                                   \/ e.kind = "CancelledResellTicket" /\ e.sale = s)
<1>0. PICK n : n = Len(chain) + 1
  OBVIOUS
<1> USE DEF Inv
<1>1. /\ n \notin DOMAIN chain /\ DOMAIN chain' = DOMAIN chain \cup {n}
      /\ \A p \in DOMAIN chain : chain'[p] = chain[p]
      /\ chain'[n] = e
  BY <1>0, EmitGrows
<1> SUFFICES ASSUME NEW s \in LogsOf("ResoldTicket")'
             PROVE  /\ s = n => OnSale(s)' = e.amount /\ ~Cancelled(s)'
                    /\ s # n => s \in LogsOf("ResoldTicket")
                    /\ s # n => OnSale(s)' = OnSale(s) -
                         (IF e.kind = "BoughtTicket" /\ e.sale = s
                          THEN e.amount ELSE 0)
                    /\ s # n => (Cancelled(s)' <=> Cancelled(s) \/
                         (e.kind = "CancelledResellTicket" /\ e.sale = s))
  BY <1>0
<1>2. \A p \in DOMAIN chain :
        chain[p].kind \in {"BoughtTicket", "CancelledResellTicket"} =>
          chain[p].sale \in DOMAIN chain
  BY DEF LedgerInv, SaleInv, LogsOf
<1>3. BoughtFrom(s)' = BoughtFrom(s) \cup
        (IF e.kind = "BoughtTicket" /\ e.sale = s THEN {n} ELSE {})
  BY <1>1 DEF BoughtFrom, LogsOf
<1>4. Cancelled(s)' <=> Cancelled(s) \/
                         (e.kind = "CancelledResellTicket" /\ e.sale = s)
  BY <1>1 DEF Cancelled, LogsOf
<1>5. Amount(n)' = e.amount /\ \A p \in DOMAIN chain : Amount(p)' = Amount(p)
  BY <1>1 DEF Amount
<1>6. CASE s = n
  <2>1. e.kind = "ResoldTicket"
    BY <1>1, <1>6 DEF LogsOf
  <2>2. BoughtFrom(s) = {} /\ ~Cancelled(s)
    BY <1>1, <1>2, <1>6 DEF BoughtFrom, Cancelled, LogsOf
  <2>3. BoughtFrom(s)' = {} /\ ~Cancelled(s)'
    BY <2>1, <2>2, <1>3, <1>4
  <2>4. Total({})' = 0
    BY TotalEmpty, PlacesKept
  <2>5. e.amount \in Int
    BY EventTyped
  <2>6. OnSale(s)' = e.amount
    BY <1>5, <1>6, <2>3, <2>4, <2>5 DEF OnSale
  <2> QED
    BY <1>6, <2>3, <2>6
<1>7. CASE s # n
  <2>1. s \in LogsOf("ResoldTicket") /\ s \in DOMAIN chain
    BY <1>1, <1>7 DEF LogsOf
  <2>2. PICK B \in SUBSET DOMAIN chain : B = BoughtFrom(s)
    BY BoughtIn
  <2>3. Total(B)' = Total(B) /\ Total(B) \in Nat /\ Amount(s) \in Nat
    BY PlacesKept, TotalIs, ChainTyped, <2>1
  <2>4. OnSale(s) = Amount(s) - Total(B)
    BY <2>2 DEF OnSale
  <2>5. CASE e.kind = "BoughtTicket" /\ e.sale = s
    <3>1. PICK C : C = B \cup {n}
      OBVIOUS
    <3>2. Total(C)' = Amount(n)' + Total(B)'
      <4>1. B \in SUBSET DOMAIN chain' /\ n \in DOMAIN chain' \ B
        BY <1>1
      <4> QED
        BY <3>1, <4>1, TotalAddNext DEF TotalAdds
    <3>3. BoughtFrom(s)' = C
      BY <1>3, <2>2, <2>5, <3>1
    <3>4. OnSale(s)' = Amount(s)' - Total(C)'
      BY <3>3 DEF OnSale
    <3>5. e.amount \in Int
      BY EventTyped
    <3>6. OnSale(s)' = OnSale(s) - e.amount
      BY <1>5, <2>1, <2>3, <2>4, <3>2, <3>4, <3>5
    <3> QED
      BY <1>4, <1>7, <2>1, <2>5, <3>6
  <2>6. CASE ~ (e.kind = "BoughtTicket" /\ e.sale = s)
    <3>1. BoughtFrom(s)' = B
      BY <1>3, <2>2, <2>6
    <3>2. OnSale(s)' = Amount(s)' - Total(B)'
      BY <3>1 DEF OnSale
    <3>3. OnSale(s)' = OnSale(s) - 0
      BY <1>5, <2>1, <2>3, <2>4, <3>2
    <3> QED
      BY <1>4, <1>7, <2>1, <2>6, <3>3
  <2> QED
    BY <2>5, <2>6
<1> QED
  BY <1>6, <1>7

-------------------------------------------------------------------------------
(* What the contracts guarantee of their logs. *)

\* The second layer: nothing but the contracts' checks.
ChainInv == SalesInv /\ LogsInv

\* Purchases never exceed a listing, and a cancelled one had something left and
\* is cancelled once.
LEMMA ChainInvStep ==
  ASSUME Inv, Inv', ChainInv, [Next]_vars
  PROVE  ChainInv'
<1> USE DEF Inv
<1>1. CASE UNCHANGED chain
  <2>1. \A k : LogsOf(k)' = LogsOf(k) /\ LogsOf(k) \subseteq DOMAIN chain
    BY <1>1 DEF LogsOf
  <2>2. SalesInv'
    BY <1>1, <2>1, OnSaleKept DEF ChainInv, SalesInv
  <2>3. LogsInv'
    BY <1>1, <2>1 DEF ChainInv, LogsInv, Amount
  <2> QED
    BY <2>2, <2>3 DEF ChainInv
<1>2. ASSUME NEW e \in Event, Emit(e), Checked(e)
      PROVE  ChainInv'
  <2>0. PICK n : n = Len(chain) + 1
    OBVIOUS
  <2>1. /\ n \notin DOMAIN chain /\ DOMAIN chain' = DOMAIN chain \cup {n}
        /\ \A p \in DOMAIN chain : chain'[p] = chain[p]
        /\ chain'[n] = e
    BY <1>2, <2>0, EmitGrows
  <2>2. SalesInv'
    <3>1. ASSUME NEW s \in LogsOf("ResoldTicket")'
          PROVE  OnSale(s)' >= 0 /\ (Cancelled(s)' => OnSale(s)' > 0)
      <4>0. e.amount \in Nat /\ s \in LogsOf("ResoldTicket")'
        BY EventTyped
      <4>1. CASE s = n
        BY <1>2, <2>0, <4>0, <4>1, OnSaleEmitted
      <4>2. CASE s # n
        <5>1. /\ s \in LogsOf("ResoldTicket") /\ s \in DOMAIN chain
              /\ OnSale(s)' = OnSale(s) -
                  (IF e.kind = "BoughtTicket" /\ e.sale = s THEN e.amount ELSE 0)
              /\ Cancelled(s)' <=> \/ Cancelled(s)
                                   \/ e.kind = "CancelledResellTicket" /\ e.sale = s
          BY <1>2, <2>0, <4>0, <4>2, OnSaleEmitted DEF LogsOf
        <5>2. /\ OnSale(s) \in Int /\ OnSale(s) >= 0
              /\ Cancelled(s) => OnSale(s) > 0
          BY <5>1, OnSaleTyped DEF ChainInv, SalesInv
        <5> QED
          BY <1>2, <4>0, <5>1, <5>2 DEF Checked
      <4> QED
        BY <4>1, <4>2
    <3> QED
      BY <3>1 DEF SalesInv
  <2>3. LogsInv'
    <3>1. \A p \in DOMAIN chain' : chain'[p].kind # "CancelledResellTicket" =>
            Amount(p)' > 0
      BY <1>2, <2>1 DEF ChainInv, LogsInv, Checked, Amount
    <3>2. ASSUME NEW p \in LogsOf("CancelledResellTicket")'
          PROVE  chain'[p].wallet = chain'[chain'[p].sale].wallet
      BY <1>2, <2>1 DEF ChainInv, LogsInv, Checked, LogsOf, LedgerInv, SaleInv
    <3>3. ASSUME NEW p \in LogsOf("CancelledResellTicket")',
                 NEW q \in LogsOf("CancelledResellTicket")',
                 chain'[q].sale = chain'[p].sale
          PROVE  q = p
      BY <1>2, <2>1, <3>3 DEF ChainInv, LogsInv, Checked, LogsOf, Cancelled
    <3> QED
      BY <3>1, <3>2, <3>3 DEF LogsInv
  <2> QED
    BY <2>2, <2>3 DEF ChainInv
<1> QED
  BY <1>1, <1>2, ChainSteps

\* The contracts' logs are consistent: amounts are positive, purchases never
\* exceed a listing, and a listing is cancelled once, by its seller, with
\* something left (what the handlers rely on and do not check).
THEOREM ChainInvariant == Spec => []ChainInv
<1>1. Init => ChainInv
  BY DEF Init, ChainInv, SalesInv, LogsInv, LogsOf
<1> QED
  BY <1>1, ChainInvStep, LedgerInvariant, PTL DEF Spec

-------------------------------------------------------------------------------
(* Steps as the other invariants see them. *)

\* What a job has in hand changes only by its own find, or it is put away.
JobKept(k) == phase'[k] = phase[k] /\ local'[k] = local[k] /\ upTo'[k] = upTo[k]

\* The job puts down what it has in hand.
JobRests(k) == phase'[k] = "idle" /\ local'[k] = Nothing

\* A step as the job of kind k sees it: what it has in hand stays, is put
\* down, or is replaced by one of its own finds.
LEMMA JobSteps ==
  ASSUME TypeOK, [Next]_vars
  PROVE  \A k \in Kinds :
           \/ JobKept(k) \/ JobRests(k)
           \/ Rewind(k)
           \/ (k = "TicketSold" /\ (SaveSnapshot \/ SaveFirstSale \/ FindBuyerTicket))
           \/ (k = "ResoldTicket" /\ FindSellerTicket)
           \/ (k = "BoughtTicket" /\ (FindSale \/ FindPurchaserTicket))
           \/ (k = "CancelledResellTicket" /\ FindCancelledSale)
<1> TAKE k \in Kinds
<1> USE DEF Kinds
<1>1. ASSUME NEW j \in Kinds, NEW p, Pass(j, p)
      PROVE  JobKept(k) \/ JobRests(k)
  BY <1>1 DEF Pass, JobKept, JobRests, TypeOK
<1>2. ASSUME NEW j \in Kinds, NEW ph, NEW read, Proceed(j, ph, read), j # k
      PROVE  JobKept(k)
  BY <1>2 DEF Proceed, JobKept, TypeOK
<1>3. CASE Contracts \/ Register \/ UNCHANGED vars
  <2>1. UNCHANGED <<upTo, phase, local>>
    BY <1>3 DEF Contracts, FirstSell, ResellTicket, BuyTicket,
       CancelResellTicket, Emit, Register, vars
  <2> QED
    BY <2>1 DEF JobKept
<1>4. CASE SaveSnapshot
  <2>1. Proceed("TicketSold", "saleRow", Nothing)
    BY <1>4 DEF SaveSnapshot
  <2> QED
    BY <1>2, <1>4, <2>1
<1>5. CASE SaveFirstSale
  <2>1. Proceed("TicketSold", "find", Nothing)
    BY <1>5 DEF SaveFirstSale
  <2> QED
    BY <1>2, <1>5, <2>1
<1>6. CASE FindBuyerTicket
  <2>1. \E read : Proceed("TicketSold", "write", read)
    BY <1>6 DEF FindBuyerTicket
  <2> QED
    BY <1>2, <1>6, <2>1
<1>7. CASE CreditBuyer \/ CommitResold \/ CommitBought \/ CommitCancelled
  <2>1. \E p : \E j \in Kinds : Pass(j, p)
    BY <1>7 DEF CreditBuyer, CommitResold, CommitBought, CommitCancelled
  <2> QED
    BY <1>1, <2>1
<1>8. CASE FindSellerTicket
  <2>1. \E read : Proceed("ResoldTicket", "commit", read)
    BY <1>8 DEF FindSellerTicket
  <2> QED
    BY <1>2, <1>8, <2>1
<1>9. CASE FindSale
  <2>1. \E read : Proceed("BoughtTicket", "ticket", read)
    BY <1>9 DEF FindSale
  <2> QED
    BY <1>2, <1>9, <2>1
<1>10. CASE FindPurchaserTicket
  <2>1. \E read : Proceed("BoughtTicket", "commit", read)
    BY <1>10 DEF FindPurchaserTicket
  <2> QED
    BY <1>2, <1>10, <2>1
<1>11. CASE FindCancelledSale
  <2>1. \E read : Proceed("CancelledResellTicket", "commit", read)
    BY <1>11 DEF FindCancelledSale
  <2> QED
    BY <1>2, <1>11, <2>1
<1>12. ASSUME NEW j \in Kinds, SkipRecorded(j) \/ Lose(j)
       PROVE  JobKept(k) \/ JobRests(k)
  <2>1. \E p : Pass(j, p)
    BY <1>12 DEF SkipRecorded, Lose
  <2> QED
    BY <1>1, <2>1
<1>13. ASSUME NEW j \in Kinds, Abort(j)
       PROVE  JobKept(k) \/ JobRests(k)
  BY <1>13 DEF Abort, Proceed, JobKept, JobRests, TypeOK
<1>14. ASSUME NEW j \in Kinds, Rewind(j), j # k
       PROVE  JobKept(k)
  BY <1>14 DEF Rewind, JobKept, TypeOK
<1> QED
  BY <1>3, <1>4, <1>5, <1>6, <1>7, <1>8, <1>9, <1>10, <1>11, <1>12, <1>13, <1>14
     DEF Next, Handlers

\* The tables are written by six steps.
LEMMA TableSteps ==
  ASSUME [Next]_vars
  PROVE  \/ UNCHANGED <<db, credited, blame>>
         \/ SaveSnapshot \/ SaveFirstSale \/ CreditBuyer
         \/ CommitResold \/ CommitBought \/ CommitCancelled
<1>1. CASE Contracts \/ Register \/ UNCHANGED vars
  BY <1>1 DEF Contracts, FirstSell, ResellTicket, BuyTicket,
     CancelResellTicket, Emit, Register, vars, db
<1>2. CASE FindBuyerTicket \/ FindSellerTicket \/ FindSale
           \/ FindPurchaserTicket \/ FindCancelledSale
  BY <1>2 DEF FindBuyerTicket, FindSellerTicket, FindSale,
     FindPurchaserTicket, FindCancelledSale
<1>3. CASE \E k \in Kinds : SkipRecorded(k) \/ Lose(k) \/ Abort(k) \/ Rewind(k)
  BY <1>3 DEF SkipRecorded, Lose, Abort, Rewind
<1> QED
  BY <1>1, <1>2, <1>3 DEF Next, Handlers

\* A log in hand was in hand before the step, unless its job moved.
LEMMA HandKeeps ==
  ASSUME Inv, Inv', [Next]_vars, NEW k \in Kinds, JobKept(k), phase'[k] # "idle",
         NEW p \in DOMAIN chain', At(k, p)'
  PROVE  p \in DOMAIN chain /\ At(k, p)
<1>1. PICK q \in DOMAIN chain : At(k, q)
  BY DEF Inv, LedgerInv, HandInv, JobKept
<1>2. q \in DOMAIN chain' /\ q \in LogsOf(k)'
  BY <1>1, PlacesKept DEF Inv, At, LogsOf
<1>3. upTo'[k] < q /\ p <= q
  BY <1>1, <1>2 DEF At, JobKept
<1>4. p \in DOMAIN chain
  BY <1>1, <1>3, ChainTyped, PlacesKept DEF Inv, TypeOK
<1>5. At(k, p)
  BY <1>4, PlacesKept DEF Inv, At, LogsOf, JobKept
<1> QED
  BY <1>4, <1>5

-------------------------------------------------------------------------------
(* A log in hand has not been applied. *)

\* What a job that is not idle has in hand.
LEMMA InHandAt ==
  ASSUME Inv, NEW k \in Kinds, NEW p, At(k, p)
  PROVE  /\ p \in DOMAIN chain /\ p \in Places /\ chain[p].kind = k
         /\ phase[k] # "idle" => InHand(k, p)
  BY AtIsLog, AtUnique DEF Inv, LedgerInv, HandInv

\* Purchases and cancellations refer to a listing.
LEMMA SaleThere ==
  ASSUME Inv, NEW p \in DOMAIN chain,
         chain[p].kind \in {"CancelledResellTicket", "BoughtTicket"}
  PROVE  /\ chain[p].sale \in DOMAIN chain /\ chain[p].sale \in Places
         /\ chain[p].sale \in LogsOf("ResoldTicket")
         /\ chain[chain[p].sale].kind = "ResoldTicket"
         /\ listing[chain[p].sale] # NoListing <=> chain[p].sale \in snapshots
<1>1. chain[p].sale \in LogsOf("ResoldTicket")
  BY DEF Inv, LedgerInv, SaleInv
<1>2. /\ chain[p].sale \in DOMAIN chain
      /\ chain[chain[p].sale].kind = "ResoldTicket"
  BY <1>1 DEF LogsOf
<1> QED
  BY <1>1, <1>2, ChainTyped DEF Inv, LedgerInv, MarketAtomic

\* A step records at most the log that its job has in hand.
LEMMA SnapshotsGrow ==
  ASSUME Inv, [Next]_vars
  PROVE  /\ snapshots \subseteq snapshots' /\ credited \subseteq credited'
         /\ \A p \in snapshots' \ snapshots :
              /\ p \in DOMAIN chain
              /\ \/ chain[p].kind = "TicketSold"
                 \/ \E k \in Kinds :
                      phase'[k] = "idle" /\ chain[p].kind = k /\ At(k, p)
         /\ \A p \in credited' \ credited : phase'["TicketSold"] = "idle"
<1> USE DEF Inv
<1>0. phase \in [Kinds -> Phases] /\ \A k \in Kinds : k \in DOMAIN phase
  BY DEF TypeOK
<1>1. CASE UNCHANGED <<db, credited, blame>>
  BY <1>1 DEF db
<1>2. CASE SaveSnapshot
  <2>1. PICK p \in DOMAIN chain :
          At("TicketSold", p) /\ snapshots' = snapshots \cup {p}
    BY <1>2 DEF SaveSnapshot
  <2> QED
    BY <1>2, <2>1, InHandAt DEF SaveSnapshot, Kinds
<1>3. CASE SaveFirstSale
  BY <1>3 DEF SaveFirstSale
<1>4. CASE CreditBuyer
  <2>1. PICK p \in DOMAIN chain :
          Pass("TicketSold", p) /\ credited' = credited \cup {p}
    BY <1>4 DEF CreditBuyer
  <2> QED
    BY <1>0, <1>4, <2>1 DEF CreditBuyer, Pass, Kinds
<1>5. CASE CommitResold
  <2>1. PICK p \in DOMAIN chain :
          /\ At("ResoldTicket", p) /\ Pass("ResoldTicket", p)
          /\ snapshots' = snapshots \cup {p}
    BY <1>5 DEF CommitResold
  <2> QED
    BY <1>0, <1>5, <2>1, InHandAt DEF CommitResold, Pass, Kinds
<1>6. CASE CommitBought
  <2>1. PICK p \in DOMAIN chain :
          /\ At("BoughtTicket", p) /\ Pass("BoughtTicket", p)
          /\ snapshots' = snapshots \cup {p}
    BY <1>6 DEF CommitBought
  <2> QED
    BY <1>0, <1>6, <2>1, InHandAt DEF CommitBought, Pass, Kinds
<1>7. CASE CommitCancelled
  <2>1. PICK p \in DOMAIN chain :
          /\ At("CancelledResellTicket", p) /\ Pass("CancelledResellTicket", p)
          /\ snapshots' = snapshots \cup {p}
    BY <1>7 DEF CommitCancelled
  <2> QED
    BY <1>0, <1>7, <2>1, InHandAt DEF CommitCancelled, Pass, Kinds
<1> QED
  BY <1>1, <1>2, <1>3, <1>4, <1>5, <1>6, <1>7, TableSteps

\* No step applies a log that a job still has in hand: only its own commit
\* does, and it lets go of it.
LEMMA FreshStep ==
  ASSUME Inv, Inv', FreshInv, [Next]_vars
  PROVE  FreshInv'
<1> USE DEF Inv
<1> SUFFICES ASSUME NEW k \in Kinds, NEW p \in DOMAIN chain',
                    phase'[k] # "idle", At(k, p)'
             PROVE  p \notin (IF k = "TicketSold" THEN credited' ELSE snapshots')
  BY DEF FreshInv
<1>1. CASE JobKept(k)
  <2>1. p \in DOMAIN chain /\ At(k, p)
    BY <1>1, HandKeeps
  <2>2. chain[p].kind = k /\ phase[k] # "idle"
    BY <1>1, <2>1, InHandAt DEF JobKept
  <2>3. p \notin (IF k = "TicketSold" THEN credited ELSE snapshots)
    BY <2>1, <2>2 DEF FreshInv
  <2>4. p \in snapshots' \ snapshots => chain[p].kind = "TicketSold"
    BY <2>2, SnapshotsGrow
  <2> QED
    BY <2>2, <2>3, <2>4, SnapshotsGrow
<1>2. ASSUME UNCHANGED <<chain, credited, snapshots>>, upTo' = upTo,
             \E q \in DOMAIN chain :
               At(k, q) /\ q \notin (IF k = "TicketSold" THEN credited ELSE snapshots)
      PROVE  p \notin (IF k = "TicketSold" THEN credited' ELSE snapshots')
  <2>1. PICK q \in DOMAIN chain :
          At(k, q) /\ q \notin (IF k = "TicketSold" THEN credited ELSE snapshots)
    BY <1>2
  <2>2. At(k, p)
    BY <1>2 DEF At, LogsOf
  <2>3. p = q
    BY <2>1, <2>2, AtUnique
  <2> QED
    BY <1>2, <2>1, <2>3
<1>3. ASSUME phase[k] # "idle"
      PROVE  \E q \in DOMAIN chain :
               At(k, q) /\ q \notin (IF k = "TicketSold" THEN credited ELSE snapshots)
  BY <1>3 DEF FreshInv, LedgerInv, HandInv
<1>4. CASE k = "TicketSold" /\ SaveSnapshot
  <2>1. PICK q \in DOMAIN chain \ snapshots : At(k, q)
    BY <1>4 DEF SaveSnapshot
  <2>2. At(k, p)
    BY <1>4 DEF SaveSnapshot, Proceed, At, LogsOf
  <2>3. p = q
    BY <2>1, <2>2, AtUnique
  <2> QED
    BY <1>4, <2>1, <2>3 DEF SaveSnapshot, TypeOK
<1>5. CASE k = "TicketSold" /\ (SaveFirstSale \/ FindBuyerTicket)
  <2>1. phase[k] # "idle" /\ UNCHANGED <<chain, credited, snapshots, upTo>>
    BY <1>5 DEF SaveFirstSale, FindBuyerTicket, Proceed, db
  <2> QED
    BY <1>2, <1>3, <2>1
<1>6. CASE \/ (k = "ResoldTicket" /\ FindSellerTicket)
           \/ (k = "BoughtTicket" /\ FindSale)
           \/ (k = "CancelledResellTicket" /\ FindCancelledSale)
  <2>1. /\ \E q \in DOMAIN chain : At(k, q) /\ q \notin snapshots
        /\ UNCHANGED <<chain, credited, snapshots, upTo>>
    BY <1>6 DEF FindSellerTicket, FindSale, FindCancelledSale, Proceed, db
  <2> QED
    BY <1>2, <1>6, <2>1
<1>7. CASE k = "BoughtTicket" /\ FindPurchaserTicket
  <2>1. phase[k] # "idle" /\ UNCHANGED <<chain, credited, snapshots, upTo>>
    BY <1>7 DEF FindPurchaserTicket, Proceed, db
  <2> QED
    BY <1>2, <1>3, <2>1
<1>8. CASE Rewind(k)
  BY <1>8 DEF Rewind
<1>9. CASE JobRests(k)
  BY <1>9 DEF JobRests
<1> QED
  BY <1>1, <1>4, <1>5, <1>6, <1>7, <1>8, <1>9, JobSteps

\* Rows are added by steps that have their log in hand.
LEMMA RecordStep ==
  ASSUME Inv, Inv', RecordInv, [Next]_vars
  PROVE  RecordInv'
<1> USE DEF Inv
<1>1. firstSales' \subseteq LogsOf("TicketSold")'
  <2>1. LogsOf("TicketSold") \subseteq LogsOf("TicketSold")'
    BY PlacesKept DEF LogsOf
  <2>2. CASE SaveFirstSale
    <3>1. PICK p \in DOMAIN chain :
            At("TicketSold", p) /\ firstSales' = firstSales \cup {p}
      BY <2>2 DEF SaveFirstSale
    <3> QED
      BY <2>1, <3>1 DEF At, RecordInv
  <2>3. CASE ~SaveFirstSale
    <3>1. firstSales' = firstSales
      BY <2>3, TableSteps DEF db, SaveSnapshot, CreditBuyer, CommitResold,
         CommitBought, CommitCancelled
    <3> QED
      BY <2>1, <3>1 DEF RecordInv
  <2> QED
    BY <2>2, <2>3
<1>2. ASSUME NEW p \in snapshots', chain'[p].kind = "CancelledResellTicket"
      PROVE  chain'[p].sale \in snapshots'
  <2>1. p \in DOMAIN chain /\ chain'[p] = chain[p]
    BY SnapshotsGrow, PlacesKept DEF TypeOK
  <2>2. CASE p \in snapshots
    BY <1>2, <2>1, <2>2, SnapshotsGrow DEF RecordInv
  <2>3. CASE p \notin snapshots
    <3>1. PICK k \in Kinds : phase'[k] = "idle" /\ chain[p].kind = k /\ At(k, p)
      BY <1>2, <2>1, <2>3, SnapshotsGrow
    <3>2. k = "CancelledResellTicket"
      BY <1>2, <2>1, <3>1
    <3>3. CommitCancelled
      <4>1. \A j : At(j, p) => j = k
        BY <3>1 DEF At, LogsOf
      <4>2. snapshots' # snapshots
        BY <2>3
      <4>3. ASSUME NEW j, NEW q, At(j, q), snapshots' = snapshots \cup {q}
            PROVE  j = k
        BY <2>3, <4>1, <4>3
      <4>4. ~SaveSnapshot
        BY <3>2, <4>3 DEF SaveSnapshot
      <4>5. ~CommitResold
        BY <3>2, <4>3 DEF CommitResold
      <4>6. ~CommitBought
        BY <3>2, <4>3 DEF CommitBought
      <4> QED
        BY <4>2, <4>4, <4>5, <4>6, TableSteps DEF db, SaveFirstSale, CreditBuyer
    <3>4. InHand(k, p)
      BY <3>1, <3>2, <3>3, InHandAt DEF CommitCancelled
    <3>5. chain[p].sale \in snapshots
      BY <2>1, <3>2, <3>1, <3>4, SaleThere DEF InHand
    <3> QED
      BY <2>1, <3>5, SnapshotsGrow
  <2> QED
    BY <2>2, <2>3
<1> QED
  BY <1>1, <1>2 DEF RecordInv

-------------------------------------------------------------------------------
(* What the recorded purchases leave of a listing. *)

\* What the recorded purchases leave of the listing s.
Left(s) == Amount(s) - Total(BoughtFrom(s) \cap snapshots)

\* What is left is at least what is on sale, and leaves room for every
\* purchase that is still to be recorded.
LEMMA LeftTyped ==
  ASSUME TypeOK, NEW s \in DOMAIN chain
  PROVE  /\ Left(s) \in Int /\ OnSale(s) \in Int /\ Amount(s) \in Nat
         /\ OnSale(s) <= Left(s)
         /\ \A p \in BoughtFrom(s) \ snapshots :
              Amount(p) \in Nat /\ OnSale(s) + Amount(p) <= Left(s)
<1> DEFINE B == BoughtFrom(s)
           R == BoughtFrom(s) \cap snapshots
<1>1. B \in SUBSET DOMAIN chain /\ R \in SUBSET B
  BY BoughtIn
<1>2. Total(B) \in Nat /\ Total(R) \in Nat /\ Amount(s) \in Nat
  BY <1>1, TotalIs, ChainTyped
<1>3. Total(R) <= Total(B)
  BY <1>1, TotalSubset
<1>4. ASSUME NEW p \in B \ snapshots
      PROVE  Amount(p) \in Nat /\ Total(R) + Amount(p) <= Total(B)
  BY <1>1, TotalSubset, ChainTyped
<1>5. OnSale(s) = Amount(s) - Total(B) /\ Left(s) = Amount(s) - Total(R)
  BY DEF OnSale, Left
<1> HIDE DEF B, R
<1>6. \A p \in B \ snapshots : OnSale(s) + Amount(p) <= Left(s)
  BY <1>2, <1>4, <1>5
<1>7. Left(s) \in Int /\ OnSale(s) \in Int /\ OnSale(s) <= Left(s)
  BY <1>2, <1>3, <1>5
<1> QED
  BY <1>2, <1>4, <1>6, <1>7 DEF B

\* Only a recorded purchase changes what is left.
LEMMA LeftKept ==
  ASSUME Inv, Inv', [Next]_vars, NEW s \in DOMAIN chain,
         \A p \in snapshots' \ snapshots :
           chain[p].kind = "BoughtTicket" => chain[p].sale # s
  PROVE  Left(s)' = Left(s)
<1>1. PICK R \in SUBSET DOMAIN chain : R = BoughtFrom(s) \cap snapshots
  BY BoughtIn
<1>2. (BoughtFrom(s) \cap snapshots)' = R
  BY <1>1, SnapshotsGrow, PlacesKept DEF Inv, TypeOK, BoughtFrom, LogsOf
<1>3. Total(R)' = Total(R) /\ Amount(s)' = Amount(s)
  BY PlacesKept DEF Inv, Amount
<1>4. Left(s)' = Amount(s)' - Total(R)'
  BY <1>2 DEF Left
<1> QED
  BY <1>1, <1>3, <1>4 DEF Left

\* A purchase that is recorded takes its amount.
LEMMA LeftBought ==
  ASSUME Inv, Inv', [Next]_vars, UNCHANGED chain, NEW s \in DOMAIN chain,
         NEW p \in BoughtFrom(s) \ snapshots, snapshots' = snapshots \cup {p}
  PROVE  Left(s)' = Left(s) - Amount(p)
<1>1. PICK R \in SUBSET DOMAIN chain : R = BoughtFrom(s) \cap snapshots
  BY BoughtIn
<1>2. PICK Q \in SUBSET DOMAIN chain : Q = R \cup {p}
  BY BoughtIn
<1>3. (BoughtFrom(s) \cap snapshots)' = Q
  BY <1>1, <1>2 DEF BoughtFrom, LogsOf
<1>4. Total(Q)' = Total(Q) /\ Amount(s)' = Amount(s)
  BY PlacesKept DEF Inv, Amount
<1>5. Total(Q) = Amount(p) + Total(R)
  <2>1. p \in DOMAIN chain \ R
    BY <1>1, BoughtIn
  <2> QED
    BY <1>2, <2>1, TotalAdd DEF Inv
<1>6. Left(s)' = Amount(s)' - Total(Q)'
  BY <1>3 DEF Left
<1>7. Left(s) = Amount(s) - Total(R)
  BY <1>1 DEF Left
<1>8. Amount(p) \in Nat /\ Amount(s) \in Nat /\ Total(R) \in Nat
  BY BoughtIn, ChainTyped, TotalIs DEF Inv
<1> QED
  BY <1>4, <1>5, <1>6, <1>7, <1>8

\* RemainingExact, of one listing.
RightFor(s) ==
  /\ listing[s].remaining = Left(s)
  /\ listing[s].remaining >= 0
  /\ listing[s].status = "sold" <=> listing[s].remaining = 0

\* RemainingExact is RightFor of all recorded listings.
LEMMA RightForAll ==
  RemainingExact <=> \A s \in snapshots \cap LogsOf("ResoldTicket") : RightFor(s)
BY DEF RemainingExact, RightFor, Left

\* A listing that keeps its row is as right as before.
LEMMA RightKept ==
  ASSUME Inv, Inv', [Next]_vars, NEW s \in DOMAIN chain, RightFor(s),
         listing'[s] = listing[s],
         \A p \in snapshots' \ snapshots :
           chain[p].kind = "BoughtTicket" => chain[p].sale # s
  PROVE  RightFor(s)'
BY LeftKept DEF RightFor

\* What the purchase in hand has read is still right.
BoughtReadInv ==
  \A p \in DOMAIN chain :
    phase["BoughtTicket"] # "idle" /\ At("BoughtTicket", p) => BoughtRead(p)

\* The fourth layer.  The reading is part of it: a purchase writes back the
\* remainder that it has read, less its amount.
ExactInv == RemainingExact /\ BoughtReadInv

-------------------------------------------------------------------------------
(* The four commits, with what is known of the log when they are reached. *)

\* CreditBuyer applies the first sale at p.
CreditAt(p) ==
  LET read == local["TicketSold"] IN
  /\ p \in (LogsOf("TicketSold") \cap snapshots) \ credited
  /\ phase["TicketSold"] = "write" /\ At("TicketSold", p)
  /\ credited' = credited \cup {p}
  /\ blame' = blame \cup Stale("TicketSold")
                \cup (IF read.owner = NoOwner THEN {"wrong owner"} ELSE {})
  /\ read.row # 0 => /\ read.row \in DOMAIN tickets
                     /\ PutQuantity(read.row, read.quantity + Amount(p))
  /\ read.row = 0 => InsertTicket(read.owner, Amount(p))
  /\ UNCHANGED <<chain, snapshots, listing>>

\* CommitResold applies the listing at p.
ResoldAt(p) ==
  LET read == local["ResoldTicket"] IN
  /\ p \in LogsOf("ResoldTicket") \ snapshots /\ p \in Places
  /\ snapshots' = snapshots \cup {p}
  /\ listing'[p] = [remaining |-> Amount(p), status |-> "selling"]
  /\ \A s \in Places \ {p} : listing'[s] = listing[s]
  /\ Amount(p) <= read.quantity
  /\ read.row \in RowsOf(chain[p].wallet)
  /\ PutQuantity(read.row, read.quantity - Amount(p))
  /\ blame' = blame \cup Stale("ResoldTicket")
  /\ UNCHANGED <<chain, credited>>

\* CommitBought applies the purchase at p.
BoughtAt(p) ==
  LET read == local["BoughtTicket"]
      sale == chain[p].sale
  IN
  /\ p \in LogsOf("BoughtTicket") \ snapshots
  /\ phase["BoughtTicket"] = "commit" /\ At("BoughtTicket", p)
  /\ sale \in snapshots \cap LogsOf("ResoldTicket") /\ sale \in Places
  /\ snapshots' = snapshots \cup {p}
  /\ listing'[sale] = AfterPurchase(read.listing, Amount(p))
  /\ \A s \in Places \ {sale} : listing'[s] = listing[s]
  /\ read.row # 0 => /\ read.row \in DOMAIN tickets
                     /\ PutQuantity(read.row, read.quantity + Amount(p))
  /\ read.row = 0 => InsertTicket(chain[p].wallet, Amount(p))
  /\ blame' = blame \cup Stale("BoughtTicket")
                \cup (IF listing[sale].status # read.listing.status
                      THEN {"reopened"} ELSE {})
  /\ UNCHANGED <<chain, credited>>

\* CommitCancelled applies the cancellation at p.
CancelledAt(p) ==
  LET sale == chain[p].sale
      refund == local["CancelledResellTicket"].listing.remaining
  IN
  /\ p \in LogsOf("CancelledResellTicket") \ snapshots
  /\ phase["CancelledResellTicket"] = "commit" /\ At("CancelledResellTicket", p)
  /\ sale \in snapshots \cap LogsOf("ResoldTicket") /\ sale \in Places
  /\ snapshots' = snapshots \cup {p}
  /\ listing'[sale].status = "closed"
  /\ listing'[sale].remaining = listing[sale].remaining
  /\ \A s \in Places \ {sale} : listing'[s] = listing[s]
  /\ \E r \in RowsOf(chain[sale].wallet) :
       PutQuantity(r, tickets[r].quantity + refund)
  /\ blame' = blame \cup (IF refund # OnSale(sale) THEN {"early refund"} ELSE {})
  /\ UNCHANGED <<chain, credited>>

\* CreditBuyer writes a row that is there, for a log not credited before
\* (handleTicketSoldEvent).
LEMMA CreditsAt ==
  ASSUME Inv, FreshInv, CreditBuyer PROVE \E p : CreditAt(p)
<1> DEFINE k == "TicketSold"
           read == local[k]
<1> USE DEF Inv
<1>1. PICK p \in DOMAIN chain :
        /\ At(k, p) /\ credited' = credited \cup {p}
        /\ \/ read.row # 0 /\ PutQuantity(read.row, read.quantity + Amount(p))
           \/ read.row = 0 /\ InsertTicket(read.owner, Amount(p))
  BY DEF CreditBuyer
<1>2. k \in Kinds /\ phase[k] = "write" /\ phase[k] # "idle"
  BY DEF Kinds, CreditBuyer
<1>3. chain[p].kind = k /\ InHand(k, p)
  BY <1>1, <1>2, InHandAt
<1>4. p \in LogsOf(k) /\ p \in snapshots /\ p \notin credited
  BY <1>1, <1>2, <1>3 DEF InHand, FreshInv, LogsOf
<1>5. read.row # 0 => read.row \in DOMAIN tickets
  BY <1>2, LocalTyped, TicketsTyped DEF LedgerInv, HandInv
<1>6. CreditAt(p)
  BY <1>1, <1>2, <1>4, <1>5 DEF CreditBuyer, CreditAt
<1> QED
  BY <1>6

\* CommitResold writes the seller's row, for a listing not opened before
\* (handleResoldTicketEvent).
LEMMA ResoldsAt ==
  ASSUME Inv, FreshInv, CommitResold PROVE \E p : ResoldAt(p)
<1> DEFINE k == "ResoldTicket"
           read == local[k]
<1> USE DEF Inv
<1>1. PICK p \in DOMAIN chain :
        /\ At(k, p) /\ Amount(p) <= read.quantity
        /\ snapshots' = snapshots \cup {p}
        /\ listing' = [listing EXCEPT
                         ![p] = [remaining |-> Amount(p), status |-> "selling"]]
        /\ PutQuantity(read.row, read.quantity - Amount(p))
  BY DEF CommitResold
<1>2. k \in Kinds /\ phase[k] # "idle"
  BY DEF Kinds, CommitResold
<1>3. chain[p].kind = k /\ p \in Places /\ InHand(k, p)
  BY <1>1, <1>2, InHandAt
<1>4. p \in LogsOf(k) /\ p \notin snapshots
  BY <1>1, <1>2, <1>3 DEF FreshInv, LogsOf
<1>5. listing \in [Places -> Listing] /\ read.row \in RowsOf(chain[p].wallet)
  BY <1>3 DEF TypeOK, InHand
<1>6. ResoldAt(p)
  BY <1>1, <1>3, <1>4, <1>5 DEF CommitResold, ResoldAt
<1> QED
  BY <1>6

\* CommitBought writes a row that is there and a recorded listing
\* (handleBoughtTicketEvent).
LEMMA BoughtsAt ==
  ASSUME Inv, FreshInv, CommitBought PROVE \E p : BoughtAt(p)
<1> DEFINE k == "BoughtTicket"
           read == local[k]
<1> USE DEF Inv
<1>1. PICK p \in DOMAIN chain :
        /\ At(k, p) /\ snapshots' = snapshots \cup {p}
        /\ listing' = [listing EXCEPT ![chain[p].sale] =
                         AfterPurchase(read.listing, Amount(p))]
        /\ \/ read.row # 0 /\ PutQuantity(read.row, read.quantity + Amount(p))
           \/ read.row = 0 /\ InsertTicket(chain[p].wallet, Amount(p))
        /\ blame' = blame \cup Stale(k)
                      \cup (IF listing[chain[p].sale].status # read.listing.status
                            THEN {"reopened"} ELSE {})
  BY DEF CommitBought
<1>2. k \in Kinds /\ phase[k] = "commit" /\ phase[k] # "idle"
  BY DEF Kinds, CommitBought
<1>3. chain[p].kind = k /\ InHand(k, p)
  BY <1>1, <1>2, InHandAt
<1>4. p \in LogsOf(k) /\ p \notin snapshots
  BY <1>1, <1>2, <1>3 DEF FreshInv, LogsOf
<1>5. /\ chain[p].sale \in snapshots \cap LogsOf("ResoldTicket")
      /\ chain[p].sale \in Places
  BY <1>3, SaleThere DEF InHand
<1>6. read.row # 0 => read.row \in DOMAIN tickets
  BY <1>2, LocalTyped, TicketsTyped DEF LedgerInv, HandInv
<1>7. listing \in [Places -> Listing]
  BY DEF TypeOK
<1>8. BoughtAt(p)
  BY <1>1, <1>2, <1>4, <1>5, <1>6, <1>7 DEF CommitBought, BoughtAt
<1> QED
  BY <1>8

\* CommitCancelled closes a recorded listing and finds the seller's row
\* (handleCancelledResellTicketEvent).
LEMMA CancelledsAt ==
  ASSUME Inv, FreshInv, CommitCancelled PROVE \E p : CancelledAt(p)
<1> DEFINE k == "CancelledResellTicket"
           refund == local[k].listing.remaining
<1> USE DEF Inv
<1>1. PICK p \in DOMAIN chain :
        /\ At(k, p) /\ snapshots' = snapshots \cup {p}
        /\ listing' = [listing EXCEPT ![chain[p].sale].status = "closed"]
        /\ \E r \in RowsOf(chain[chain[p].sale].wallet) :
             PutQuantity(r, tickets[r].quantity + refund)
        /\ blame' = blame \cup
             (IF refund # OnSale(chain[p].sale) THEN {"early refund"} ELSE {})
  BY DEF CommitCancelled
<1>2. k \in Kinds /\ phase[k] = "commit" /\ phase[k] # "idle"
  BY DEF Kinds, CommitCancelled
<1>3. chain[p].kind = k /\ InHand(k, p)
  BY <1>1, <1>2, InHandAt
<1>4. p \in LogsOf(k) /\ p \notin snapshots
  BY <1>1, <1>2, <1>3 DEF FreshInv, LogsOf
<1>5. /\ chain[p].sale \in snapshots \cap LogsOf("ResoldTicket")
      /\ chain[p].sale \in Places /\ listing[chain[p].sale] # NoListing
  BY <1>3, SaleThere DEF InHand
<1>6. /\ listing'[chain[p].sale].status = "closed"
      /\ listing'[chain[p].sale].remaining = listing[chain[p].sale].remaining
      /\ \A s \in Places \ {chain[p].sale} : listing'[s] = listing[s]
  <2>1. listing[chain[p].sale] \in [remaining : Int, status : Statuses]
    BY <1>5, ListingThere DEF TypeOK
  <2> QED
    BY <1>1, <1>5, <2>1 DEF TypeOK
<1>7. CancelledAt(p)
  BY <1>1, <1>2, <1>4, <1>5, <1>6 DEF CommitCancelled, CancelledAt
<1> QED
  BY <1>7

-------------------------------------------------------------------------------
(* RemainingExact *)

\* The rows of recorded listings.
LEMMA ListingTyped ==
  ASSUME Inv, NEW s \in snapshots \cap LogsOf("ResoldTicket")
  PROVE  /\ listing[s] \in [remaining : Int, status : Statuses]
         /\ listing[s] # NoListing /\ s \in DOMAIN chain /\ s \in Places
<1>1. s \in DOMAIN chain /\ chain[s].kind = "ResoldTicket" /\ s \in Places
  BY ChainTyped DEF LogsOf, Inv
<1>2. listing[s] # NoListing
  BY <1>1 DEF Inv, LedgerInv, MarketAtomic
<1> QED
  BY <1>1, <1>2, ListingThere DEF Inv, TypeOK

\* What a purchase has read is what is there when it commits.
LEMMA BoughtReads ==
  ASSUME Inv, ExactInv, NEW p, BoughtAt(p)
  PROVE  LET sale == chain[p].sale
             l == local["BoughtTicket"].listing
         IN  /\ l \in [remaining : Int, status : Statuses]
             /\ l.remaining = listing[sale].remaining
             /\ l.status = "sold" <=> l.remaining = 0
<1>1. /\ p \in DOMAIN chain /\ At("BoughtTicket", p) /\ "BoughtTicket" \in Kinds
      /\ phase["BoughtTicket"] # "idle"
  BY DEF BoughtAt, LogsOf, Kinds
<1>2. BoughtRead(p) /\ InHand("BoughtTicket", p)
  BY <1>1, InHandAt DEF ExactInv, BoughtReadInv
<1>3. local["BoughtTicket"].listing # NoListing
  BY <1>2 DEF InHand
<1>4. local["BoughtTicket"].listing \in [remaining : Int, status : Statuses]
  BY <1>1, <1>3, LocalTyped, ListingThere DEF Inv
<1> QED
  BY <1>2, <1>4 DEF BoughtRead

\* A step that leaves listings alone and records no sale of the market.
LEMMA RightQuiet ==
  ASSUME Inv, Inv', [Next]_vars, RemainingExact, UNCHANGED listing,
         \A p \in snapshots' \ snapshots : chain[p].kind = "TicketSold"
  PROVE  RemainingExact'
<1> SUFFICES ASSUME NEW s \in (snapshots \cap LogsOf("ResoldTicket"))'
             PROVE  RightFor(s)'
  BY DEF RemainingExact, RightFor, Left
<1>1. s \in snapshots' /\ s \in DOMAIN chain' /\ chain'[s].kind = "ResoldTicket"
  BY DEF LogsOf
<1>2. s \in snapshots
  <2>1. CASE s \in snapshots' \ snapshots
    BY <1>1, <2>1, SnapshotsGrow, PlacesKept DEF Inv
  <2> QED
    BY <1>1, <2>1
<1>3. s \in snapshots \cap LogsOf("ResoldTicket") /\ s \in DOMAIN chain
  BY <1>1, <1>2, PlacesKept DEF Inv, TypeOK, LogsOf
<1> QED
  BY <1>3, RightForAll, RightKept

\* Every commit leaves listings with what the recorded purchases leave: a
\* new one has its amount, a purchase takes its own from the remainder it has
\* read, a cancellation takes nothing.
LEMMA RemainingStep ==
  ASSUME Inv, Inv', ChainInv, FreshInv, ExactInv, [Next]_vars
  PROVE  RemainingExact'
<1> USE DEF Inv
<1>1. CASE UNCHANGED <<db, credited, blame>>
  BY <1>1, RightQuiet DEF ExactInv, db
<1>2. CASE SaveSnapshot
  <2>1. PICK p \in DOMAIN chain :
          At("TicketSold", p) /\ snapshots' = snapshots \cup {p}
    BY <1>2 DEF SaveSnapshot
  <2>2. chain[p].kind = "TicketSold"
    BY <2>1 DEF At, LogsOf
  <2> QED
    BY <1>2, <2>1, <2>2, RightQuiet DEF ExactInv, SaveSnapshot
<1>3. CASE SaveFirstSale \/ CreditBuyer
  BY <1>3, RightQuiet DEF ExactInv, SaveFirstSale, CreditBuyer
<1>4. ASSUME NEW p, p \in DOMAIN chain, snapshots' = snapshots \cup {p},
             UNCHANGED chain, NEW sale \in DOMAIN chain,
             chain[p].kind = "BoughtTicket" => chain[p].sale = sale,
             \A s \in Places \ {sale} : listing'[s] = listing[s],
             chain[p].kind = "ResoldTicket" => p = sale,
             RightFor(sale)'
      PROVE  RemainingExact'
  <2> SUFFICES ASSUME NEW s \in (snapshots \cap LogsOf("ResoldTicket"))'
               PROVE  RightFor(s)'
    BY DEF RemainingExact, RightFor, Left
  <2>1. s \in snapshots' /\ s \in DOMAIN chain /\ chain[s].kind = "ResoldTicket"
    BY <1>4 DEF LogsOf
  <2>2. CASE s = sale
    BY <1>4, <2>2
  <2>3. CASE s # sale
    <3>1. s \in snapshots \cap LogsOf("ResoldTicket") /\ s \in Places
      BY <1>4, <2>1, <2>3, ChainTyped DEF LogsOf
    <3>2. RightFor(s) /\ listing'[s] = listing[s]
      BY <1>4, <2>3, <3>1, RightForAll DEF ExactInv
    <3> QED
      BY <1>4, <2>1, <2>3, <3>2, RightKept
  <2> QED
    BY <2>2, <2>3
<1>5. CASE CommitResold
  <2>1. PICK p : ResoldAt(p)
    BY <1>5, ResoldsAt
  <2>2. p \in DOMAIN chain /\ chain[p].kind = "ResoldTicket" /\ p \notin snapshots
    BY <2>1 DEF ResoldAt, LogsOf
  <2>3. BoughtFrom(p) \cap snapshots = {}
    BY <2>2, ChainTyped DEF BoughtFrom, LogsOf, LedgerInv, MarketAtomic
  <2>4. Left(p) = Amount(p) /\ Amount(p) \in Nat /\ Amount(p) > 0
    <3>1. Total({}) = 0 /\ Amount(p) \in Nat
      BY TotalEmpty, ChainTyped, <2>2
    <3>2. Amount(p) > 0
      BY <2>2 DEF ChainInv, LogsInv
    <3>3. Left(p) = Amount(p) - Total({})
      BY <2>3 DEF Left
    <3> QED
      BY <3>1, <3>2, <3>3
  <2>5. Left(p)' = Left(p)
    <3>1. \A q \in snapshots' \ snapshots : q = p
      BY <2>1 DEF ResoldAt
    <3> QED
      BY <2>2, <3>1, LeftKept
  <2>6. /\ listing'[p].remaining = Amount(p) /\ listing'[p].status = "selling"
        /\ snapshots' = snapshots \cup {p} /\ UNCHANGED chain
        /\ \A s \in Places \ {p} : listing'[s] = listing[s]
    BY <2>1 DEF ResoldAt
  <2>7. RightFor(p)'
    BY <2>4, <2>5, <2>6 DEF RightFor
  <2> QED
    BY <1>4, <2>2, <2>6, <2>7
<1>6. CASE CommitBought
  <2>1. PICK p : BoughtAt(p)
    BY <1>6, BoughtsAt
  <2>2. PICK sale : sale = chain[p].sale
    OBVIOUS
  <2>3. /\ p \in DOMAIN chain /\ chain[p].kind = "BoughtTicket"
        /\ sale \in snapshots \cap LogsOf("ResoldTicket")
        /\ p \in BoughtFrom(sale) \ snapshots
        /\ snapshots' = snapshots \cup {p} /\ UNCHANGED chain
        /\ \A s \in Places \ {sale} : listing'[s] = listing[s]
    BY <2>1, <2>2 DEF BoughtAt, LogsOf, BoughtFrom
  <2>4. RightFor(sale) /\ sale \in DOMAIN chain
    BY <2>3, RightForAll, ListingTyped DEF ExactInv
  <2>5. Left(sale)' = Left(sale) - Amount(p)
    BY <2>3, <2>4, LeftBought
  <2>6. /\ Amount(p) \in Nat /\ Amount(p) > 0 /\ Left(sale) \in Int
        /\ OnSale(sale) \in Int /\ OnSale(sale) + Amount(p) <= Left(sale)
        /\ OnSale(sale) >= 0
    BY <2>3, <2>4, LeftTyped DEF ChainInv, LogsInv, SalesInv
  <2>7. PICK l : l = local["BoughtTicket"].listing
    OBVIOUS
  <2>8. /\ l \in [remaining : Int, status : Statuses]
        /\ l.remaining = Left(sale)
        /\ l.status = "sold" <=> l.remaining = 0
        /\ listing'[sale] = AfterPurchase(l, Amount(p))
    BY <2>1, <2>2, <2>4, <2>7, BoughtReads DEF BoughtAt, RightFor
  <2>9. /\ listing'[sale].remaining = l.remaining - Amount(p)
        /\ listing'[sale].status = IF l.remaining = Amount(p) THEN "sold" ELSE l.status
    BY <2>8 DEF AfterPurchase
  <2>10. RightFor(sale)'
    <3>1. l.remaining - Amount(p) = Left(sale)' /\ l.remaining - Amount(p) >= 0
      BY <2>5, <2>6, <2>8
    <3>2. l.remaining # 0 /\ l.status # "sold"
      BY <2>6, <2>8
    <3>3. l.remaining = Amount(p) <=> l.remaining - Amount(p) = 0
      BY <2>6, <2>8
    <3> QED
      BY <2>9, <3>1, <3>2, <3>3 DEF RightFor
  <2> QED
    BY <1>4, <2>2, <2>3, <2>4, <2>10
<1>7. CASE CommitCancelled
  <2>1. PICK p : CancelledAt(p)
    BY <1>7, CancelledsAt
  <2>2. PICK sale : sale = chain[p].sale
    OBVIOUS
  <2>3. /\ p \in DOMAIN chain /\ chain[p].kind = "CancelledResellTicket"
        /\ sale \in snapshots \cap LogsOf("ResoldTicket") /\ Cancelled(sale)
        /\ snapshots' = snapshots \cup {p} /\ UNCHANGED chain
        /\ \A s \in Places \ {sale} : listing'[s] = listing[s]
        /\ listing'[sale].status = "closed"
        /\ listing'[sale].remaining = listing[sale].remaining
    BY <2>1, <2>2 DEF CancelledAt, LogsOf, Cancelled
  <2>4. RightFor(sale) /\ sale \in DOMAIN chain
    BY <2>3, RightForAll, ListingTyped DEF ExactInv
  <2>5. Left(sale)' = Left(sale)
    BY <2>3, <2>4, LeftKept
  <2>6. Left(sale) \in Int /\ Left(sale) > 0
    <3>1. /\ OnSale(sale) \in Int /\ OnSale(sale) > 0 /\ OnSale(sale) <= Left(sale)
          /\ Left(sale) \in Int
      BY <2>3, <2>4, LeftTyped DEF ChainInv, SalesInv
    <3> QED
      BY <3>1
  <2>7. RightFor(sale)'
    BY <2>3, <2>4, <2>5, <2>6 DEF RightFor
  <2> QED
    BY <1>4, <2>2, <2>3, <2>4, <2>7
<1> QED
  BY <1>1, <1>2, <1>3, <1>5, <1>6, <1>7, TableSteps

-------------------------------------------------------------------------------
(* What jobs have read stays true until they commit. *)

\* A wallet's rows remain its rows.
LEMMA RowsKept ==
  ASSUME Inv, Inv', FreshInv, [Next]_vars
  PROVE  \A w : RowsOf(w) \subseteq RowsOf(w)'
<1> USE DEF Inv
<1>1. ASSUME NEW r \in DOMAIN tickets, NEW n \in Int, PutQuantity(r, n)
      PROVE  \A w : RowsOf(w) \subseteq RowsOf(w)'
  <2>1. DOMAIN tickets = DOMAIN tickets'
    BY <1>1, PutKeeps, TicketsTyped, LenProperties
  <2> QED
    BY <1>1, <2>1, PutKeeps DEF RowsOf
<1>2. ASSUME NEW w \in Owner, NEW n \in Int, InsertTicket(w, n)
      PROVE  \A v : RowsOf(v) \subseteq RowsOf(v)'
  <2>1. DOMAIN tickets \subseteq DOMAIN tickets'
    BY <1>2, InsertKeeps, TicketsTyped, LenProperties
  <2> QED
    BY <1>2, <2>1, InsertKeeps DEF RowsOf
<1>3. \A k \in Kinds : local[k].quantity \in Int /\ local[k].owner \in Owner
  BY LocalTyped
<1>4. CASE UNCHANGED tickets
  BY <1>4 DEF RowsOf
<1>5. CASE CreditBuyer
  <2>1. PICK p : CreditAt(p)
    BY <1>5, CreditsAt
  <2>2. Amount(p) \in Int /\ "TicketSold" \in Kinds
    <3>1. p \in DOMAIN chain
      BY <2>1 DEF CreditAt, LogsOf
    <3> QED
      BY <3>1, ChainTyped DEF Kinds
  <2>3. local["TicketSold"].quantity + Amount(p) \in Int
    BY <1>3, <2>2
  <2> QED
    BY <1>1, <1>2, <1>3, <2>1, <2>2, <2>3 DEF CreditAt
<1>6. CASE CommitResold
  <2>1. PICK p : ResoldAt(p)
    BY <1>6, ResoldsAt
  <2>2. Amount(p) \in Int /\ "ResoldTicket" \in Kinds
    BY <2>1, ChainTyped DEF ResoldAt, LogsOf, Kinds
  <2>3. local["ResoldTicket"].quantity - Amount(p) \in Int
    BY <1>3, <2>2
  <2> QED
    BY <1>1, <2>1, <2>3 DEF ResoldAt, RowsOf
<1>7. CASE CommitBought
  <2>1. PICK p : BoughtAt(p)
    BY <1>7, BoughtsAt
  <2>2. Amount(p) \in Int /\ "BoughtTicket" \in Kinds /\ chain[p].wallet \in Owner
    BY <2>1, ChainTyped DEF BoughtAt, LogsOf, Kinds, Owner
  <2>3. local["BoughtTicket"].quantity + Amount(p) \in Int
    BY <1>3, <2>2
  <2> QED
    BY <1>1, <1>2, <2>1, <2>2, <2>3 DEF BoughtAt
<1>8. CASE CommitCancelled
  <2>1. PICK p : CancelledAt(p)
    BY <1>8, CancelledsAt
  <2>2. PICK r \in DOMAIN tickets :
          PutQuantity(r, tickets[r].quantity
                           + local["CancelledResellTicket"].listing.remaining)
    BY <2>1 DEF CancelledAt, RowsOf
  <2>3. "CancelledResellTicket" \in Kinds /\ phase["CancelledResellTicket"] # "idle"
    BY <1>8 DEF Kinds, CommitCancelled
  <2>4. local["CancelledResellTicket"].listing # NoListing
    BY <2>1, <2>3, InHandAt DEF CancelledAt, InHand
  <2>5. local["CancelledResellTicket"].listing.remaining \in Int
    BY <2>3, <2>4, LocalTyped, ListingThere
  <2>6. tickets[r].quantity + local["CancelledResellTicket"].listing.remaining \in Int
    BY <2>5, TicketsTyped
  <2> QED
    BY <1>1, <2>2, <2>6
<1>9. CASE UNCHANGED <<db, credited, blame>> \/ SaveSnapshot \/ SaveFirstSale
  BY <1>4, <1>9 DEF db, SaveSnapshot, SaveFirstSale
<1> QED
  BY <1>5, <1>6, <1>7, <1>8, <1>9, TableSteps

\* Only the purchases' job changes what remains of a recorded listing.
LEMMA RemainingKept ==
  ASSUME Inv, FreshInv, [Next]_vars, NEW s \in snapshots \cap LogsOf("ResoldTicket"),
         phase'["BoughtTicket"] # "idle" \/ ~CommitBought
  PROVE  listing'[s].remaining = listing[s].remaining
<1>1. s \in Places
  BY ListingTyped
<1>2. CASE CommitResold
  <2>1. PICK p : ResoldAt(p)
    BY <1>2, ResoldsAt
  <2> QED
    BY <1>1, <2>1 DEF ResoldAt
<1>3. CASE CommitBought
  <2>1. phase'["BoughtTicket"] = "idle"
    BY <1>3 DEF CommitBought, Pass, Inv, TypeOK, Kinds
  <2> QED
    BY <1>3, <2>1
<1>4. CASE CommitCancelled
  <2>1. PICK p : CancelledAt(p)
    BY <1>4, CancelledsAt
  <2> QED
    BY <1>1, <2>1 DEF CancelledAt
<1>5. CASE \/ UNCHANGED <<db, credited, blame>> \/ SaveSnapshot \/ SaveFirstSale
           \/ CreditBuyer
  BY <1>5 DEF db, SaveSnapshot, SaveFirstSale, CreditBuyer
<1> QED
  BY <1>2, <1>3, <1>4, <1>5, TableSteps

\* What a purchase has read stays right until it commits: other jobs do not
\* change a remainder, and rows keep their owners.
LEMMA BoughtReadStep ==
  ASSUME Inv, Inv', FreshInv, ExactInv, [Next]_vars
  PROVE  BoughtReadInv'
<1> DEFINE k == "BoughtTicket"
<1> USE DEF Inv
<1> SUFFICES ASSUME NEW p \in DOMAIN chain', phase'[k] # "idle", At(k, p)'
             PROVE  BoughtRead(p)'
  BY DEF BoughtReadInv
<1>0. k \in Kinds
  BY DEF Kinds
<1>1. CASE JobKept(k)
  <2>1. p \in DOMAIN chain /\ At(k, p) /\ chain'[p] = chain[p]
    BY <1>0, <1>1, HandKeeps, PlacesKept
  <2>2. BoughtRead(p) /\ InHand(k, p) /\ chain[p].kind = k
    BY <1>0, <1>1, <2>1, InHandAt DEF JobKept, ExactInv, BoughtReadInv
  <2>3. chain[p].sale \in snapshots \cap LogsOf("ResoldTicket")
    BY <2>1, <2>2, SaleThere DEF InHand
  <2>4. listing'[chain[p].sale].remaining = listing[chain[p].sale].remaining
    BY <2>3, RemainingKept
  <2>5. PICK w : w = chain[p].wallet
    OBVIOUS
  <2>6. RowsOf(w) \subseteq RowsOf(w)'
    BY RowsKept
  <2>7. chain'[p].wallet = w /\ chain'[p].sale = chain[p].sale
    BY <2>1, <2>5
  <2> QED
    BY <1>1, <2>2, <2>4, <2>5, <2>6, <2>7 DEF BoughtRead, JobKept
<1>2. CASE FindSale
  <2>1. PICK q \in DOMAIN chain :
          /\ At(k, q) /\ listing[chain[q].sale] # NoListing
          /\ Proceed(k, "ticket", [Nothing EXCEPT !.listing = listing[chain[q].sale]])
    BY <1>2 DEF FindSale
  <2>2. UNCHANGED <<chain, upTo, listing>>
    BY <1>2 DEF FindSale, Proceed, db
  <2>3. p = q
    BY <1>0, <2>1, <2>2, AtUnique DEF At, LogsOf
  <2>4. chain[p].kind = k
    BY <1>0, <2>1, <2>3, InHandAt
  <2>5. chain[p].sale \in snapshots \cap LogsOf("ResoldTicket")
    BY <2>1, <2>3, <2>4, SaleThere
  <2>6. RightFor(chain[p].sale)
    BY <2>5, RightForAll DEF ExactInv
  <2>7. local'[k].listing = listing[chain[p].sale] /\ phase'[k] = "ticket"
    BY <1>0, <2>1, <2>3 DEF Proceed, Nothing, TypeOK
  <2> QED
    BY <2>2, <2>6, <2>7 DEF BoughtRead, RightFor
<1>3. CASE FindPurchaserTicket
  <2>1. PICK q \in DOMAIN chain, r \in 0 .. Len(tickets) :
          /\ At(k, q) /\ FoundOne(RowsOf(chain[q].wallet), r)
          /\ Proceed(k, "commit",
                     [local[k] EXCEPT !.row = r, !.quantity = QuantityAt(r)])
    BY <1>3 DEF FindPurchaserTicket
  <2>2. UNCHANGED <<chain, upTo, listing, tickets>> /\ phase[k] # "idle"
    BY <1>3 DEF FindPurchaserTicket, Proceed, db
  <2>3. p = q
    BY <1>0, <2>1, <2>2, AtUnique DEF At, LogsOf
  <2>4. BoughtRead(p)
    BY <2>1, <2>2, <2>3 DEF ExactInv, BoughtReadInv
  <2>5. local[k] \in Local
    BY <1>0, LocalTyped
  <2>6. local'[k].listing = local[k].listing /\ local'[k].row = r
    BY <1>0, <2>1, <2>5 DEF Proceed, TypeOK, Local
  <2>7. r # 0 => r \in RowsOf(chain[p].wallet)
    BY <2>1, <2>3 DEF FoundOne
  <2> QED
    BY <2>2, <2>4, <2>6, <2>7 DEF BoughtRead, RowsOf
<1>4. CASE Rewind(k)
  BY <1>4 DEF Rewind
<1>5. CASE JobRests(k)
  BY <1>5 DEF JobRests
<1> QED
  BY <1>0, <1>1, <1>2, <1>3, <1>4, <1>5, JobSteps

\* A log in hand has not been applied: a job skips what is recorded, passes
\* what it applies, and a rewind puts down what it has in hand (the look-up of
\* the snapshot at the start of each handler).
THEOREM FreshInvariant == Spec => []FreshInv
<1>1. Init => FreshInv
  BY DEF Init, FreshInv
<1> QED
  BY <1>1, FreshStep, LedgerInvariant, PTL DEF Spec

\* The two halves of the layer together.
LEMMA ExactStep ==
  ASSUME Inv, Inv', ChainInv, FreshInv, ExactInv, [Next]_vars PROVE ExactInv'
BY RemainingStep, BoughtReadStep DEF ExactInv

\* Listings, and what a purchase has read of them, are exact.
THEOREM ExactInvariant == Spec => []ExactInv
<1>1. Init => ExactInv
  BY DEF Init, ExactInv, RemainingExact, BoughtReadInv
<1> QED
  BY <1>1, ExactStep, ChainInvariant, FreshInvariant, LedgerInvariant, PTL DEF Spec

\* Whatever is redelivered, lost or interrupted, a listing's remainder is its
\* amount less the purchases that are recorded, never negative, and `sold'
\* exactly when nothing is left, although a purchase reads the remainder two
\* awaits before it writes it (handleBoughtTicketEvent).
THEOREM RemainingExactAlways == Spec => []RemainingExact
<1>1. ExactInv => RemainingExact
  BY DEF ExactInv
<1> QED
  BY <1>1, ExactInvariant, PTL

-------------------------------------------------------------------------------
(* NeverNegative *)

\* What save and insert do to the rows.
LEMMA PutWrites ==
  ASSUME TypeOK, NEW r \in DOMAIN tickets, NEW n \in Int, PutQuantity(r, n)
  PROVE  /\ DOMAIN tickets' = DOMAIN tickets
         /\ tickets'[r].owner = tickets[r].owner /\ tickets'[r].quantity = n
         /\ \A q \in DOMAIN tickets \ {r} : tickets'[q] = tickets[q]
BY TicketsTyped DEF PutQuantity, Ticket

\* A row that is inserted is the last.
LEMMA InsertWrites ==
  ASSUME TypeOK, NEW w \in Owner, NEW n \in Int, InsertTicket(w, n)
  PROVE  LET r == Len(tickets) + 1 IN
         /\ r \notin DOMAIN tickets /\ DOMAIN tickets' = DOMAIN tickets \cup {r}
         /\ tickets'[r].owner = w /\ tickets'[r].quantity = n
         /\ \A q \in DOMAIN tickets : tickets'[q] = tickets[q]
<1>1. [owner |-> w, quantity |-> n] \in Ticket
  BY DEF Ticket
<1>2. /\ tickets' \in Seq(Ticket) /\ Len(tickets') = Len(tickets) + 1
      /\ \A i \in 1 .. Len(tickets) : tickets'[i] = tickets[i]
      /\ tickets'[Len(tickets) + 1] = [owner |-> w, quantity |-> n]
  BY <1>1, AppendProperties DEF TypeOK, InsertTicket
<1>3. DOMAIN tickets' = 1 .. Len(tickets') /\ Len(tickets) \in Nat
  BY <1>2, LenProperties, TicketsTyped
<1> QED
  BY <1>2, <1>3, TicketsTyped

\* Saving a natural number makes no row negative.
LEMMA PutPositive ==
  ASSUME TypeOK, NeverNegative, NEW r \in DOMAIN tickets, NEW n \in Nat,
         PutQuantity(r, n)
  PROVE  NeverNegative'
BY PutWrites DEF NeverNegative

\* Nor does inserting one.
LEMMA InsertPositive ==
  ASSUME TypeOK, NeverNegative, NEW w \in Owner, NEW n \in Nat, InsertTicket(w, n)
  PROVE  NeverNegative'
<1>0. n \in Int
  OBVIOUS
<1>1. PICK r : r = Len(tickets) + 1
  OBVIOUS
<1>2. /\ DOMAIN tickets' = DOMAIN tickets \cup {r} /\ tickets'[r].quantity = n
      /\ \A q \in DOMAIN tickets : tickets'[q] = tickets[q]
  BY <1>0, <1>1, InsertWrites
<1> QED
  BY <1>2 DEF NeverNegative

\* No commit writes a negative quantity: a resale checks the quantity that it
\* writes back, and the others add.
LEMMA SignTables ==
  ASSUME Inv, Inv', ChainInv, FreshInv, SignInv, [Next]_vars
  PROVE  NeverNegative'
<1> USE DEF Inv, SignInv
<1>1. ASSUME NEW k \in Kinds
      PROVE  /\ local[k].quantity \in Nat /\ local[k].owner \in Owner
             /\ local[k].quantity \in Int
  BY LocalTyped
<1>2. \A p \in DOMAIN chain : Amount(p) \in Nat /\ chain[p].wallet \in Owner
  BY ChainTyped DEF Owner
<1>3. CASE UNCHANGED <<db, credited, blame>> \/ SaveSnapshot \/ SaveFirstSale
  BY <1>3 DEF db, SaveSnapshot, SaveFirstSale, NeverNegative
<1>4. CASE CreditBuyer
  <2>1. PICK p : CreditAt(p)
    BY <1>4, CreditsAt
  <2>2. p \in DOMAIN chain /\ "TicketSold" \in Kinds
    BY <2>1 DEF CreditAt, LogsOf, Kinds
  <2>3. /\ local["TicketSold"].quantity + Amount(p) \in Nat /\ Amount(p) \in Nat
        /\ local["TicketSold"].owner \in Owner
    BY <1>1, <1>2, <2>2
  <2> QED
    BY <2>1, <2>3, PutPositive, InsertPositive DEF CreditAt
<1>5. CASE CommitResold
  <2>1. PICK p : ResoldAt(p)
    BY <1>5, ResoldsAt
  <2>2. p \in DOMAIN chain /\ "ResoldTicket" \in Kinds
    BY <2>1 DEF ResoldAt, LogsOf, Kinds
  <2>3. local["ResoldTicket"].quantity - Amount(p) \in Nat
    BY <1>1, <1>2, <2>1, <2>2 DEF ResoldAt
  <2> QED
    BY <2>1, <2>3, PutPositive DEF ResoldAt, RowsOf
<1>6. CASE CommitBought
  <2>1. PICK p : BoughtAt(p)
    BY <1>6, BoughtsAt
  <2>2. p \in DOMAIN chain /\ "BoughtTicket" \in Kinds
    BY <2>1 DEF BoughtAt, LogsOf, Kinds
  <2>3. /\ local["BoughtTicket"].quantity + Amount(p) \in Nat /\ Amount(p) \in Nat
        /\ chain[p].wallet \in Owner
    BY <1>1, <1>2, <2>2
  <2> QED
    BY <2>1, <2>3, PutPositive, InsertPositive DEF BoughtAt
<1>7. CASE CommitCancelled
  <2>1. PICK p : CancelledAt(p)
    BY <1>7, CancelledsAt
  <2>2. PICK n : n = local["CancelledResellTicket"].listing.remaining
    OBVIOUS
  <2>3. PICK r \in DOMAIN tickets : PutQuantity(r, tickets[r].quantity + n)
    BY <2>1, <2>2 DEF CancelledAt, RowsOf
  <2>4. "CancelledResellTicket" \in Kinds /\ phase["CancelledResellTicket"] # "idle"
    BY <1>7 DEF Kinds, CommitCancelled
  <2>5. local["CancelledResellTicket"].listing # NoListing
    BY <2>1, <2>4, InHandAt DEF CancelledAt, InHand
  <2>6. n \in Int /\ n >= 0
    BY <2>2, <2>4, <2>5, LocalTyped, ListingThere
  <2>7. tickets[r].quantity \in Int /\ tickets[r].quantity >= 0
    BY TicketsTyped DEF NeverNegative
  <2>8. tickets[r].quantity + n \in Nat
    BY <2>6, <2>7
  <2> QED
    BY <2>3, <2>8, PutPositive
<1> QED
  BY <1>3, <1>4, <1>5, <1>6, <1>7, TableSteps

\* No job finds a negative quantity or remainder.
LEMMA SignHands ==
  ASSUME Inv, ExactInv, SignInv, [Next]_vars, NEW k \in Kinds
  PROVE  local'[k].quantity >= 0 /\ local'[k].listing.remaining >= 0
<1> USE DEF Inv
<1>0. /\ Nothing.quantity = 0 /\ Nothing.listing = NoListing
      /\ NoListing.remaining = 0 /\ local \in [Kinds -> Local]
  BY DEF Nothing, NoListing, TypeOK
<1>1. \A r \in 0 .. Len(tickets) : QuantityAt(r) >= 0
  BY TicketsTyped DEF QuantityAt, SignInv, NeverNegative
<1>2. CASE JobKept(k) \/ Rewind(k)
  BY <1>2 DEF SignInv, JobKept, Rewind
<1>3. CASE JobRests(k)
  BY <1>0, <1>3 DEF JobRests
<1>4. ASSUME NEW ph, Proceed(k, ph, Nothing)
      PROVE  local'[k] = Nothing
  BY <1>0, <1>4 DEF Proceed
<1>5. CASE k = "TicketSold" /\ (SaveSnapshot \/ SaveFirstSale)
  <2>1. local'[k] = Nothing
    BY <1>4, <1>5 DEF SaveSnapshot, SaveFirstSale
  <2> QED
    BY <1>0, <2>1
<1>6. CASE k = "TicketSold" /\ FindBuyerTicket
  <2>1. PICK r \in 0 .. Len(tickets) : \E w :
          Proceed(k, "write", [row |-> r, owner |-> w, quantity |-> QuantityAt(r),
                               listing |-> NoListing])
    BY <1>6 DEF FindBuyerTicket
  <2>2. local'[k].quantity = QuantityAt(r) /\ local'[k].listing = NoListing
    BY <1>0, <2>1 DEF Proceed
  <2> QED
    BY <1>0, <1>1, <2>2
<1>7. CASE k = "ResoldTicket" /\ FindSellerTicket
  <2>1. PICK r \in DOMAIN tickets :
          Proceed(k, "commit",
                  [Nothing EXCEPT !.row = r, !.quantity = tickets[r].quantity])
    BY <1>7 DEF FindSellerTicket, RowsOf
  <2>2. /\ local'[k].quantity = tickets[r].quantity
        /\ local'[k].listing = NoListing
    BY <1>0, <2>1 DEF Proceed, Nothing
  <2> QED
    BY <1>0, <2>2 DEF SignInv, NeverNegative
<1>8. ASSUME NEW p \in DOMAIN chain, At(k, p), NEW ph,
             k \in {"BoughtTicket", "CancelledResellTicket"},
             listing[chain[p].sale] # NoListing,
             Proceed(k, ph, [Nothing EXCEPT !.listing = listing[chain[p].sale]])
      PROVE  local'[k].quantity >= 0 /\ local'[k].listing.remaining >= 0
  <2>1. chain[p].kind = k
    BY <1>8, InHandAt
  <2>2. chain[p].sale \in snapshots \cap LogsOf("ResoldTicket")
    BY <1>8, <2>1, SaleThere
  <2>3. listing[chain[p].sale].remaining >= 0
    BY <2>2, RightForAll DEF ExactInv, RightFor
  <2>4. local'[k].quantity = 0 /\ local'[k].listing = listing[chain[p].sale]
    BY <1>0, <1>8 DEF Proceed, Nothing
  <2> QED
    BY <2>3, <2>4
<1>9. CASE k = "BoughtTicket" /\ FindSale
  BY <1>8, <1>9 DEF FindSale
<1>10. CASE k = "CancelledResellTicket" /\ FindCancelledSale
  BY <1>8, <1>10 DEF FindCancelledSale
<1>11. CASE k = "BoughtTicket" /\ FindPurchaserTicket
  <2>1. PICK r \in 0 .. Len(tickets) :
          Proceed(k, "commit",
                  [local[k] EXCEPT !.row = r, !.quantity = QuantityAt(r)])
    BY <1>11 DEF FindPurchaserTicket
  <2>2. local[k] \in Local
    BY LocalTyped
  <2>3. local'[k].quantity = QuantityAt(r) /\ local'[k].listing = local[k].listing
    BY <1>0, <2>1, <2>2 DEF Proceed, Local
  <2> QED
    BY <1>1, <2>3 DEF SignInv
<1> QED
  BY <1>2, <1>3, <1>5, <1>6, <1>7, <1>9, <1>10, <1>11, JobSteps

\* Quantities are never negative, in a row or in hand.
THEOREM SignInvariant == Spec => []SignInv
<1>1. Init => SignInv
  BY EmptySeq DEF Init, SignInv, NeverNegative, Nothing, NoListing
<1>2. Inv /\ Inv' /\ ChainInv /\ FreshInv /\ ExactInv /\ SignInv /\ [Next]_vars
        => SignInv'
  BY SignTables, SignHands DEF SignInv
<1> QED
  BY <1>1, <1>2, LedgerInvariant, ChainInvariant, FreshInvariant, ExactInvariant,
     PTL DEF Spec

\* No interleaving of the four handlers makes a ticket row negative, however
\* stale what they have read (handleResoldTicketEvent compares the quantity it
\* writes; handleCancelledResellTicketEvent gives back a remainder).
THEOREM NeverNegativeAlways == Spec => []NeverNegative
<1>1. SignInv => NeverNegative
  BY DEF SignInv
<1> QED
  BY <1>1, SignInvariant, PTL

-------------------------------------------------------------------------------
(* What is recorded, and what the other jobs have read. *)

\* First sales' rows belong to first sales, and no cancellation is recorded
\* before its listing (the order in which handlers find what they refer to).
THEOREM RecordInvariant == Spec => []RecordInv
<1>1. Init => RecordInv
  BY DEF Init, RecordInv
<1> QED
  BY <1>1, RecordStep, LedgerInvariant, PTL DEF Spec

\* What remains of a recorded listing never grows.
LEMMA RemainingFalls ==
  ASSUME Inv, Inv', FreshInv, ExactInv, [Next]_vars,
         NEW s \in snapshots \cap LogsOf("ResoldTicket")
  PROVE  /\ listing[s].remaining \in Int /\ listing'[s].remaining \in Int
         /\ listing'[s].remaining <= listing[s].remaining
<1>0. listing[s].remaining \in Int /\ s \in DOMAIN chain /\ s \in Places
  BY ListingTyped
<1>1. CASE ~CommitBought
  BY <1>0, <1>1, RemainingKept
<1>2. CASE CommitBought
  <2>1. PICK p : BoughtAt(p)
    BY <1>2, BoughtsAt
  <2>2. CASE s = chain[p].sale
    <3>1. PICK l : l = local["BoughtTicket"].listing
      OBVIOUS
    <3>2. l.remaining = listing[s].remaining
      BY <2>1, <2>2, <3>1, BoughtReads
    <3>3. listing'[s].remaining = l.remaining - Amount(p)
      BY <2>1, <2>2, <3>1 DEF BoughtAt, AfterPurchase
    <3>4. Amount(p) \in Nat
      <4>1. p \in DOMAIN chain
        BY <2>1 DEF BoughtAt, LogsOf
      <4> QED
        BY <4>1, ChainTyped DEF Inv
    <3> QED
      BY <1>0, <3>2, <3>3, <3>4
  <2>3. CASE s # chain[p].sale
    BY <1>0, <2>1, <2>3 DEF BoughtAt
  <2> QED
    BY <2>2, <2>3
<1> QED
  BY <1>1, <1>2

\* What the cancellation in hand has read is no less than what is there.
CancelledReadInv ==
  \A p \in DOMAIN chain :
    phase["CancelledResellTicket"] # "idle" /\ At("CancelledResellTicket", p)
      => CancelledRead(p)

\* Until it commits, what was read only falls.
LEMMA CancelledReadStep ==
  ASSUME Inv, Inv', FreshInv, ExactInv, CancelledReadInv, [Next]_vars
  PROVE  CancelledReadInv'
<1> DEFINE k == "CancelledResellTicket"
<1> USE DEF Inv
<1> SUFFICES ASSUME NEW p \in DOMAIN chain', phase'[k] # "idle", At(k, p)'
             PROVE  CancelledRead(p)'
  BY DEF CancelledReadInv
<1>0. k \in Kinds
  BY DEF Kinds
<1>1. CASE JobKept(k)
  <2>1. p \in DOMAIN chain /\ At(k, p) /\ chain'[p] = chain[p]
    BY <1>0, <1>1, HandKeeps, PlacesKept
  <2>2. CancelledRead(p) /\ InHand(k, p) /\ chain[p].kind = k
    BY <1>0, <1>1, <2>1, InHandAt DEF JobKept, CancelledReadInv
  <2>3. chain[p].sale \in snapshots \cap LogsOf("ResoldTicket")
    BY <2>1, <2>2, SaleThere DEF InHand
  <2>4. local[k].listing.remaining \in Int
    <3>1. local[k].listing # NoListing
      BY <2>2 DEF InHand
    <3> QED
      BY <1>0, <3>1, LocalTyped, ListingThere
  <2>5. PICK s : s = chain[p].sale
    OBVIOUS
  <2>6. /\ listing[s].remaining \in Int /\ listing'[s].remaining \in Int
        /\ listing'[s].remaining <= listing[s].remaining
    BY <2>3, <2>5, RemainingFalls
  <2>7. listing[s].remaining <= local[k].listing.remaining
    BY <2>2, <2>5 DEF CancelledRead
  <2>8. listing'[s].remaining <= local'[k].listing.remaining
    BY <1>1, <2>4, <2>6, <2>7 DEF JobKept
  <2> QED
    BY <2>1, <2>5, <2>8 DEF CancelledRead
<1>2. CASE FindCancelledSale
  <2>1. PICK q \in DOMAIN chain :
          /\ At(k, q) /\ listing[chain[q].sale] # NoListing
          /\ Proceed(k, "commit", [Nothing EXCEPT !.listing = listing[chain[q].sale]])
    BY <1>2 DEF FindCancelledSale
  <2>2. UNCHANGED <<chain, upTo, listing>>
    BY <1>2 DEF FindCancelledSale, Proceed, db
  <2>3. p = q
    BY <1>0, <2>1, <2>2, AtUnique DEF At, LogsOf
  <2>4. chain[p].kind = k
    BY <1>0, <2>1, <2>3, InHandAt
  <2>5. chain[p].sale \in snapshots \cap LogsOf("ResoldTicket")
    BY <2>1, <2>3, <2>4, SaleThere
  <2>6. local'[k].listing = listing[chain[p].sale]
    BY <1>0, <2>1, <2>3 DEF Proceed, Nothing, TypeOK
  <2>7. listing[chain[p].sale].remaining \in Int
    BY <2>5, ListingTyped
  <2> QED
    BY <2>2, <2>6, <2>7 DEF CancelledRead
<1>4. CASE Rewind(k)
  BY <1>4 DEF Rewind
<1>5. CASE JobRests(k)
  BY <1>5 DEF JobRests
<1> QED
  BY <1>0, <1>1, <1>2, <1>4, <1>5, JobSteps

\* A cancellation never gives back less than the listing's row has left
\* (handleCancelledResellTicketEvent reads it one await before).
THEOREM CancelledReadInvariant == Spec => []CancelledReadInv
<1>1. Init => CancelledReadInv
  BY DEF Init, CancelledReadInv
<1> QED
  BY <1>1, CancelledReadStep, LedgerInvariant, FreshInvariant, ExactInvariant,
     PTL DEF Spec

\* What the first sale in hand has found is the buyer's.
SoldReadInv ==
  \A p \in DOMAIN chain :
    phase["TicketSold"] # "idle" /\ At("TicketSold", p) => SoldRead(p)

\* A buyer that was found keeps the row that was found.
LEMMA SoldReadStep ==
  ASSUME Inv, Inv', FreshInv, SoldReadInv, [Next]_vars
  PROVE  SoldReadInv'
<1> DEFINE k == "TicketSold"
<1> USE DEF Inv
<1> SUFFICES ASSUME NEW p \in DOMAIN chain', phase'[k] # "idle", At(k, p)'
             PROVE  SoldRead(p)'
  BY DEF SoldReadInv
<1>0. k \in Kinds
  BY DEF Kinds
<1>1. CASE JobKept(k)
  <2>1. p \in DOMAIN chain /\ At(k, p) /\ chain'[p] = chain[p]
    BY <1>0, <1>1, HandKeeps, PlacesKept
  <2>2. SoldRead(p)
    BY <1>0, <1>1, <2>1 DEF JobKept, SoldReadInv
  <2>3. \A w : RowsOf(w) \subseteq RowsOf(w)'
    BY RowsKept
  <2>4. PICK w : w = local[k].owner
    OBVIOUS
  <2>5. local'[k] = local[k] /\ phase'[k] = phase[k] /\ local'[k].owner = w
    BY <1>1, <2>4 DEF JobKept
  <2>6. RowsOf(w) \subseteq RowsOf(w)'
    BY <2>3
  <2> QED
    BY <2>1, <2>2, <2>4, <2>5, <2>6 DEF SoldRead
<1>2. CASE SaveSnapshot \/ SaveFirstSale
  <2>1. phase'[k] # "write"
    BY <1>0, <1>2 DEF SaveSnapshot, SaveFirstSale, Proceed, TypeOK
  <2> QED
    BY <2>1 DEF SoldRead
<1>3. CASE FindBuyerTicket
  <2>1. PICK q \in DOMAIN chain, r \in 0 .. Len(tickets) :
          /\ At(k, q)
          /\ FoundOne(IF chain[q].wallet \in users THEN RowsOf(chain[q].wallet)
                                                   ELSE DOMAIN tickets, r)
          /\ Proceed(k, "write",
                   [row |-> r,
                    owner |-> IF chain[q].wallet \in users THEN chain[q].wallet
                                                           ELSE NoOwner,
                    quantity |-> QuantityAt(r), listing |-> NoListing])
    BY <1>3 DEF FindBuyerTicket
  <2>2. UNCHANGED <<chain, upTo, tickets>>
    BY <1>3 DEF FindBuyerTicket, Proceed, db
  <2>3. p = q
    BY <1>0, <2>1, <2>2, AtUnique DEF At, LogsOf
  <2>4. /\ local'[k].row = r
        /\ local'[k].owner = IF chain[p].wallet \in users THEN chain[p].wallet
                                                          ELSE NoOwner
    BY <1>0, <2>1, <2>3 DEF Proceed, TypeOK
  <2>5. CASE chain[p].wallet \in users
    <3>1. r # 0 => r \in RowsOf(chain[p].wallet)
      BY <2>1, <2>3, <2>5 DEF FoundOne
    <3>2. r # 0 => r \in RowsOf(local'[k].owner)
      BY <2>4, <2>5, <3>1
    <3>3. local'[k].owner = chain'[p].wallet
      BY <2>2, <2>4, <2>5
    <3>4. r # 0 => r \in DOMAIN tickets' /\ tickets'[r].owner = local'[k].owner
      BY <2>2, <3>2 DEF RowsOf
    <3> QED
      BY <2>4, <3>3, <3>4 DEF SoldRead, RowsOf
  <2>6. CASE chain[p].wallet \notin users
    BY <2>4, <2>6 DEF SoldRead
  <2> QED
    BY <2>5, <2>6
<1>4. CASE Rewind(k)
  BY <1>4 DEF Rewind
<1>5. CASE JobRests(k)
  BY <1>5 DEF JobRests
<1> QED
  BY <1>0, <1>1, <1>2, <1>3, <1>4, <1>5, JobSteps

\* A first sale whose buyer is registered credits the buyer's row, and no
\* other (handleTicketSoldEvent; one that is not leaves no owner to search by).
THEOREM SoldReadInvariant == Spec => []SoldReadInv
<1>1. Init => SoldReadInv
  BY DEF Init, SoldReadInv
<1> QED
  BY <1>1, SoldReadStep, LedgerInvariant, FreshInvariant, PTL DEF Spec

-------------------------------------------------------------------------------
(* Which listings are closed, and which are on offer. *)

\* ClosedInv, of one listing.
ClosedFor(s) == listing[s].status = "closed" <=> RecordedCancel(s)

\* ClosedInv is ClosedFor of all recorded listings.
LEMMA ClosedForAll ==
  ClosedInv <=> ("reopened" \notin blame =>
                   \A s \in snapshots \cap LogsOf("ResoldTicket") : ClosedFor(s))
BY DEF ClosedInv, ClosedFor

\* Only a recorded cancellation cancels.
LEMMA RecordedCancelKept ==
  ASSUME Inv, [Next]_vars, UNCHANGED chain, NEW s,
         \A p \in snapshots' \ snapshots :
           chain[p].kind = "CancelledResellTicket" => chain[p].sale # s
  PROVE  RecordedCancel(s)' <=> RecordedCancel(s)
BY SnapshotsGrow DEF RecordedCancel

\* A step that writes no listing and records no sale of the market.
LEMMA ClosedQuiet ==
  ASSUME Inv, Inv', [Next]_vars, ClosedInv, UNCHANGED listing,
         blame \subseteq blame',
         \A p \in snapshots' \ snapshots : chain[p].kind = "TicketSold"
  PROVE  ClosedInv'
<1> SUFFICES ASSUME "reopened" \notin blame',
                    NEW s \in (snapshots \cap LogsOf("ResoldTicket"))'
             PROVE  ClosedFor(s)'
  BY DEF ClosedInv, ClosedFor
<1>1. s \in snapshots' /\ s \in DOMAIN chain' /\ chain'[s].kind = "ResoldTicket"
  BY DEF LogsOf
<1>2. s \in snapshots
  <2>1. CASE s \in snapshots' \ snapshots
    BY <1>1, <2>1, SnapshotsGrow, PlacesKept DEF Inv
  <2> QED
    BY <1>1, <2>1
<1>3. s \in snapshots \cap LogsOf("ResoldTicket")
  BY <1>1, <1>2, PlacesKept DEF Inv, TypeOK, LogsOf
<1>4. ClosedFor(s)
  BY <1>3, ClosedForAll
<1>5. RecordedCancel(s)' <=> RecordedCancel(s)
  BY SnapshotsGrow, PlacesKept DEF RecordedCancel, Inv, TypeOK
<1> QED
  BY <1>4, <1>5 DEF ClosedFor

\* A listing is opened before it is cancelled, a purchase of a cancelled one
\* cannot be its last, and a cancellation closes it.
LEMMA ClosedStep ==
  ASSUME Inv, Inv', ChainInv, FreshInv, RecordInv, ExactInv, ClosedInv, [Next]_vars
  PROVE  ClosedInv'
<1> USE DEF Inv
<1>1. CASE UNCHANGED <<db, credited, blame>>
  BY <1>1, ClosedQuiet DEF db
<1>2. CASE SaveSnapshot
  <2>1. PICK p \in DOMAIN chain :
          At("TicketSold", p) /\ snapshots' = snapshots \cup {p}
    BY <1>2 DEF SaveSnapshot
  <2>2. chain[p].kind = "TicketSold"
    BY <2>1 DEF At, LogsOf
  <2> QED
    BY <1>2, <2>1, <2>2, ClosedQuiet DEF SaveSnapshot
<1>3. CASE SaveFirstSale \/ CreditBuyer
  BY <1>3, ClosedQuiet DEF SaveFirstSale, CreditBuyer
<1>4. ASSUME NEW p \in DOMAIN chain, snapshots' = snapshots \cup {p},
             UNCHANGED chain, NEW sale \in DOMAIN chain, blame \subseteq blame',
             chain[p].kind = "CancelledResellTicket" => chain[p].sale = sale,
             \A s \in Places \ {sale} : listing'[s] = listing[s],
             chain[p].kind = "ResoldTicket" => p = sale,
             "reopened" \notin blame' => ClosedFor(sale)'
      PROVE  ClosedInv'
  <2> SUFFICES ASSUME "reopened" \notin blame',
                      NEW s \in (snapshots \cap LogsOf("ResoldTicket"))'
               PROVE  ClosedFor(s)'
    BY DEF ClosedInv, ClosedFor
  <2>1. s \in snapshots' /\ s \in DOMAIN chain /\ chain[s].kind = "ResoldTicket"
    BY <1>4 DEF LogsOf
  <2>2. CASE s = sale
    BY <1>4, <2>2
  <2>3. CASE s # sale
    <3>1. s \in snapshots \cap LogsOf("ResoldTicket") /\ s \in Places
      BY <1>4, <2>1, <2>3, ChainTyped DEF LogsOf
    <3>2. ClosedFor(s) /\ listing'[s] = listing[s]
      BY <1>4, <2>3, <3>1, ClosedForAll
    <3>3. RecordedCancel(s)' <=> RecordedCancel(s)
      BY <1>4, <2>3, RecordedCancelKept
    <3> QED
      BY <3>2, <3>3 DEF ClosedFor
  <2> QED
    BY <2>2, <2>3
<1>5. CASE CommitResold
  <2>1. PICK p : ResoldAt(p)
    BY <1>5, ResoldsAt
  <2>2. p \in DOMAIN chain /\ chain[p].kind = "ResoldTicket" /\ p \notin snapshots
    BY <2>1 DEF ResoldAt, LogsOf
  <2>3. /\ listing'[p].status = "selling" /\ blame \subseteq blame'
        /\ snapshots' = snapshots \cup {p} /\ UNCHANGED chain
        /\ \A s \in Places \ {p} : listing'[s] = listing[s]
    BY <2>1 DEF ResoldAt
  <2>4. ~RecordedCancel(p)
    BY <2>2 DEF RecordedCancel, RecordInv
  <2>5. ~RecordedCancel(p)'
    BY <2>2, <2>3, <2>4, RecordedCancelKept
  <2>6. ClosedFor(p)'
    BY <2>3, <2>5 DEF ClosedFor
  <2> QED
    BY <1>4, <2>2, <2>3, <2>6
<1>6. CASE CommitBought
  <2>1. PICK p : BoughtAt(p)
    BY <1>6, BoughtsAt
  <2>2. PICK sale : sale = chain[p].sale
    OBVIOUS
  <2>3. PICK l : l = local["BoughtTicket"].listing
    OBVIOUS
  <2>4. /\ p \in DOMAIN chain /\ chain[p].kind = "BoughtTicket"
        /\ sale \in snapshots \cap LogsOf("ResoldTicket")
        /\ sale \in DOMAIN chain /\ blame \subseteq blame'
        /\ p \in BoughtFrom(sale) \ snapshots
        /\ snapshots' = snapshots \cup {p} /\ UNCHANGED chain
        /\ \A s \in Places \ {sale} : listing'[s] = listing[s]
        /\ listing'[sale] = AfterPurchase(l, Amount(p))
        /\ listing[sale].status # l.status => "reopened" \in blame'
    BY <2>1, <2>2, <2>3 DEF BoughtAt, LogsOf, BoughtFrom
  <2>5. ASSUME "reopened" \notin blame' PROVE ClosedFor(sale)'
    <3>1. l.status = listing[sale].status
      BY <2>4, <2>5
    <3>2. ClosedFor(sale)
      BY <2>4, <2>5, ClosedForAll
    <3>3. RecordedCancel(sale)' <=> RecordedCancel(sale)
      BY <2>4, RecordedCancelKept
    <3>4. listing'[sale].status = IF l.remaining = Amount(p) THEN "sold" ELSE l.status
      BY <2>4 DEF AfterPurchase
    <3>5. RecordedCancel(sale) => l.remaining # Amount(p)
      <4> SUFFICES ASSUME RecordedCancel(sale) PROVE l.remaining # Amount(p)
        OBVIOUS
      <4>1. Cancelled(sale)
        BY DEF RecordedCancel, Cancelled, LogsOf, TypeOK
      <4>2. OnSale(sale) > 0
        BY <2>4, <4>1 DEF ChainInv, SalesInv
      <4>3. l.remaining = Left(sale)
        BY <2>1, <2>2, <2>3, <2>4, BoughtReads, RightForAll DEF ExactInv, RightFor
      <4>4. /\ Left(sale) \in Int /\ OnSale(sale) \in Int /\ Amount(p) \in Nat
            /\ OnSale(sale) + Amount(p) <= Left(sale)
        BY <2>4, LeftTyped
      <4> QED
        BY <4>2, <4>3, <4>4
    <3> QED
      BY <3>1, <3>2, <3>3, <3>4, <3>5 DEF ClosedFor
  <2> QED
    BY <1>4, <2>4, <2>5
<1>7. CASE CommitCancelled
  <2>1. PICK p : CancelledAt(p)
    BY <1>7, CancelledsAt
  <2>2. PICK sale : sale = chain[p].sale
    OBVIOUS
  <2>3. /\ p \in DOMAIN chain /\ chain[p].kind = "CancelledResellTicket"
        /\ sale \in snapshots \cap LogsOf("ResoldTicket")
        /\ sale \in DOMAIN chain /\ blame \subseteq blame'
        /\ snapshots' = snapshots \cup {p} /\ UNCHANGED chain
        /\ \A s \in Places \ {sale} : listing'[s] = listing[s]
        /\ listing'[sale].status = "closed"
    BY <2>1, <2>2 DEF CancelledAt, LogsOf
  <2>4. RecordedCancel(sale)'
    BY <2>2, <2>3 DEF RecordedCancel
  <2> QED
    BY <1>4, <2>2, <2>3, <2>4 DEF ClosedFor
<1> QED
  BY <1>1, <1>2, <1>3, <1>5, <1>6, <1>7, TableSteps

\* Unless a purchase has written back an old status, closed is what was
\* cancelled (the status written by handleBoughtTicketEvent and
\* handleCancelledResellTicketEvent).
THEOREM ClosedInvariant == Spec => []ClosedInv
<1>1. Init => ClosedInv
  BY DEF Init, ClosedInv
<1> QED
  BY <1>1, ClosedStep, LedgerInvariant, ChainInvariant, FreshInvariant,
     RecordInvariant, ExactInvariant, PTL DEF Spec

\* A recorded cancellation stays recorded.
LEMMA RecordedCancelStays ==
  ASSUME Inv, Inv', [Next]_vars, NEW s, RecordedCancel(s)
  PROVE  RecordedCancel(s)'
BY SnapshotsGrow, PlacesKept DEF RecordedCancel, Inv, TypeOK

\* A purchase that has read a listing as closed holds on to a sale whose
\* cancellation is recorded.
LEMMA BoughtStatusStep ==
  ASSUME Inv, Inv', StatusInv, [Next]_vars
  PROVE  BoughtStatusInv'
<1> DEFINE k == "BoughtTicket"
<1> USE DEF Inv
<1> SUFFICES ASSUME NEW p \in DOMAIN chain', phase'[k] # "idle", At(k, p)',
                    local'[k].listing.status = "closed"
             PROVE  RecordedCancel(chain[p].sale)'
  BY DEF BoughtStatusInv
<1>0. k \in Kinds
  BY DEF Kinds
<1>1. CASE JobKept(k)
  <2>1. p \in DOMAIN chain /\ At(k, p) /\ chain'[p] = chain[p]
    BY <1>0, <1>1, HandKeeps, PlacesKept
  <2>2. RecordedCancel(chain[p].sale)
    BY <1>1, <2>1 DEF JobKept, StatusInv, BoughtStatusInv
  <2>3. PICK s : s = chain[p].sale
    OBVIOUS
  <2>4. RecordedCancel(s)'
    BY <2>2, <2>3, RecordedCancelStays
  <2>5. chain'[p].sale = s
    BY <2>1, <2>3
  <2> QED
    BY <2>4, <2>5
<1>2. CASE FindSale
  <2>1. PICK q \in DOMAIN chain :
          /\ At(k, q) /\ listing[chain[q].sale] # NoListing
          /\ Proceed(k, "ticket", [Nothing EXCEPT !.listing = listing[chain[q].sale]])
    BY <1>2 DEF FindSale
  <2>2. UNCHANGED <<chain, upTo, listing, snapshots>>
    BY <1>2 DEF FindSale, Proceed, db
  <2>3. p = q
    BY <1>0, <2>1, <2>2, AtUnique DEF At, LogsOf
  <2>4. chain[p].kind = k
    BY <1>0, <2>1, <2>3, InHandAt
  <2>5. chain[p].sale \in snapshots \cap LogsOf("ResoldTicket")
    BY <2>1, <2>3, <2>4, SaleThere
  <2>6. local'[k].listing = listing[chain[p].sale]
    BY <1>0, <2>1, <2>3 DEF Proceed, Nothing, TypeOK
  <2>7. RecordedCancel(chain[p].sale)
    BY <2>5, <2>6 DEF StatusInv, StatusFor
  <2> QED
    BY <2>2, <2>7 DEF RecordedCancel
<1>3. CASE FindPurchaserTicket
  <2>1. PICK q \in DOMAIN chain, r \in 0 .. Len(tickets) :
          /\ At(k, q) /\ FoundOne(RowsOf(chain[q].wallet), r)
          /\ Proceed(k, "commit",
                     [local[k] EXCEPT !.row = r, !.quantity = QuantityAt(r)])
    BY <1>3 DEF FindPurchaserTicket
  <2>2. UNCHANGED <<chain, upTo, snapshots>> /\ phase[k] # "idle"
    BY <1>3 DEF FindPurchaserTicket, Proceed, db
  <2>3. p = q
    BY <1>0, <2>1, <2>2, AtUnique DEF At, LogsOf
  <2>4. local'[k].listing = local[k].listing
    BY <1>0, <2>1, LocalTyped DEF Proceed, TypeOK, Local
  <2>5. RecordedCancel(chain[p].sale)
    BY <2>1, <2>2, <2>3, <2>4 DEF StatusInv, BoughtStatusInv
  <2> QED
    BY <2>2, <2>5 DEF RecordedCancel
<1>4. CASE Rewind(k)
  BY <1>4 DEF Rewind
<1>5. CASE JobRests(k)
  BY <1>5 DEF JobRests
<1> QED
  BY <1>0, <1>1, <1>2, <1>3, <1>4, <1>5, JobSteps

\* A listing that a step neither writes nor records a sale of.
LEMMA StatusKept ==
  ASSUME Inv, Inv', [Next]_vars, NEW s \in snapshots \cap LogsOf("ResoldTicket"),
         listing'[s] = listing[s], StatusFor(s),
         \A p \in snapshots' \ snapshots :
           chain[p].kind = "CancelledResellTicket" => chain[p].sale # s
  PROVE  StatusFor(s)'
<1> USE DEF Inv
<1>1. RecordedCancel(s)' <=> RecordedCancel(s)
  BY SnapshotsGrow, PlacesKept DEF RecordedCancel, TypeOK
<1>2. BoughtFrom(s) \cap snapshots \subseteq (BoughtFrom(s) \cap snapshots)'
  BY SnapshotsGrow, PlacesKept DEF BoughtFrom, LogsOf
<1> QED
  BY <1>1, <1>2 DEF StatusFor

\* Only a cancellation closes, and only a purchase opens again.
LEMMA StatusStep ==
  ASSUME Inv, Inv', FreshInv, RecordInv, ExactInv, StatusInv, [Next]_vars
  PROVE  \A s \in (snapshots \cap LogsOf("ResoldTicket"))' : StatusFor(s)'
<1> USE DEF Inv
<1> SUFFICES ASSUME NEW s \in (snapshots \cap LogsOf("ResoldTicket"))'
             PROVE  StatusFor(s)'
  OBVIOUS
<1>1. /\ s \in snapshots' /\ s \in DOMAIN chain' /\ chain'[s].kind = "ResoldTicket"
      /\ s \in Places
  BY LenProperties DEF LogsOf, TypeOK, Places
<1>2. ASSUME s \in snapshots, listing'[s] = listing[s],
             \A p \in snapshots' \ snapshots :
               chain[p].kind = "CancelledResellTicket" => chain[p].sale # s
      PROVE  StatusFor(s)'
  <2>1. s \in snapshots \cap LogsOf("ResoldTicket")
    BY <1>1, <1>2, PlacesKept DEF TypeOK, LogsOf
  <2> QED
    BY <1>2, <2>1, StatusKept DEF StatusInv
<1>3. ASSUME UNCHANGED listing,
             \A p \in snapshots' \ snapshots : chain[p].kind = "TicketSold"
      PROVE  StatusFor(s)'
  <2>1. s \in snapshots
    BY <1>1, <1>3, SnapshotsGrow, PlacesKept
  <2> QED
    BY <1>2, <1>3, <2>1
<1>4. CASE UNCHANGED <<db, credited, blame>>
  BY <1>3, <1>4 DEF db
<1>5. CASE SaveSnapshot
  <2>1. PICK p \in DOMAIN chain :
          At("TicketSold", p) /\ snapshots' = snapshots \cup {p}
    BY <1>5 DEF SaveSnapshot
  <2>2. chain[p].kind = "TicketSold"
    BY <2>1 DEF At, LogsOf
  <2> QED
    BY <1>3, <1>5, <2>1, <2>2 DEF SaveSnapshot
<1>6. CASE SaveFirstSale \/ CreditBuyer
  <2>1. UNCHANGED <<listing, snapshots>>
    BY <1>6 DEF SaveFirstSale, CreditBuyer
  <2> QED
    BY <1>3, <2>1
<1>7. CASE CommitResold
  <2>1. PICK p : ResoldAt(p)
    BY <1>7, ResoldsAt
  <2>2. p \in DOMAIN chain /\ chain[p].kind = "ResoldTicket" /\ p \notin snapshots
    BY <2>1 DEF ResoldAt, LogsOf
  <2>3. /\ listing'[p].status = "selling" /\ UNCHANGED chain
        /\ snapshots' = snapshots \cup {p}
        /\ \A q \in Places \ {p} : listing'[q] = listing[q]
    BY <2>1 DEF ResoldAt
  <2>4. CASE s = p
    <3>1. ~RecordedCancel(p)
      BY <2>2 DEF RecordedCancel, RecordInv
    <3>2. ~RecordedCancel(p)'
      BY <2>2, <2>3, <3>1 DEF RecordedCancel
    <3> QED
      BY <2>3, <2>4, <3>2 DEF StatusFor
  <2>5. CASE s # p
    BY <1>1, <1>2, <2>2, <2>3, <2>5
  <2> QED
    BY <2>4, <2>5
<1>8. CASE CommitBought
  <2>1. PICK p : BoughtAt(p)
    BY <1>8, BoughtsAt
  <2>2. PICK sale : sale = chain[p].sale
    OBVIOUS
  <2>3. PICK l : l = local["BoughtTicket"].listing
    OBVIOUS
  <2>4. /\ p \in DOMAIN chain /\ chain[p].kind = "BoughtTicket"
        /\ p \in BoughtFrom(sale)
        /\ snapshots' = snapshots \cup {p} /\ UNCHANGED chain
        /\ \A q \in Places \ {sale} : listing'[q] = listing[q]
        /\ listing'[sale] = AfterPurchase(l, Amount(p))
        /\ phase["BoughtTicket"] # "idle" /\ At("BoughtTicket", p)
    BY <2>1, <2>2, <2>3 DEF BoughtAt, LogsOf, BoughtFrom
  <2>5. CASE s = sale
    <3>1. listing'[s].status = "closed" => l.status = "closed"
      BY <2>4, <2>5 DEF AfterPurchase
    <3>2. l.status = "closed" => RecordedCancel(s)
      BY <2>2, <2>3, <2>4, <2>5 DEF StatusInv, BoughtStatusInv
    <3>3. RecordedCancel(s) => RecordedCancel(s)'
      BY RecordedCancelStays
    <3>4. p \in (BoughtFrom(s) \cap snapshots)'
      BY <2>4, <2>5 DEF BoughtFrom, LogsOf
    <3> QED
      BY <3>1, <3>2, <3>3, <3>4 DEF StatusFor
  <2>6. CASE s # sale
    <3>1. s \in snapshots
      BY <1>1, <2>4
    <3> QED
      BY <1>1, <1>2, <2>4, <2>6, <3>1
  <2> QED
    BY <2>5, <2>6
<1>9. CASE CommitCancelled
  <2>1. PICK p : CancelledAt(p)
    BY <1>9, CancelledsAt
  <2>2. PICK sale : sale = chain[p].sale
    OBVIOUS
  <2>3. /\ p \in DOMAIN chain /\ chain[p].kind = "CancelledResellTicket"
        /\ snapshots' = snapshots \cup {p} /\ UNCHANGED chain
        /\ \A q \in Places \ {sale} : listing'[q] = listing[q]
        /\ listing'[sale].status = "closed"
    BY <2>1, <2>2 DEF CancelledAt, LogsOf
  <2>4. CASE s = sale
    <3>1. RecordedCancel(s)'
      BY <2>2, <2>3, <2>4 DEF RecordedCancel
    <3> QED
      BY <2>3, <2>4, <3>1 DEF StatusFor
  <2>5. CASE s # sale
    <3>1. s \in snapshots
      BY <1>1, <2>3
    <3> QED
      BY <1>1, <1>2, <2>2, <2>3, <2>5, <3>1
  <2> QED
    BY <2>4, <2>5
<1> QED
  BY <1>4, <1>5, <1>6, <1>7, <1>8, <1>9, TableSteps

\* Closed listings have been cancelled, and cancelled ones that are on offer
\* again have been bought from (the status that handleBoughtTicketEvent saves
\* with the row, against handleCancelledResellTicketEvent).
THEOREM StatusInvariant == Spec => []StatusInv
<1>1. Init => StatusInv
  BY DEF Init, StatusInv, BoughtStatusInv
<1>2. Inv /\ Inv' /\ FreshInv /\ RecordInv /\ ExactInv /\ StatusInv /\ [Next]_vars
        => StatusInv'
  BY StatusStep, BoughtStatusStep DEF StatusInv
<1> QED
  BY <1>1, <1>2, LedgerInvariant, FreshInvariant, RecordInvariant,
     ExactInvariant, PTL DEF Spec

\* The rows that are on offer.
LEMMA OfferRows ==
  ASSUME Inv, ExactInv
  PROVE  \A s \in Places :
           /\ listing[s] # NoListing =>
                /\ s \in snapshots \cap LogsOf("ResoldTicket")
                /\ RightFor(s) /\ chain[s].wallet \in Wallets
                /\ RowsOf(chain[s].wallet) # {} /\ DOMAIN tickets # {}
                /\ listing[s] \in [remaining : Int, status : Statuses]
           /\ listing[s] = NoListing => listing[s].status = "none"
<1> USE DEF Inv
<1> TAKE s \in Places
<1>1. ASSUME listing[s] # NoListing
      PROVE  /\ s \in snapshots \cap LogsOf("ResoldTicket")
             /\ RightFor(s) /\ chain[s].wallet \in Wallets
             /\ RowsOf(chain[s].wallet) # {} /\ DOMAIN tickets # {}
             /\ listing[s] \in [remaining : Int, status : Statuses]
  <2>1. s \in LogsOf("ResoldTicket")
    BY <1>1 DEF LedgerInv, ListingInv
  <2>2. s \in DOMAIN chain /\ chain[s].kind = "ResoldTicket"
    BY <2>1 DEF LogsOf
  <2>3. s \in snapshots
    BY <1>1, <2>2 DEF LedgerInv, MarketAtomic
  <2>4. RightFor(s)
    BY <2>1, <2>3, RightForAll DEF ExactInv
  <2>5. chain[s].wallet \in Wallets
    BY <2>2, ChainTyped
  <2>6. RowsOf(chain[s].wallet) # {}
    BY <1>1 DEF LedgerInv, RefundHasRow
  <2>7. DOMAIN tickets # {}
    BY <2>6 DEF RowsOf
  <2> QED
    BY <2>1, <2>3, <2>4, <2>5, <2>6, <2>7, ListingTyped
<1> QED
  BY <1>1 DEF NoListing

\* The four queries, one pair after the other.
LEMMA ListsHold ==
  ASSUME Inv, ExactInv, RecordInv
  PROVE  ListsAgree
<1> USE DEF Inv
<1>1. \A s \in Places :
        listing[s].status \in {"selling", "sold", "closed"} => listing[s] # NoListing
  BY DEF NoListing
<1>2. GetResaleTicket = GetResaleTicketDetails
  <2>1. ASSUME NEW s \in Places, listing[s].status = "selling"
        PROVE  listing[s].remaining > 0
    <3>1. listing[s] # NoListing
      BY <1>1, <2>1
    <3> QED
      BY <2>1, <3>1, OfferRows DEF RightFor
  <2> QED
    BY <2>1 DEF GetResaleTicket, GetResaleTicketDetails
<1>3. ASSUME NEW w
      PROVE  GetSellingTicketByUserId(w).recorded \ FirstSalesOf(w)
               = {s \in GetResaleTicket : chain[s].wallet = w}
  <2> DEFINE selling == {s \in Places : /\ listing[s] # NoListing
                                       /\ chain[s].wallet = w
                                       /\ listing[s].remaining > 0
                                       /\ listing[s].status # "closed"}
  <2>1. GetSellingTicketByUserId(w).recorded = FirstSalesOf(w) \cup selling
    BY DEF GetSellingTicketByUserId
  <2>2. ASSUME NEW s, s \in GetResaleTicket, chain[s].wallet = w
        PROVE  s \in selling
    <3>1. /\ s \in Places /\ listing[s].status = "selling"
          /\ listing[s] # NoListing /\ listing[s].remaining > 0
      BY <1>1, <1>2, <2>2 DEF GetResaleTicket, GetResaleTicketDetails
    <3> QED
      BY <2>2, <3>1
  <2>3. ASSUME NEW s \in selling
        PROVE  /\ s \in GetResaleTicket /\ chain[s].wallet = w
               /\ s \notin FirstSalesOf(w)
    <3>1. /\ s \in Places /\ listing[s] # NoListing /\ listing[s].remaining > 0
          /\ listing[s].status # "closed" /\ chain[s].wallet = w
      OBVIOUS
    <3>2. /\ RightFor(s) /\ listing[s] \in [remaining : Int, status : Statuses]
          /\ s \in LogsOf("ResoldTicket")
      BY <3>1, OfferRows
    <3>3. listing[s].status # "sold"
      BY <3>1, <3>2 DEF RightFor
    <3>4. s \notin firstSales
      BY <3>2 DEF RecordInv, LogsOf
    <3> QED
      BY <3>1, <3>2, <3>3, <3>4 DEF GetResaleTicket, Statuses, FirstSalesOf
  <2> HIDE DEF selling
  <2>4. selling \ FirstSalesOf(w) = {s \in GetResaleTicket : chain[s].wallet = w}
    BY <2>2, <2>3
  <2> QED
    BY <2>1, <2>4
<1>4. GetResaleTicket = {line[1] : line \in GetResaleTicketByPrice} \ firstSales
  <2>1. ASSUME NEW s \in GetResaleTicket
        PROVE  /\ s \notin firstSales
               /\ \E line \in GetResaleTicketByPrice : s = line[1]
    <3>1. s \in Places /\ listing[s].status = "selling" /\ listing[s] # NoListing
      BY <1>1 DEF GetResaleTicket
    <3>2. s \in LogsOf("ResoldTicket") /\ DOMAIN tickets # {}
      BY <3>1, OfferRows
    <3>3. PICK r : r \in DOMAIN tickets
      BY <3>2
    <3>4. <<s, r>> \in GetResaleTicketByPrice
      BY <3>1, <3>3 DEF GetResaleTicketByPrice
    <3>5. s \notin firstSales
      BY <3>2 DEF RecordInv, LogsOf
    <3> QED
      BY <3>4, <3>5
  <2>2. ASSUME NEW line \in GetResaleTicketByPrice, line[1] \notin firstSales
        PROVE  line[1] \in GetResaleTicket
    BY <2>2 DEF GetResaleTicket, GetResaleTicketByPrice
  <2> QED
    BY <2>1, <2>2
<1> QED
  BY <1>2, <1>3, <1>4 DEF ListsAgree

\* What is on offer, and what the logs leave open.
LEMMA OffersHold ==
  ASSUME Inv, ExactInv, ClosedInv, StatusInv
  PROVE  OffersOpen
<1> USE DEF Inv
<1>1. \A s \in Places : listing[s].status = "selling" => listing[s] # NoListing
  BY DEF NoListing
<1>2. ASSUME NEW s
      PROVE  /\ s \in Open => s \in GetResaleTicket
             /\ s \in GetResaleTicket /\ s \notin Open =>
                  RecordedCancel(s) /\ BoughtFrom(s) \cap snapshots # {}
             /\ "reopened" \notin blame => (s \in GetResaleTicket => s \in Open)
  <2>1. ASSUME s \in snapshots \cap LogsOf("ResoldTicket")
        PROVE  /\ s \in Open => s \in GetResaleTicket
               /\ s \in GetResaleTicket /\ s \notin Open =>
                    RecordedCancel(s) /\ BoughtFrom(s) \cap snapshots # {}
               /\ "reopened" \notin blame => (s \in GetResaleTicket => s \in Open)
    <3>1. /\ RightFor(s) /\ StatusFor(s)
          /\ "reopened" \notin blame => ClosedFor(s)
      BY <2>1, RightForAll, ClosedForAll DEF ExactInv, StatusInv
    <3>2. /\ listing[s] \in [remaining : Int, status : Statuses]
          /\ s \in Places /\ s \in DOMAIN chain
      BY <2>1, ListingTyped
    <3>3. PICK t : t = Total(BoughtFrom(s) \cap snapshots)
      OBVIOUS
    <3>4. t \in Nat /\ Amount(s) \in Nat /\ Left(s) = Amount(s) - t
      BY <3>2, <3>3, TotalIs, BoughtIn, ChainTyped DEF Left
    <3>5. listing[s].remaining = 0 <=> ~(t < Amount(s))
      BY <3>1, <3>4 DEF RightFor
    <3>6. s \in GetResaleTicket <=> listing[s].status = "selling"
      BY <3>2 DEF GetResaleTicket
    <3>7. listing[s].status = "selling" <=>
            listing[s].status # "closed" /\ listing[s].status # "sold"
      BY <3>2 DEF Statuses
    <3>8. s \in Open <=> ~RecordedCancel(s) /\ t < Amount(s)
      BY <2>1, <3>3 DEF Open
    <3>9. s \in GetResaleTicket <=> listing[s].status # "closed" /\ t < Amount(s)
      BY <3>1, <3>5, <3>6, <3>7 DEF RightFor
    <3> QED
      BY <3>1, <3>8, <3>9 DEF StatusFor, ClosedFor
  <2>2. s \in GetResaleTicket \/ s \in Open =>
          s \in snapshots \cap LogsOf("ResoldTicket")
    BY <1>1, OfferRows DEF GetResaleTicket, Open
  <2> QED
    BY <2>1, <2>2
<1> QED
  BY <1>2 DEF OffersOpen

\* Drafts come and go beside the ledger: what holds of it holds with them.
THEOREM LedgerBesideDrafts == QuerySpec => Spec
<1>1. QueryInit => Init
  BY DEF QueryInit
<1>2. [QueryNext]_queryVars => [Next]_vars
  <2>1. QueryNext => Next \/ UNCHANGED vars
    BY DEF QueryNext, DraftResale, Next, Contracts, Handlers
  <2>2. UNCHANGED queryVars => UNCHANGED vars
    BY DEF queryVars
  <2> QED
    BY <2>1, <2>2
<1> QED
  BY <1>1, <1>2, PTL DEF QuerySpec, Spec

\* Whatever the handlers are doing, the lists of getResaleTicket,
\* getResaleTicketDetails and getResaleTicketByPrice name the same resales, and
\* what getSellingTicketByUserId shows of the recorded rows are the seller's
\* among them, next to an organizer's first sales.
THEOREM ListsAgreeAlways == QuerySpec => []ListsAgree
<1>1. Inv /\ ExactInv /\ RecordInv => ListsAgree
  BY ListsHold
<1> QED
  BY <1>1, LedgerBesideDrafts, LedgerInvariant, ExactInvariant, RecordInvariant,
     PTL

\* Every resale that the recorded logs leave open is on offer, and one that is
\* on offer without being open has been cancelled and bought from, and that by
\* a purchase that wrote back an old status (getResaleTicket,
\* handleBoughtTicketEvent, handleCancelledResellTicketEvent).
THEOREM OffersOpenAlways == QuerySpec => []OffersOpen
<1>1. Inv /\ ExactInv /\ ClosedInv /\ StatusInv => OffersOpen
  BY OffersHold
<1> QED
  BY <1>1, LedgerBesideDrafts, LedgerInvariant, ExactInvariant, ClosedInvariant,
     StatusInvariant, PTL

-------------------------------------------------------------------------------
(* Cancellations give back what is left. *)

\* What was left of a cancelled listing is not sold any more.
LEMMA OnSaleFixed ==
  ASSUME Inv, Inv', [Next]_vars, NEW s \in LogsOf("ResoldTicket"), Cancelled(s)
  PROVE  OnSale(s)' = OnSale(s)
<1> USE DEF Inv
<1>0. s \in DOMAIN chain /\ chain[s].kind = "ResoldTicket"
  BY DEF LogsOf
<1>1. CASE UNCHANGED chain
  BY <1>0, <1>1, OnSaleKept
<1>2. ASSUME NEW e \in Event, Emit(e), Checked(e)
      PROVE  OnSale(s)' = OnSale(s)
  <2>1. PICK n : n = Len(chain) + 1
    OBVIOUS
  <2>2. s # n /\ s \in LogsOf("ResoldTicket")'
    BY <1>0, <2>1, ChainTyped, PlacesKept DEF LogsOf
  <2>3. ~(e.kind = "BoughtTicket" /\ e.sale = s)
    BY <1>2 DEF Checked
  <2>4. OnSale(s)' = OnSale(s) -
                  (IF e.kind = "BoughtTicket" /\ e.sale = s THEN e.amount ELSE 0)
    BY <1>2, <2>1, <2>2, OnSaleEmitted
  <2> QED
    BY <1>0, <2>3, <2>4, OnSaleTyped
<1> QED
  BY <1>1, <1>2, ChainSteps

\* When everything that is left is what is on sale, no purchase is outstanding.
LEMMA SoldOutKept ==
  ASSUME Inv, ChainInv, FreshInv, [Next]_vars,
         NEW s \in snapshots \cap LogsOf("ResoldTicket"),
         RightFor(s), listing[s].remaining = OnSale(s)
  PROVE  listing'[s].remaining = listing[s].remaining
<1> USE DEF Inv
<1>1. CASE ~CommitBought
  BY <1>1, RemainingKept
<1>2. CASE CommitBought
  <2>1. PICK q : BoughtAt(q)
    BY <1>2, BoughtsAt
  <2>2. s \in Places /\ s \in DOMAIN chain
    BY ListingTyped
  <2>3. chain[q].sale # s
    <3> SUFFICES ASSUME chain[q].sale = s PROVE FALSE
      OBVIOUS
    <3>1. q \in BoughtFrom(s) \ snapshots
      BY <2>1 DEF BoughtAt, BoughtFrom
    <3>2. /\ Amount(q) \in Nat /\ OnSale(s) + Amount(q) <= Left(s)
          /\ OnSale(s) \in Int
      BY <2>2, <3>1, LeftTyped
    <3>3. Amount(q) > 0
      BY <3>1 DEF ChainInv, LogsInv, BoughtFrom, LogsOf
    <3>4. Left(s) = OnSale(s)
      BY DEF RightFor
    <3> QED
      BY <3>2, <3>3, <3>4
  <2> QED
    BY <2>1, <2>2, <2>3 DEF BoughtAt
<1> QED
  BY <1>1, <1>2

\* The causes of drift are named by strings with a blank, which the SMT solver
\* does not read: they are kept out of the steps that count.
EarlyRefund == "early refund" \in blame

\* A cancellation that is not blamed gives back what is on sale.
LEMMA NotEarly ==
  ASSUME NEW p, CancelledAt(p), ~EarlyRefund'
  PROVE  local["CancelledResellTicket"].listing.remaining = OnSale(chain[p].sale)
BY Zenon DEF CancelledAt, EarlyRefund

\* And that is all that is left of the listing.
LEMMA RefundFull ==
  ASSUME Inv, ExactInv, CancelledReadInv, NEW p, CancelledAt(p),
         local["CancelledResellTicket"].listing.remaining = OnSale(chain[p].sale)
  PROVE  listing[chain[p].sale].remaining = OnSale(chain[p].sale)
<1> DEFINE k == "CancelledResellTicket"
<1> USE DEF Inv
<1>1. PICK sale : sale = chain[p].sale
  OBVIOUS
<1>2. PICK n : n = local[k].listing.remaining
  OBVIOUS
<1>3. /\ sale \in snapshots \cap LogsOf("ResoldTicket") /\ p \in DOMAIN chain
      /\ phase[k] # "idle" /\ At(k, p) /\ n = OnSale(sale)
  BY <1>1, <1>2 DEF CancelledAt, LogsOf
<1>4. listing[sale].remaining <= n
  BY <1>1, <1>2, <1>3 DEF CancelledReadInv, CancelledRead
<1>5. RightFor(sale) /\ sale \in DOMAIN chain
  BY <1>3, RightForAll, ListingTyped DEF ExactInv
<1>6. /\ Left(sale) \in Int /\ OnSale(sale) \in Int /\ OnSale(sale) <= Left(sale)
      /\ listing[sale].remaining = Left(sale)
  BY <1>5, LeftTyped DEF RightFor
<1>7. listing[sale].remaining = OnSale(sale)
  BY <1>3, <1>4, <1>6
<1> QED
  BY <1>1, <1>7

\* A cancellation that is not blamed found no purchase outstanding, and none
\* can follow.
LEMMA RefundStep ==
  ASSUME Inv, Inv', ChainInv, FreshInv, RecordInv, ExactInv, CancelledReadInv,
         RefundInv, [Next]_vars
  PROVE  RefundInv'
<1> USE DEF Inv
<1> DEFINE k == "CancelledResellTicket"
<1> SUFFICES ASSUME ~EarlyRefund', NEW p \in snapshots', chain'[p].kind = k
             PROVE  (listing[chain[p].sale].remaining = OnSale(chain[p].sale))'
  BY Zenon DEF RefundInv, EarlyRefund
<1>1. p \in DOMAIN chain /\ chain'[p] = chain[p] /\ chain[p].kind = k
  BY SnapshotsGrow, PlacesKept DEF TypeOK
<1>2. PICK sale : sale = chain[p].sale
  OBVIOUS
<1>3. /\ sale \in LogsOf("ResoldTicket") /\ sale \in DOMAIN chain
      /\ Cancelled(sale)
  BY <1>1, <1>2, SaleThere DEF Cancelled, LogsOf
<1>4. OnSale(sale)' = OnSale(sale)
  BY <1>3, OnSaleFixed
<1>5. \A q \in snapshots : chain[q].kind = k =>
        listing[chain[q].sale].remaining = OnSale(chain[q].sale)
  <2>1. blame \subseteq blame'
    BY TableSteps DEF SaveSnapshot, SaveFirstSale, CreditBuyer, CommitResold,
       CommitBought, CommitCancelled
  <2>2. ~EarlyRefund
    BY <2>1, Zenon DEF EarlyRefund
  <2> QED
    BY <2>2, Zenon DEF RefundInv, EarlyRefund
<1>6. CASE p \in snapshots
  <2>1. sale \in snapshots \cap LogsOf("ResoldTicket")
    BY <1>1, <1>2, <1>3, <1>6 DEF RecordInv
  <2>2. RightFor(sale) /\ listing[sale].remaining = OnSale(sale)
    BY <1>1, <1>2, <1>5, <1>6, <2>1, RightForAll DEF ExactInv
  <2>3. listing'[sale].remaining = listing[sale].remaining
    BY <2>1, <2>2, SoldOutKept
  <2>4. (listing[sale].remaining = OnSale(sale))'
    BY <1>4, <2>2, <2>3
  <2> QED
    BY <1>1, <1>2, <2>4
<1>7. CASE p \notin snapshots
  <2>1. CommitCancelled
    <3>1. ASSUME NEW j, NEW q, At(j, q), snapshots' = snapshots \cup {q}
          PROVE  j = k
      BY <1>1, <1>7, <3>1 DEF At, LogsOf
    <3>2. ~SaveSnapshot
      BY <3>1 DEF SaveSnapshot
    <3>3. ~CommitResold
      BY <3>1 DEF CommitResold
    <3>4. ~CommitBought
      BY <3>1 DEF CommitBought
    <3> QED
      BY <1>7, <3>2, <3>3, <3>4, TableSteps DEF db, SaveFirstSale, CreditBuyer
  <2>2. PICK q : CancelledAt(q)
    BY <2>1, CancelledsAt
  <2>3. q = p
    BY <1>7, <2>2 DEF CancelledAt
  <2>4. listing'[sale].remaining = listing[sale].remaining
    BY <1>2, <2>2, <2>3 DEF CancelledAt
  <2>5. listing[sale].remaining = OnSale(sale)
    BY <1>2, <2>2, <2>3, NotEarly, RefundFull
  <2>10. (listing[sale].remaining = OnSale(sale))'
    BY <1>4, <2>4, <2>5
  <2> QED
    BY <1>1, <1>2, <2>10
<1> QED
  BY <1>6, <1>7

\* Unless a refund came early, a cancelled listing keeps the remainder that
\* was given back (handleCancelledResellTicketEvent).
THEOREM RefundInvariant == Spec => []RefundInv
<1>1. Init => RefundInv
  BY DEF Init, RefundInv
<1> QED
  BY <1>1, RefundStep, LedgerInvariant, ChainInvariant, FreshInvariant,
     RecordInvariant, ExactInvariant, CancelledReadInvariant, PTL DEF Spec

-------------------------------------------------------------------------------
(* What the ticket rows of a wallet add up to. *)

\* The quantities of the rows, as a function to sum.
quantityOf == [r \in DOMAIN tickets |-> tickets[r].quantity]

\* Quantities is the sum of quantityOf; to be primed.
QuantitySums ==
  \A w : IsFiniteSet(RowsOf(w)) /\ (\A r \in RowsOf(w) : tickets[r].quantity \in Int)
           => Quantities(w) = Sum(quantityOf, RowsOf(w))

\* What a wallet's rows show is a Sum of a function.
LEMMA QuantitiesAreSums == QuantitySums
<1> SUFFICES ASSUME NEW w, IsFiniteSet(RowsOf(w)),
                    \A r \in RowsOf(w) : tickets[r].quantity \in Int
             PROVE  Quantities(w) = Sum(quantityOf, RowsOf(w))
  BY DEF QuantitySums
<1> DEFINE S == RowsOf(w)
           Body(g) == [s \in SUBSET S |->
              IF s = {} THEN 0 ELSE tickets[First(s)].quantity + g[s \ {First(s)}]]
<1>1. Quantities(w) = (CHOOSE g : g = Body(g))[S]
  BY Zenon DEF Quantities, MapThenSumSet, MapThenFoldSet, First
<1>2. \A g : Body(g) = SumBody(g, quantityOf, S)
  BY FirstIn DEF quantityOf, SumBody, RowsOf
<1>3. \A r \in S : quantityOf[r] \in Int
  BY DEF quantityOf, RowsOf
<1>4. \E h : h = SumBody(h, quantityOf, S)
  <2>1. IsFiniteSet(S)
    OBVIOUS
  <2> HIDE DEF S
  <2> QED
    BY <1>3, <2>1, SumBodyExists
<1>5. PICK c : c = SumBody(c, quantityOf, S) /\ Quantities(w) = c[S]
  <2> HIDE DEF Body, S
  <2> QED
    BY <1>1, <1>2, <1>4
<1> QED
  BY <1>3, <1>5, SumBodyIs

\* The rows of a wallet and what they show, to be primed.
QuantitiesTyped ==
  TypeOK => \A w : /\ IsFiniteSet(RowsOf(w))
                   /\ \A r \in RowsOf(w) : quantityOf[r] = tickets[r].quantity
                                             /\ quantityOf[r] \in Int
                   /\ Quantities(w) = Sum(quantityOf, RowsOf(w))
                   /\ Quantities(w) \in Int

\* A wallet has finitely many rows, and they show a number.
LEMMA QuantitiesAre == QuantitiesTyped
<1> SUFFICES ASSUME TypeOK, NEW w
             PROVE  /\ IsFiniteSet(RowsOf(w))
                    /\ \A r \in RowsOf(w) : quantityOf[r] = tickets[r].quantity
                                             /\ quantityOf[r] \in Int
                    /\ Quantities(w) = Sum(quantityOf, RowsOf(w))
                    /\ Quantities(w) \in Int
  BY DEF QuantitiesTyped
<1>1. IsFiniteSet(RowsOf(w))
  <2>1. IsFiniteSet(DOMAIN tickets)
    BY TicketsTyped, FS_Interval
  <2> QED
    BY <2>1, FS_Subset DEF RowsOf
<1>2. \A r \in RowsOf(w) : /\ quantityOf[r] = tickets[r].quantity
                           /\ quantityOf[r] \in Int /\ tickets[r].quantity \in Int
  BY TicketsTyped DEF RowsOf, quantityOf
<1>3. Quantities(w) = Sum(quantityOf, RowsOf(w))
  BY <1>1, <1>2, QuantitiesAreSums DEF QuantitySums
<1>4. Sum(quantityOf, RowsOf(w)) \in Int
  BY <1>1, <1>2, SumInt
<1> QED
  BY <1>1, <1>2, <1>3, <1>4

\* The same in the next state.
LEMMA QuantitiesAreNext == QuantitiesTyped'
BY QuantitiesAre, PTL

\* The rows of v show d more, and those of others what they showed.
RowsMove(v, d) ==
  /\ Quantities(v)' = Quantities(v) + d
  /\ \A w : w # v => Quantities(w)' = Quantities(w)

\* A wallet whose rows stay as they are.
LEMMA QuantitiesKept ==
  ASSUME TypeOK, TypeOK', NEW w, RowsOf(w)' = RowsOf(w),
         \A r \in RowsOf(w) : tickets'[r].quantity = tickets[r].quantity
  PROVE  Quantities(w)' = Quantities(w)
<1>1. PICK R : R = RowsOf(w)
  OBVIOUS
<1>2. /\ IsFiniteSet(R) /\ \A r \in R : quantityOf[r] = tickets[r].quantity
                                          /\ quantityOf[r] \in Int
      /\ Quantities(w) = Sum(quantityOf, R)
  BY <1>1, QuantitiesAre DEF QuantitiesTyped
<1>3. /\ \A r \in R : quantityOf'[r] = tickets'[r].quantity
      /\ Quantities(w)' = Sum(quantityOf', R)
  BY <1>1, QuantitiesAreNext DEF QuantitiesTyped
<1>4. \A r \in R : quantityOf'[r] = quantityOf[r]
  BY <1>1, <1>2, <1>3
<1>5. Sum(quantityOf', R) = Sum(quantityOf, R)
  BY <1>2, <1>4, SumSame
<1> QED
  BY <1>2, <1>3, <1>5

\* Saving a quantity moves the difference.
LEMMA PutMoves ==
  ASSUME TypeOK, TypeOK', NEW v, NEW r \in RowsOf(v), NEW n \in Int,
         PutQuantity(r, n)
  PROVE  RowsMove(v, n - tickets[r].quantity)
<1>1. /\ r \in DOMAIN tickets /\ tickets[r].owner = v
      /\ DOMAIN tickets' = DOMAIN tickets
      /\ tickets'[r].owner = tickets[r].owner /\ tickets'[r].quantity = n
      /\ \A q \in DOMAIN tickets \ {r} : tickets'[q] = tickets[q]
  BY PutWrites DEF RowsOf
<1>2. \A w : RowsOf(w)' = RowsOf(w)
  BY <1>1 DEF RowsOf
<1>3. ASSUME NEW w, w # v
      PROVE  Quantities(w)' = Quantities(w)
  <2>1. \A q \in RowsOf(w) : tickets'[q].quantity = tickets[q].quantity
    BY <1>1, <1>3 DEF RowsOf
  <2> QED
    BY <1>2, <2>1, QuantitiesKept
<1>4. PICK R : R = RowsOf(v)
  OBVIOUS
<1>5. /\ IsFiniteSet(R) /\ Quantities(v) = Sum(quantityOf, R)
      /\ \A q \in R : /\ quantityOf[q] = tickets[q].quantity /\ quantityOf[q] \in Int
  BY <1>4, QuantitiesAre DEF QuantitiesTyped
<1>6. /\ Quantities(v)' = Sum(quantityOf', R)
      /\ \A q \in R : /\ quantityOf'[q] = tickets'[q].quantity
                      /\ quantityOf'[q] \in Int
  BY <1>2, <1>4, QuantitiesAreNext DEF QuantitiesTyped
<1>7. r \in R /\ \A q \in R \ {r} : quantityOf[q] = quantityOf'[q]
  BY <1>1, <1>4, <1>5, <1>6 DEF RowsOf
<1>8. Sum(quantityOf', R) = Sum(quantityOf, R) + (quantityOf'[r] - quantityOf[r])
  BY <1>5, <1>6, <1>7, SumOne
<1>9. Quantities(v)' = Quantities(v) + (n - tickets[r].quantity)
  BY <1>1, <1>5, <1>6, <1>7, <1>8
<1> QED
  BY <1>3, <1>9 DEF RowsMove

\* Inserting a row moves its quantity.
LEMMA InsertMoves ==
  ASSUME TypeOK, TypeOK', NEW v \in Owner, NEW n \in Int, InsertTicket(v, n)
  PROVE  RowsMove(v, n)
<1>0. PICK r : r = Len(tickets) + 1
  OBVIOUS
<1>1. /\ r \notin DOMAIN tickets /\ DOMAIN tickets' = DOMAIN tickets \cup {r}
      /\ tickets'[r].owner = v /\ tickets'[r].quantity = n
      /\ \A q \in DOMAIN tickets : tickets'[q] = tickets[q]
  BY <1>0, InsertWrites
<1>2. ASSUME NEW w, w # v
      PROVE  Quantities(w)' = Quantities(w)
  <2>1. RowsOf(w)' = RowsOf(w)
    BY <1>1, <1>2 DEF RowsOf
  <2>2. \A q \in RowsOf(w) : tickets'[q].quantity = tickets[q].quantity
    BY <1>1 DEF RowsOf
  <2> QED
    BY <2>1, <2>2, QuantitiesKept
<1>3. PICK R : R = RowsOf(v)
  OBVIOUS
<1>4. r \notin R /\ RowsOf(v)' = R \cup {r}
  BY <1>1, <1>3 DEF RowsOf
<1>5. /\ IsFiniteSet(R) /\ Quantities(v) = Sum(quantityOf, R)
      /\ \A q \in R : /\ quantityOf[q] = tickets[q].quantity /\ quantityOf[q] \in Int
  BY <1>3, QuantitiesAre DEF QuantitiesTyped
<1>6. /\ Quantities(v)' = Sum(quantityOf', R \cup {r})
      /\ \A q \in R \cup {r} : /\ quantityOf'[q] = tickets'[q].quantity
                               /\ quantityOf'[q] \in Int
  BY <1>4, QuantitiesAreNext DEF QuantitiesTyped
<1>7. Sum(quantityOf', R \cup {r}) = quantityOf'[r] + Sum(quantityOf', R)
  BY <1>4, <1>5, <1>6, SumAdd
<1>8. Sum(quantityOf', R) = Sum(quantityOf, R)
  <2>1. \A q \in R : quantityOf[q] = quantityOf'[q]
    BY <1>1, <1>3, <1>5, <1>6 DEF RowsOf
  <2> QED
    BY <1>5, <2>1, SumSame
<1>9. Quantities(v)' = Quantities(v) + n
  <2>1. Quantities(v) \in Int
    BY QuantitiesAre DEF QuantitiesTyped
  <2> QED
    BY <1>1, <1>5, <1>6, <1>7, <1>8, <2>1
<1> QED
  BY <1>2, <1>9 DEF RowsMove

-------------------------------------------------------------------------------
(* What the recorded logs leave in the hands of a wallet. *)

\* The refunds of cancellations, as a function to sum.
refundOf == [p \in DOMAIN chain |-> Refund(p)]

\* What the cancellations in S give back.
Refunds(S) == MapThenSumSet(Refund, S)

\* Refunds is the sum of refundOf; to be primed.
RefundSums ==
  \A S \in SUBSET DOMAIN chain :
    IsFiniteSet(S) /\ (\A p \in S : Refund(p) \in Int)
      => Refunds(S) = Sum(refundOf, S)

\* What cancellations give back is a Sum of a function.
LEMMA RefundIsSum == RefundSums
<1> SUFFICES ASSUME NEW S \in SUBSET DOMAIN chain, IsFiniteSet(S),
                    \A p \in S : Refund(p) \in Int
             PROVE  Refunds(S) = Sum(refundOf, S)
  BY DEF RefundSums
<1> DEFINE Body(g) == [s \in SUBSET S |->
              IF s = {} THEN 0 ELSE Refund(First(s)) + g[s \ {First(s)}]]
<1>1. Refunds(S) = (CHOOSE g : g = Body(g))[S]
  BY Zenon DEF Refunds, MapThenSumSet, MapThenFoldSet, First
<1>2. \A g : Body(g) = SumBody(g, refundOf, S)
  BY FirstIn DEF refundOf, SumBody
<1>3. \E h : h = SumBody(h, refundOf, S)
  BY SumBodyExists DEF refundOf
<1>4. PICK c : c = SumBody(c, refundOf, S) /\ Refunds(S) = c[S]
  <2> HIDE DEF Body
  <2> QED
    BY <1>1, <1>2, <1>3
<1> QED
  BY <1>4, SumBodyIs DEF refundOf

\* The same in the next state.
LEMMA RefundIsSumNext == RefundSums'
BY RefundIsSum, PTL

\* Cancellations refer to a listing, so what they give back is a number.
LEMMA RefundsTyped ==
  ASSUME Inv, NEW S \in SUBSET LogsOf("CancelledResellTicket")
  PROVE  /\ S \in SUBSET DOMAIN chain /\ IsFiniteSet(S)
         /\ \A p \in S : /\ Refund(p) \in Int /\ refundOf[p] = Refund(p)
                         /\ chain[p].sale \in LogsOf("ResoldTicket")
                         /\ Cancelled(chain[p].sale)
         /\ Refunds(S) = Sum(refundOf, S) /\ Refunds(S) \in Int
<1> USE DEF Inv
<1>1. S \in SUBSET DOMAIN chain
  BY DEF LogsOf
<1>2. IsFiniteSet(S)
  BY <1>1, AmountsTyped
<1>3. ASSUME NEW p \in S
      PROVE  /\ Refund(p) \in Int /\ refundOf[p] = Refund(p)
             /\ chain[p].sale \in LogsOf("ResoldTicket")
             /\ Cancelled(chain[p].sale)
  <2>1. p \in DOMAIN chain /\ chain[p].kind = "CancelledResellTicket"
    BY DEF LogsOf
  <2>2. /\ chain[p].sale \in DOMAIN chain
        /\ chain[p].sale \in LogsOf("ResoldTicket")
    BY <2>1, SaleThere
  <2>3. Cancelled(chain[p].sale)
    BY DEF Cancelled
  <2>4. Refund(p) \in Int
    BY <2>2, OnSaleTyped DEF Refund
  <2> QED
    BY <2>1, <2>2, <2>3, <2>4 DEF refundOf
<1>4. Refunds(S) = Sum(refundOf, S)
  BY <1>1, <1>2, <1>3, RefundIsSum DEF RefundSums
<1>5. Sum(refundOf, S) \in Int
  BY <1>2, <1>3, SumInt
<1> QED
  BY <1>1, <1>2, <1>3, <1>4, <1>5

\* One more cancellation adds its refund.
LEMMA RefundsAdd ==
  ASSUME Inv, NEW S \in SUBSET LogsOf("CancelledResellTicket"),
         NEW p \in LogsOf("CancelledResellTicket") \ S
  PROVE  Refunds(S \cup {p}) = Refund(p) + Refunds(S)
<1>1. PICK T \in SUBSET LogsOf("CancelledResellTicket") : T = S \cup {p}
  OBVIOUS
<1>2. /\ Refunds(T) = Sum(refundOf, T) /\ refundOf[p] = Refund(p)
      /\ \A q \in T : refundOf[q] \in Int
  BY <1>1, RefundsTyped
<1>3. Refunds(S) = Sum(refundOf, S) /\ IsFiniteSet(S)
  BY RefundsTyped
<1>4. Sum(refundOf, S \cup {p}) = refundOf[p] + Sum(refundOf, S)
  BY <1>1, <1>2, <1>3, SumAdd
<1> QED
  BY <1>1, <1>2, <1>3, <1>4

\* No step changes what the cancellations that are there give back.
LEMMA RefundsKept ==
  ASSUME Inv, Inv', [Next]_vars
  PROVE  \A S \in SUBSET LogsOf("CancelledResellTicket") :
           Refunds(S)' = Refunds(S)
<1> USE DEF Inv
<1> TAKE S \in SUBSET LogsOf("CancelledResellTicket")
<1>1. /\ S \in SUBSET DOMAIN chain /\ IsFiniteSet(S)
      /\ \A p \in S : /\ Refund(p) \in Int /\ refundOf[p] = Refund(p)
                      /\ chain[p].sale \in LogsOf("ResoldTicket")
                      /\ Cancelled(chain[p].sale)
      /\ Refunds(S) = Sum(refundOf, S)
  BY RefundsTyped
<1>2. ASSUME NEW p \in S
      PROVE  Refund(p)' = Refund(p)
  <2>1. PICK s : s = chain[p].sale
    OBVIOUS
  <2>2. OnSale(s)' = OnSale(s)
    BY <1>1, <2>1, OnSaleFixed
  <2>3. chain'[p].sale = s
    BY <1>1, <2>1, PlacesKept
  <2> QED
    BY <2>1, <2>2, <2>3 DEF Refund
<1>3. S \in SUBSET DOMAIN chain'
  BY <1>1, PlacesKept
<1>4. \A p \in S : refundOf'[p] = refundOf[p]
  BY <1>1, <1>2, <1>3 DEF refundOf
<1>5. Refunds(S)' = Sum(refundOf', S)
  <2>1. \A p \in S : Refund(p)' \in Int
    BY <1>1, <1>2
  <2> QED
    BY <1>1, <1>3, <2>1, RefundIsSumNext DEF RefundSums
<1>6. Sum(refundOf', S) = Sum(refundOf, S)
  BY <1>1, <1>4, SumSame
<1> QED
  BY <1>1, <1>5, <1>6

\* The parts of a holding are numbers.
LEMMA HoldingIs ==
  ASSUME Inv, NEW w, NEW A \in SUBSET DOMAIN chain
  PROVE  /\ Received(w, A) \in SUBSET DOMAIN chain
         /\ Listed(w, A) \in SUBSET DOMAIN chain
         /\ Returned(w, A) \in SUBSET LogsOf("CancelledResellTicket")
         /\ Holding(w, A) = Total(Received(w, A)) + Refunds(Returned(w, A))
                              - Total(Listed(w, A))
         /\ Total(Received(w, A)) \in Int /\ Total(Listed(w, A)) \in Int
         /\ Refunds(Returned(w, A)) \in Int
<1> USE DEF Inv
<1>1. Received(w, A) \in SUBSET DOMAIN chain /\ Listed(w, A) \in SUBSET DOMAIN chain
  BY DEF Received, Listed
<1>2. Returned(w, A) \in SUBSET LogsOf("CancelledResellTicket")
  BY DEF Returned, LogsOf
<1>3. Total(Received(w, A)) \in Int /\ Total(Listed(w, A)) \in Int
  BY <1>1, TotalIs
<1>4. Refunds(Returned(w, A)) \in Int
  BY <1>2, RefundsTyped
<1>5. Holding(w, A) = Total(Received(w, A)) + Refunds(Returned(w, A))
                              - Total(Listed(w, A))
  BY DEF Holding, Refunds
<1> QED
  BY <1>1, <1>2, <1>3, <1>4, <1>5

\* Whatever happens, the logs at given places mean what they meant.
LEMMA HoldingKept ==
  ASSUME Inv, Inv', [Next]_vars, NEW w, NEW A \in SUBSET DOMAIN chain
  PROVE  Holding(w, A)' = Holding(w, A)
<1> USE DEF Inv
<1>1. PICK I, J, K : I = Received(w, A) /\ J = Returned(w, A) /\ K = Listed(w, A)
  OBVIOUS
<1>2. /\ I \in SUBSET DOMAIN chain /\ K \in SUBSET DOMAIN chain
      /\ J \in SUBSET LogsOf("CancelledResellTicket")
      /\ Holding(w, A) = Total(I) + Refunds(J) - Total(K)
  BY <1>1, HoldingIs
<1>3. Received(w, A)' = I /\ Returned(w, A)' = J /\ Listed(w, A)' = K
  BY <1>1, PlacesKept DEF Received, Returned, Listed
<1>4. Holding(w, A)' = Total(I)' + Refunds(J)' - Total(K)'
  BY <1>3 DEF Holding, Refunds
<1>5. Total(I)' = Total(I) /\ Total(K)' = Total(K) /\ Refunds(J)' = Refunds(J)
  BY <1>2, PlacesKept, RefundsKept
<1> QED
  BY <1>2, <1>4, <1>5

\* What one more log is worth to its wallet.
Worth(p) ==
  CASE chain[p].kind \in {"TicketSold", "BoughtTicket"} -> Amount(p)
    [] chain[p].kind = "ResoldTicket" -> -Amount(p)
    [] chain[p].kind = "CancelledResellTicket" -> Refund(p)

\* One more log changes the holding of its wallet, and of no other.
LEMMA HoldingAdd ==
  ASSUME Inv, NEW w, NEW A \in SUBSET DOMAIN chain, NEW p \in DOMAIN chain \ A
  PROVE  /\ chain[p].wallet = w => Holding(w, A \cup {p}) = Holding(w, A) + Worth(p)
         /\ chain[p].wallet # w => Holding(w, A \cup {p}) = Holding(w, A)
<1> USE DEF Inv
<1>0. PICK B \in SUBSET DOMAIN chain : B = A \cup {p}
  OBVIOUS
<1>1. PICK I, J, K : I = Received(w, A) /\ J = Returned(w, A) /\ K = Listed(w, A)
  OBVIOUS
<1>2. /\ I \in SUBSET DOMAIN chain /\ K \in SUBSET DOMAIN chain
      /\ J \in SUBSET LogsOf("CancelledResellTicket")
      /\ Holding(w, A) = Total(I) + Refunds(J) - Total(K)
      /\ Total(I) \in Int /\ Refunds(J) \in Int /\ Total(K) \in Int
  BY <1>1, HoldingIs
<1>3. Holding(w, B) = Total(Received(w, B)) + Refunds(Returned(w, B))
                        - Total(Listed(w, B))
  BY HoldingIs
<1>4. p \notin I /\ p \notin J /\ p \notin K
  BY <1>1 DEF Received, Returned, Listed
<1>5. chain[p].kind \in Kinds /\ Amount(p) \in Int
  BY ChainTyped
<1>6. CASE chain[p].wallet # w
  <2>1. Received(w, B) = I /\ Returned(w, B) = J /\ Listed(w, B) = K
    BY <1>0, <1>1, <1>6 DEF Received, Returned, Listed
  <2> QED
    BY <1>0, <1>2, <1>3, <1>6, <2>1
<1>7. CASE chain[p].wallet = w /\ chain[p].kind \in {"TicketSold", "BoughtTicket"}
  <2>1. Received(w, B) = I \cup {p} /\ Returned(w, B) = J /\ Listed(w, B) = K
    BY <1>0, <1>1, <1>7 DEF Received, Returned, Listed
  <2>2. Total(I \cup {p}) = Amount(p) + Total(I)
    BY <1>2, <1>4, TotalAdd
  <2>3. Worth(p) = Amount(p)
    BY <1>7 DEF Worth
  <2>4. Holding(w, B) = Holding(w, A) + Worth(p)
    BY <1>2, <1>3, <1>5, <2>1, <2>2, <2>3
  <2> QED
    BY <1>0, <1>7, <2>4
<1>8. CASE chain[p].wallet = w /\ chain[p].kind = "ResoldTicket"
  <2>1. Received(w, B) = I /\ Returned(w, B) = J /\ Listed(w, B) = K \cup {p}
    BY <1>0, <1>1, <1>8 DEF Received, Returned, Listed
  <2>2. Total(K \cup {p}) = Amount(p) + Total(K)
    BY <1>2, <1>4, TotalAdd
  <2>3. Worth(p) = -Amount(p)
    BY <1>8 DEF Worth
  <2>4. Holding(w, B) = Holding(w, A) + Worth(p)
    BY <1>2, <1>3, <1>5, <2>1, <2>2, <2>3
  <2> QED
    BY <1>0, <1>8, <2>4
<1>9. CASE chain[p].wallet = w /\ chain[p].kind = "CancelledResellTicket"
  <2>1. Received(w, B) = I /\ Returned(w, B) = J \cup {p} /\ Listed(w, B) = K
    BY <1>0, <1>1, <1>9 DEF Received, Returned, Listed
  <2>2. p \in LogsOf("CancelledResellTicket") \ J
    BY <1>4, <1>9 DEF LogsOf
  <2>3. Refunds(J \cup {p}) = Refund(p) + Refunds(J)
    BY <1>2, <2>2, RefundsAdd
  <2>4. Refund(p) \in Int
    <3>1. {p} \in SUBSET LogsOf("CancelledResellTicket")
      BY <2>2
    <3> QED
      BY <3>1, RefundsTyped
  <2>5. Worth(p) = Refund(p)
    BY <1>9 DEF Worth
  <2>6. Holding(w, B) = Holding(w, A) + Worth(p)
    BY <1>2, <1>3, <2>1, <2>3, <2>4, <2>5
  <2> QED
    BY <1>0, <1>9, <2>6
<1> QED
  BY <1>5, <1>6, <1>7, <1>8, <1>9 DEF Kinds

-------------------------------------------------------------------------------
(* TicketsExact *)

\* A cause that lets a row differ from the logs has struck.
Drifted == blame \cap {"stale write", "wrong owner", "early refund"} # {}

\* A row that is written is the one that was read.
LEMMA NotStale ==
  ASSUME ~Drifted', NEW k, Stale(k) \subseteq blame', local[k].row # 0
  PROVE  tickets[local[k].row].quantity = local[k].quantity
BY Zenon DEF Drifted, Stale

\* A row that is credited belongs to the buyer.
LEMMA NotWrong ==
  ASSUME NEW p, CreditAt(p), ~Drifted'
  PROVE  local["TicketSold"].owner # NoOwner
BY Zenon DEF Drifted, CreditAt

\* Nor was a refund early.
LEMMA DriftNotEarly == ~Drifted' => ~EarlyRefund'
BY Zenon DEF Drifted, EarlyRefund

\* Causes are never forgotten.
LEMMA DriftLasts ==
  ASSUME [Next]_vars, ~Drifted' PROVE ~Drifted
<1>1. blame \subseteq blame'
  BY TableSteps DEF SaveSnapshot, SaveFirstSale, CreditBuyer, CommitResold,
     CommitBought, CommitCancelled
<1> QED
  BY <1>1, Zenon DEF Drifted

\* Without drift, every commit moves to or from the rows of a wallet exactly
\* what its log is worth.
LEMMA CreditMoves ==
  ASSUME Inv, Inv', SoldReadInv, ~Drifted', NEW p, CreditAt(p)
  PROVE  \A v : v = chain[p].wallet => RowsMove(v, Amount(p))
<1> USE DEF Inv
<1> TAKE v
<1> SUFFICES ASSUME v = chain[p].wallet PROVE RowsMove(v, Amount(p))
  OBVIOUS
<1>1. PICK read : read = local["TicketSold"]
  OBVIOUS
<1>2. /\ p \in DOMAIN chain /\ At("TicketSold", p) /\ phase["TicketSold"] = "write"
      /\ Stale("TicketSold") \subseteq blame' /\ "TicketSold" \in Kinds
      /\ read.row # 0 => /\ read.row \in DOMAIN tickets
                         /\ PutQuantity(read.row, read.quantity + Amount(p))
      /\ read.row = 0 => InsertTicket(read.owner, Amount(p))
  BY <1>1 DEF CreditAt, LogsOf, Kinds
<1>3. read.owner # NoOwner
  BY <1>1, NotWrong
<1>4. read.owner = v /\ (read.row # 0 => read.row \in RowsOf(v))
  BY <1>1, <1>2, <1>3 DEF SoldReadInv, SoldRead
<1>5. Amount(p) \in Int /\ read.quantity \in Int /\ v \in Owner
  BY <1>1, <1>2, ChainTyped, LocalTyped DEF Owner
<1>6. CASE read.row = 0
  BY <1>2, <1>4, <1>5, <1>6, InsertMoves
<1>7. CASE read.row # 0
  <2>1. tickets[read.row].quantity = read.quantity
    BY <1>1, <1>2, <1>7, NotStale
  <2>2. PICK n \in Int : n = read.quantity + Amount(p)
    BY <1>5
  <2>3. RowsMove(v, n - tickets[read.row].quantity)
    BY <1>2, <1>4, <1>7, <2>2, PutMoves
  <2>4. n - tickets[read.row].quantity = Amount(p)
    BY <1>5, <2>1, <2>2
  <2> QED
    BY <2>3, <2>4
<1> QED
  BY <1>6, <1>7

\* A listing takes its amount from the seller's rows.
LEMMA ResoldMoves ==
  ASSUME Inv, Inv', ~Drifted', NEW p, ResoldAt(p)
  PROVE  \A v : v = chain[p].wallet => RowsMove(v, -Amount(p))
<1> USE DEF Inv
<1> TAKE v
<1> SUFFICES ASSUME v = chain[p].wallet PROVE RowsMove(v, -Amount(p))
  OBVIOUS
<1>1. PICK read : read = local["ResoldTicket"]
  OBVIOUS
<1>2. /\ p \in DOMAIN chain /\ Stale("ResoldTicket") \subseteq blame'
      /\ "ResoldTicket" \in Kinds /\ read.row \in RowsOf(v)
      /\ PutQuantity(read.row, read.quantity - Amount(p))
  BY <1>1 DEF ResoldAt, LogsOf, Kinds
<1>3. read.row # 0
  BY <1>2, TicketsTyped DEF RowsOf
<1>4. tickets[read.row].quantity = read.quantity
  BY <1>1, <1>2, <1>3, NotStale
<1>5. Amount(p) \in Int /\ read.quantity \in Int
  BY <1>1, <1>2, ChainTyped, LocalTyped
<1>6. PICK n \in Int : n = read.quantity - Amount(p)
  BY <1>5
<1>7. RowsMove(v, n - tickets[read.row].quantity)
  BY <1>2, <1>6, PutMoves
<1>8. n - tickets[read.row].quantity = -Amount(p)
  BY <1>4, <1>5, <1>6
<1> QED
  BY <1>7, <1>8

\* A purchase adds its amount to the purchaser's rows.
LEMMA BoughtMoves ==
  ASSUME Inv, Inv', ExactInv, ~Drifted', NEW p, BoughtAt(p)
  PROVE  \A v : v = chain[p].wallet => RowsMove(v, Amount(p))
<1> USE DEF Inv
<1> TAKE v
<1> SUFFICES ASSUME v = chain[p].wallet PROVE RowsMove(v, Amount(p))
  OBVIOUS
<1>1. PICK read : read = local["BoughtTicket"]
  OBVIOUS
<1>2. /\ p \in DOMAIN chain /\ At("BoughtTicket", p)
      /\ phase["BoughtTicket"] = "commit"
      /\ Stale("BoughtTicket") \subseteq blame' /\ "BoughtTicket" \in Kinds
      /\ read.row # 0 => /\ read.row \in DOMAIN tickets
                         /\ PutQuantity(read.row, read.quantity + Amount(p))
      /\ read.row = 0 => InsertTicket(v, Amount(p))
  BY <1>1 DEF BoughtAt, LogsOf, Kinds
<1>4. read.row # 0 => read.row \in RowsOf(v)
  BY <1>1, <1>2 DEF ExactInv, BoughtReadInv, BoughtRead
<1>5. Amount(p) \in Int /\ read.quantity \in Int /\ v \in Owner
  BY <1>1, <1>2, ChainTyped, LocalTyped DEF Owner
<1>6. CASE read.row = 0
  BY <1>2, <1>5, <1>6, InsertMoves
<1>7. CASE read.row # 0
  <2>1. tickets[read.row].quantity = read.quantity
    BY <1>1, <1>2, <1>7, NotStale
  <2>2. PICK n \in Int : n = read.quantity + Amount(p)
    BY <1>5
  <2>3. RowsMove(v, n - tickets[read.row].quantity)
    BY <1>2, <1>4, <1>7, <2>2, PutMoves
  <2>4. n - tickets[read.row].quantity = Amount(p)
    BY <1>5, <2>1, <2>2
  <2> QED
    BY <2>3, <2>4
<1> QED
  BY <1>6, <1>7

\* A cancellation gives back what the contract gave back.
LEMMA CancelledMoves ==
  ASSUME Inv, Inv', ChainInv, ~Drifted', NEW p, CancelledAt(p)
  PROVE  \A v : v = chain[p].wallet =>
           RowsMove(v, Refund(p)) /\ Refund(p) \in Int
<1> USE DEF Inv
<1> TAKE v
<1> SUFFICES ASSUME v = chain[p].wallet
             PROVE  RowsMove(v, Refund(p)) /\ Refund(p) \in Int
  OBVIOUS
<1>1. PICK sale : sale = chain[p].sale
  OBVIOUS
<1>2. PICK d : d = Refund(p)
  OBVIOUS
<1>3. /\ p \in DOMAIN chain /\ p \in LogsOf("CancelledResellTicket")
      /\ sale \in DOMAIN chain
  BY <1>1 DEF CancelledAt, LogsOf
<1>4. d = OnSale(sale) /\ d \in Int
  BY <1>1, <1>2, <1>3, OnSaleTyped DEF Refund
<1>5. d = local["CancelledResellTicket"].listing.remaining
  BY <1>1, <1>4, DriftNotEarly, NotEarly
<1>6. v = chain[sale].wallet
  BY <1>1, <1>3 DEF ChainInv, LogsInv
<1>7. PICK r \in RowsOf(v) : PutQuantity(r, tickets[r].quantity + d)
  BY <1>1, <1>5, <1>6 DEF CancelledAt
<1>8. tickets[r].quantity \in Int
  BY TicketsTyped DEF RowsOf
<1>9. PICK n \in Int : n = tickets[r].quantity + d
  BY <1>4, <1>8
<1>10. RowsMove(v, n - tickets[r].quantity)
  BY <1>7, <1>9, PutMoves
<1>11. n - tickets[r].quantity = d
  BY <1>4, <1>8, <1>9
<1> QED
  BY <1>2, <1>4, <1>10, <1>11

\* TicketsExact, of wallets, with its condition named.
TallyInv ==
  ~Drifted => \A w \in Wallets : Quantities(w) = Holding(w, Applied)

\* What is applied are logs.
LEMMA AppliedTyped ==
  ASSUME TypeOK
  PROVE  Applied \in SUBSET DOMAIN chain
BY DEF Applied, TypeOK

\* A step that applies no log.
LEMMA TallyQuiet ==
  ASSUME Inv, Inv', [Next]_vars, TallyInv, UNCHANGED <<tickets, credited>>,
         \A p \in snapshots' \ snapshots : chain[p].kind = "TicketSold"
  PROVE  TallyInv'
<1> USE DEF Inv
<1> SUFFICES ASSUME ~Drifted', NEW w \in Wallets
             PROVE  (Quantities(w) = Holding(w, Applied))'
  BY DEF TallyInv
<1>1. PICK A \in SUBSET DOMAIN chain : A = Applied
  BY AppliedTyped
<1>2. Quantities(w) = Holding(w, A)
  BY <1>1, DriftLasts DEF TallyInv
<1>3. Applied' = A
  <2>1. /\ snapshots \subseteq DOMAIN chain /\ snapshots' \subseteq DOMAIN chain
        /\ snapshots \subseteq snapshots'
    BY SnapshotsGrow DEF TypeOK
  <2>2. \A p \in DOMAIN chain :
          p \in LogsOf("TicketSold")' <=> p \in LogsOf("TicketSold")
    BY PlacesKept DEF LogsOf
  <2>3. \A p \in snapshots' \ snapshots : p \in LogsOf("TicketSold")
    BY <2>1 DEF LogsOf
  <2> QED
    BY <1>1, <2>1, <2>2, <2>3 DEF Applied
<1>4. Quantities(w)' = Quantities(w)
  BY QuantitiesKept DEF RowsOf
<1>5. Holding(w, A)' = Holding(w, A)
  BY HoldingKept
<1> QED
  BY <1>2, <1>3, <1>4, <1>5

\* A step that applies one log and moves what it is worth.
LEMMA TallyMoves ==
  ASSUME Inv, Inv', [Next]_vars, TallyInv, UNCHANGED chain, ~Drifted',
         NEW p \in DOMAIN chain \ Applied, Applied' = Applied \cup {p},
         NEW v, v = chain[p].wallet, RowsMove(v, Worth(p))
  PROVE  TallyInv'
<1> USE DEF Inv
<1> SUFFICES ASSUME NEW w \in Wallets
             PROVE  (Quantities(w) = Holding(w, Applied))'
  BY DEF TallyInv
<1>1. PICK A \in SUBSET DOMAIN chain : A = Applied
  BY AppliedTyped
<1>2. PICK B \in SUBSET DOMAIN chain : B = A \cup {p}
  OBVIOUS
<1>3. Quantities(w) = Holding(w, A)
  BY <1>1, DriftLasts DEF TallyInv
<1>4. Applied' = B
  BY <1>1, <1>2
<1>5. Holding(w, B)' = Holding(w, B)
  BY HoldingKept
<1>6. /\ chain[p].wallet = w => Holding(w, B) = Holding(w, A) + Worth(p)
      /\ chain[p].wallet # w => Holding(w, B) = Holding(w, A)
  BY <1>1, <1>2, HoldingAdd
<1>7. Quantities(w)' = Holding(w, B)
  BY <1>3, <1>6 DEF RowsMove
<1> QED
  BY <1>4, <1>5, <1>7

\* Every step applies nothing and moves nothing, or applies one log and moves
\* what it is worth.
LEMMA TallyStep ==
  ASSUME Inv, Inv', ChainInv, FreshInv, ExactInv, SoldReadInv, TallyInv,
         [Next]_vars
  PROVE  TallyInv'
<1> USE DEF Inv
<1>1. CASE UNCHANGED <<db, credited, blame>>
  BY <1>1, TallyQuiet DEF db
<1>2. CASE SaveSnapshot
  <2>1. PICK p \in DOMAIN chain :
          At("TicketSold", p) /\ snapshots' = snapshots \cup {p}
    BY <1>2 DEF SaveSnapshot
  <2>2. chain[p].kind = "TicketSold"
    BY <2>1 DEF At, LogsOf
  <2> QED
    BY <1>2, <2>1, <2>2, TallyQuiet DEF SaveSnapshot
<1>3. CASE SaveFirstSale
  BY <1>3, TallyQuiet DEF SaveFirstSale
<1>4. CASE CreditBuyer
  <2>1. PICK p : CreditAt(p)
    BY <1>4, CreditsAt
  <2>2. /\ p \in DOMAIN chain \ Applied /\ UNCHANGED chain
        /\ Applied' = Applied \cup {p} /\ Worth(p) = Amount(p)
    BY <2>1 DEF CreditAt, Applied, LogsOf, Worth
  <2>3. CASE ~Drifted'
    <3>1. PICK v : v = chain[p].wallet
      OBVIOUS
    <3>2. RowsMove(v, Amount(p))
      BY <2>1, <2>3, <3>1, CreditMoves
    <3> QED
      BY <2>2, <2>3, <3>1, <3>2, TallyMoves
  <2> QED
    BY <2>3 DEF TallyInv
<1>5. \A p \in DOMAIN chain \ snapshots :
        /\ p \notin Applied
        /\ /\ chain[p].kind # "TicketSold" /\ UNCHANGED <<chain, credited>>
           /\ snapshots' = snapshots \cup {p}
           => Applied' = Applied \cup {p}
  BY DEF Applied, TypeOK, LogsOf
<1>6. CASE CommitResold
  <2>1. PICK p : ResoldAt(p)
    BY <1>6, ResoldsAt
  <2>2. /\ p \in DOMAIN chain \ Applied /\ UNCHANGED chain
        /\ Applied' = Applied \cup {p} /\ Worth(p) = -Amount(p)
    <3>1. /\ p \in DOMAIN chain \ snapshots /\ chain[p].kind = "ResoldTicket"
          /\ UNCHANGED <<chain, credited>> /\ snapshots' = snapshots \cup {p}
      BY <2>1 DEF ResoldAt, LogsOf
    <3> QED
      BY <1>5, <3>1 DEF Worth
  <2>3. CASE ~Drifted'
    <3>1. PICK v : v = chain[p].wallet
      OBVIOUS
    <3>2. RowsMove(v, -Amount(p))
      BY <2>1, <2>3, <3>1, ResoldMoves
    <3> QED
      BY <2>2, <2>3, <3>1, <3>2, TallyMoves
  <2> QED
    BY <2>3 DEF TallyInv
<1>7. CASE CommitBought
  <2>1. PICK p : BoughtAt(p)
    BY <1>7, BoughtsAt
  <2>2. /\ p \in DOMAIN chain \ Applied /\ UNCHANGED chain
        /\ Applied' = Applied \cup {p} /\ Worth(p) = Amount(p)
    <3>1. /\ p \in DOMAIN chain \ snapshots /\ chain[p].kind = "BoughtTicket"
          /\ UNCHANGED <<chain, credited>> /\ snapshots' = snapshots \cup {p}
      BY <2>1 DEF BoughtAt, LogsOf
    <3> QED
      BY <1>5, <3>1 DEF Worth
  <2>3. CASE ~Drifted'
    <3>1. PICK v : v = chain[p].wallet
      OBVIOUS
    <3>2. RowsMove(v, Amount(p))
      BY <2>1, <2>3, <3>1, BoughtMoves
    <3> QED
      BY <2>2, <2>3, <3>1, <3>2, TallyMoves
  <2> QED
    BY <2>3 DEF TallyInv
<1>8. CASE CommitCancelled
  <2>1. PICK p : CancelledAt(p)
    BY <1>8, CancelledsAt
  <2>2. /\ p \in DOMAIN chain \ Applied /\ UNCHANGED chain
        /\ Applied' = Applied \cup {p} /\ Worth(p) = Refund(p)
    <3>1. /\ p \in DOMAIN chain \ snapshots
          /\ chain[p].kind = "CancelledResellTicket"
          /\ UNCHANGED <<chain, credited>> /\ snapshots' = snapshots \cup {p}
      BY <2>1 DEF CancelledAt, LogsOf
    <3> QED
      BY <1>5, <3>1 DEF Worth
  <2>3. CASE ~Drifted'
    <3>1. PICK v : v = chain[p].wallet
      OBVIOUS
    <3>2. RowsMove(v, Refund(p))
      BY <2>1, <2>3, <3>1, CancelledMoves
    <3> QED
      BY <2>2, <2>3, <3>1, <3>2, TallyMoves
  <2> QED
    BY <2>3 DEF TallyInv
<1> QED
  BY <1>1, <1>2, <1>3, <1>4, <1>6, <1>7, <1>8, TableSteps

\* Nothing is applied at first, and there are no rows.
LEMMA TallyStarts ==
  ASSUME Init, Inv PROVE TallyInv
<1> SUFFICES ASSUME NEW w \in Wallets PROVE Quantities(w) = Holding(w, Applied)
  BY DEF TallyInv
<1>1. chain = <<>> /\ tickets = <<>> /\ Applied = {}
  BY DEF Init, Applied
<1>2. DOMAIN tickets = {} /\ DOMAIN chain = {}
  BY <1>1, EmptySeq
<1>3. RowsOf(w) = {}
  BY <1>2 DEF RowsOf
<1>4. Quantities(w) = 0
  BY <1>3, QuantitiesAre, SumEmpty DEF QuantitiesTyped, Inv
<1>5. Received(w, {}) = {} /\ Returned(w, {}) = {} /\ Listed(w, {}) = {}
  BY DEF Received, Returned, Listed
<1>6. Total({}) = 0 /\ Refunds({}) = 0
  BY TotalEmpty, RefundsTyped, SumEmpty DEF Inv
<1>7. Holding(w, {}) = Total({}) + Refunds({}) - Total({})
  BY <1>5, HoldingIs
<1> QED
  BY <1>1, <1>4, <1>6, <1>7

\* Rows add up to the logs that were applied.
THEOREM TallyInvariant == Spec => []TallyInv
<1>1. Init /\ Inv => TallyInv
  BY TallyStarts
<1> QED
  BY <1>1, TallyStep, LedgerInvariant, ChainInvariant, FreshInvariant,
     ExactInvariant, SoldReadInvariant, PTL DEF Spec

\* The ticket rows of every wallet add up to exactly the logs that have been
\* applied, or one of three causes has struck: a row changed between reading and
\* writing, a first sale whose buyer is not registered, a cancellation that
\* overtakes a purchase.  Nothing else can make them differ, neither redelivery,
\* nor interruption, nor rows inserted twice (the four handlers).
THEOREM TicketsExactAlways == Spec => []TicketsExact
<1>1. TallyInv => TicketsExact
  BY Zenon DEF TallyInv, TicketsExact, Drifted
<1> QED
  BY <1>1, TallyInvariant, PTL

-------------------------------------------------------------------------------
(* TicketsConserved *)

\* What the resale of s adds to the marketplace's page.
Offer(s) ==
  IF listing[s].status = "selling" /\ listing[s].remaining > 0
  THEN listing[s].remaining ELSE 0

\* The offers, as a function to sum.
offerOf == [s \in Places |-> Offer(s)]

\* What the rows of wallets show, as a function to sum.
totalOf == [w \in Wallets |-> Quantities(w)]

\* TicketsConserved, with all rows and listings in place of those shown.
ConservedInv ==
  blame = {} => Sum(totalOf, Wallets) + Sum(offerOf, Places) = Total(credited)

\* The offers are numbers; to be primed.
OffersTyped ==
  TypeOK => /\ IsFiniteSet(Places)
            /\ \A s \in Places : offerOf[s] = Offer(s) /\ Offer(s) \in Int
            /\ Sum(offerOf, Places) \in Int

\* There are finitely many offers and they add up.
LEMMA OffersAre == OffersTyped
<1> SUFFICES ASSUME TypeOK
             PROVE  /\ IsFiniteSet(Places)
                    /\ \A s \in Places : offerOf[s] = Offer(s) /\ Offer(s) \in Int
                    /\ Sum(offerOf, Places) \in Int
  BY DEF OffersTyped
<1>1. IsFiniteSet(Places)
  BY FS_Interval DEF Places
<1>2. \A s \in Places : offerOf[s] = Offer(s) /\ Offer(s) \in Int
  <2> TAKE s \in Places
  <2>1. listing[s] \in Listing
    BY DEF TypeOK
  <2>2. listing[s].remaining \in Int
    BY <2>1 DEF Listing, NoListing
  <2> QED
    BY <2>2 DEF Offer, offerOf
<1>3. Sum(offerOf, Places) \in Int
  BY <1>1, <1>2, SumInt
<1> QED
  BY <1>1, <1>2, <1>3

\* The same in the next state.
LEMMA OffersAreNext == OffersTyped'
BY OffersAre, PTL

\* Offers stay when no listing is written.
LEMMA OffersKept ==
  ASSUME TypeOK, TypeOK', UNCHANGED listing
  PROVE  Sum(offerOf, Places)' = Sum(offerOf, Places)
<1>1. /\ IsFiniteSet(Places)
      /\ \A s \in Places : offerOf[s] = Offer(s) /\ Offer(s) \in Int
  BY OffersAre DEF OffersTyped
<1>2. \A s \in Places : offerOf'[s] = offerOf[s]
  BY <1>1 DEF offerOf, Offer
<1>3. Sum(offerOf', Places) = Sum(offerOf, Places)
  BY <1>1, <1>2, SumSame
<1>4. Sum(offerOf, Places)' = Sum(offerOf', Places)
  BY DEF Places
<1> QED
  BY <1>3, <1>4

\* One offer that changes changes the sum by as much.
LEMMA OffersMove ==
  ASSUME TypeOK, TypeOK', NEW s \in Places, NEW d \in Int,
         \A q \in Places \ {s} : listing'[q] = listing[q],
         Offer(s)' = Offer(s) + d
  PROVE  Sum(offerOf, Places)' = Sum(offerOf, Places) + d
<1>1. /\ IsFiniteSet(Places) /\ Sum(offerOf, Places) \in Int
      /\ \A q \in Places : offerOf[q] = Offer(q) /\ offerOf[q] \in Int
  BY OffersAre DEF OffersTyped
<1>2. \A q \in Places : offerOf'[q] = Offer(q)' /\ offerOf'[q] \in Int
  BY OffersAreNext DEF OffersTyped, Places
<1>3. \A q \in Places \ {s} : offerOf[q] = offerOf'[q]
  BY <1>1, <1>2 DEF Offer
<1>4. Sum(offerOf', Places) = Sum(offerOf, Places) + (offerOf'[s] - offerOf[s])
  BY <1>1, <1>2, <1>3, SumOne
<1>5. Sum(offerOf, Places)' = Sum(offerOf', Places)
  BY DEF Places
<1>6. offerOf'[s] - offerOf[s] = d
  BY <1>1, <1>2
<1> QED
  BY <1>1, <1>4, <1>5, <1>6

\* What the wallets' rows show are numbers; to be primed.
TotalsTyped ==
  TypeOK => /\ \A w \in Wallets : /\ totalOf[w] = Quantities(w)
                                  /\ totalOf[w] \in Int
            /\ Sum(totalOf, Wallets) \in Int

\* There are finitely many wallets and their rows add up.
LEMMA TotalsAre == TotalsTyped
<1> SUFFICES ASSUME TypeOK
             PROVE  /\ \A w \in Wallets : /\ totalOf[w] = Quantities(w)
                                          /\ totalOf[w] \in Int
                    /\ Sum(totalOf, Wallets) \in Int
  BY DEF TotalsTyped
<1>1. \A w \in Wallets : totalOf[w] = Quantities(w) /\ totalOf[w] \in Int
  BY QuantitiesAre DEF QuantitiesTyped, totalOf
<1>2. Sum(totalOf, Wallets) \in Int
  BY <1>1, SumInt, WalletsAssumption
<1> QED
  BY <1>1, <1>2

\* The same in the next state.
LEMMA TotalsAreNext == TotalsTyped'
BY TotalsAre, PTL

\* The sum stays when no row is written.
LEMMA TotalsKept ==
  ASSUME TypeOK, TypeOK', UNCHANGED tickets
  PROVE  Sum(totalOf, Wallets)' = Sum(totalOf, Wallets)
<1>1. \A w \in Wallets : totalOf[w] = Quantities(w) /\ totalOf[w] \in Int
  BY TotalsAre DEF TotalsTyped
<1>2. \A w \in Wallets : totalOf'[w] = Quantities(w)'
  BY TotalsAreNext DEF TotalsTyped
<1>3. \A w \in Wallets : Quantities(w)' = Quantities(w)
  BY QuantitiesKept DEF RowsOf
<1>4. Sum(totalOf', Wallets) = Sum(totalOf, Wallets)
  BY <1>1, <1>2, <1>3, SumSame, WalletsAssumption
<1> QED
  BY <1>4

\* What is moved to the rows of one wallet is added to the sum.
LEMMA TotalsMove ==
  ASSUME TypeOK, TypeOK', NEW v \in Wallets, NEW d \in Int, RowsMove(v, d)
  PROVE  Sum(totalOf, Wallets)' = Sum(totalOf, Wallets) + d
<1>1. /\ Sum(totalOf, Wallets) \in Int
      /\ \A w \in Wallets : totalOf[w] = Quantities(w) /\ totalOf[w] \in Int
  BY TotalsAre DEF TotalsTyped
<1>2. \A w \in Wallets : totalOf'[w] = Quantities(w)' /\ totalOf'[w] \in Int
  BY TotalsAreNext DEF TotalsTyped
<1>3. \A w \in Wallets \ {v} : totalOf[w] = totalOf'[w]
  BY <1>1, <1>2 DEF RowsMove
<1>4. Sum(totalOf', Wallets) = Sum(totalOf, Wallets) + (totalOf'[v] - totalOf[v])
  BY <1>1, <1>2, <1>3, SumOne, WalletsAssumption
<1>5. totalOf'[v] = totalOf[v] + d
  BY <1>1, <1>2 DEF RowsMove
<1> QED
  BY <1>1, <1>4, <1>5

\* A step that neither moves tickets nor credits a first sale.
LEMMA ConservedQuiet ==
  ASSUME Inv, Inv', [Next]_vars, ConservedInv, UNCHANGED <<tickets, listing, credited>>,
         blame \subseteq blame'
  PROVE  ConservedInv'
<1> USE DEF Inv
<1>1. Sum(totalOf, Wallets)' = Sum(totalOf, Wallets)
  BY TotalsKept
<1>2. Sum(offerOf, Places)' = Sum(offerOf, Places)
  BY OffersKept
<1>3. PICK C \in SUBSET DOMAIN chain : C = credited
  BY DEF TypeOK
<1>4. credited' = C /\ Total(C)' = Total(C)
  BY <1>3, PlacesKept
<1>5. Total(credited)' = Total(C)'
  BY <1>4
<1>6. blame' = {} => blame = {}
  OBVIOUS
<1> QED
  BY <1>1, <1>2, <1>3, <1>4, <1>5, <1>6 DEF ConservedInv

\* A step that moves d tickets to a wallet's rows and takes them from an offer.
LEMMA ConservedMoves ==
  ASSUME Inv, Inv', [Next]_vars, ConservedInv, UNCHANGED credited,
         blame = {}, NEW v \in Wallets, NEW d \in Int, RowsMove(v, d),
         NEW s \in Places, \A q \in Places \ {s} : listing'[q] = listing[q],
         Offer(s)' = Offer(s) - d
  PROVE  ConservedInv'
<1> USE DEF Inv
<1>1. Sum(totalOf, Wallets)' = Sum(totalOf, Wallets) + d
  BY TotalsMove
<1>2. Sum(offerOf, Places)' = Sum(offerOf, Places) + (-d)
  <2>1. Offer(s) \in Int
    BY OffersAre DEF OffersTyped
  <2>2. PICK c \in Int : c = -d
    OBVIOUS
  <2>3. Offer(s)' = Offer(s) + c
    BY <2>1, <2>2
  <2> QED
    BY <2>2, <2>3, OffersMove
<1>3. PICK C \in SUBSET DOMAIN chain : C = credited
  BY DEF TypeOK
<1>4. credited' = C /\ Total(C)' = Total(C)
  BY <1>3, PlacesKept
<1>5. Total(credited)' = Total(C)'
  BY <1>4
<1>6. Sum(totalOf, Wallets) \in Int /\ Sum(offerOf, Places) \in Int
  BY TotalsAre, OffersAre DEF TotalsTyped, OffersTyped
<1> QED
  BY <1>1, <1>2, <1>3, <1>4, <1>5, <1>6 DEF ConservedInv

\* If nothing is to blame after a step, nothing was before.
LEMMA BlameLasts ==
  ASSUME [Next]_vars, blame' = {}
  PROVE  blame = {} /\ ~Drifted' /\ ~EarlyRefund /\ "reopened" \notin blame
<1>1. blame \subseteq blame'
  BY TableSteps DEF SaveSnapshot, SaveFirstSale, CreditBuyer, CommitResold,
     CommitBought, CommitCancelled
<1> QED
  BY <1>1, Zenon DEF Drifted, EarlyRefund

\* Without an early refund a cancelled listing has no purchase outstanding.
LEMMA RefundedAll ==
  ASSUME RefundInv, ~EarlyRefund, NEW p \in snapshots,
         chain[p].kind = "CancelledResellTicket"
  PROVE  listing[chain[p].sale].remaining = OnSale(chain[p].sale)
BY Zenon DEF RefundInv, EarlyRefund

\* A purchase takes its amount from an offer that is shown.
LEMMA OfferBought ==
  ASSUME Inv, ChainInv, ExactInv, ClosedInv, RefundInv,
         blame = {}, ~EarlyRefund, "reopened" \notin blame,
         NEW p, BoughtAt(p), blame' = {}
  PROVE  \A s : s = chain[p].sale => Offer(s)' = Offer(s) - Amount(p)
<1> USE DEF Inv
<1> TAKE s
<1> SUFFICES ASSUME s = chain[p].sale PROVE Offer(s)' = Offer(s) - Amount(p)
  OBVIOUS
<1>1. PICK l : l = local["BoughtTicket"].listing
  OBVIOUS
<1>2. /\ s \in snapshots \cap LogsOf("ResoldTicket") /\ p \in BoughtFrom(s) \ snapshots
      /\ listing'[s] = AfterPurchase(l, Amount(p))
  BY <1>1 DEF BoughtAt, BoughtFrom
<1>3. listing[s].status = l.status
  BY <1>1, Zenon DEF BoughtAt
<1>4. /\ RightFor(s) /\ ClosedFor(s) /\ s \in DOMAIN chain
      /\ listing[s] \in [remaining : Int, status : Statuses]
  BY <1>2, RightForAll, ClosedForAll, ListingTyped DEF ExactInv
<1>5. l.remaining = listing[s].remaining
  BY <1>1, BoughtReads
<1>6. /\ Amount(p) \in Nat /\ OnSale(s) \in Int /\ OnSale(s) + Amount(p) <= Left(s)
  BY <1>2, <1>4, LeftTyped
<1>7. Amount(p) > 0 /\ OnSale(s) >= 0
  BY <1>2 DEF ChainInv, LogsInv, SalesInv, BoughtFrom, LogsOf
<1>8. listing[s].remaining = Left(s)
  BY <1>4 DEF RightFor
<1>9. ~RecordedCancel(s)
  <2> SUFFICES ASSUME RecordedCancel(s) PROVE FALSE
    OBVIOUS
  <2>1. listing[s].remaining = OnSale(s)
    BY RefundedAll DEF RecordedCancel
  <2> QED
    BY <1>6, <1>7, <1>8, <2>1
<1>10. listing[s].status = "selling"
  <2>1. listing[s].status # "closed"
    BY <1>4, <1>9 DEF ClosedFor
  <2>2. listing[s].status # "sold"
    BY <1>4, <1>6, <1>7, <1>8 DEF RightFor
  <2> QED
    BY <1>4, <2>1, <2>2 DEF Statuses
<1>11. /\ listing'[s].remaining = l.remaining - Amount(p)
       /\ listing'[s].status = IF l.remaining = Amount(p) THEN "sold" ELSE l.status
  BY <1>2 DEF AfterPurchase
<1>12. PICK x : x = listing[s].remaining
  OBVIOUS
<1>13. x \in Int /\ x > 0 /\ x - Amount(p) >= 0 /\ x - Amount(p) \in Int
  BY <1>4, <1>6, <1>7, <1>8, <1>12
<1>14. Offer(s) = x
  BY <1>10, <1>12, <1>13 DEF Offer
<1>15. Offer(s)' = x - Amount(p)
  <2>1. CASE x = Amount(p)
    <3>1. listing'[s].status = "sold"
      BY <1>5, <1>11, <1>12, <2>1
    <3>2. Offer(s)' = 0
      BY <3>1 DEF Offer
    <3> QED
      BY <1>6, <2>1, <3>2
  <2>2. CASE x # Amount(p)
    <3>1. listing'[s].status = "selling" /\ listing'[s].remaining = x - Amount(p)
      BY <1>3, <1>5, <1>10, <1>11, <1>12, <2>2
    <3>2. x - Amount(p) > 0
      BY <1>6, <1>13, <2>2
    <3> QED
      BY <3>1, <3>2 DEF Offer
  <2> QED
    BY <2>1, <2>2
<1> QED
  BY <1>14, <1>15

\* A cancellation takes the whole offer.
LEMMA OfferCancelled ==
  ASSUME Inv, ChainInv, ExactInv, ClosedInv, "reopened" \notin blame,
         NEW p, CancelledAt(p),
         listing[chain[p].sale].remaining = OnSale(chain[p].sale)
  PROVE  \A s : s = chain[p].sale => Offer(s)' = Offer(s) - Refund(p)
<1> USE DEF Inv
<1> TAKE s
<1> SUFFICES ASSUME s = chain[p].sale PROVE Offer(s)' = Offer(s) - Refund(p)
  OBVIOUS
<1>1. /\ s \in snapshots \cap LogsOf("ResoldTicket")
      /\ p \in LogsOf("CancelledResellTicket") \ snapshots
      /\ listing'[s].status = "closed"
  BY DEF CancelledAt
<1>2. /\ RightFor(s) /\ ClosedFor(s) /\ s \in DOMAIN chain
      /\ listing[s] \in [remaining : Int, status : Statuses]
  BY <1>1, RightForAll, ClosedForAll, ListingTyped DEF ExactInv
<1>3. Cancelled(s)
  BY <1>1 DEF Cancelled
<1>4. OnSale(s) > 0 /\ OnSale(s) \in Int
  BY <1>1, <1>2, <1>3, OnSaleTyped DEF ChainInv, SalesInv
<1>5. ~RecordedCancel(s)
  BY <1>1 DEF RecordedCancel, ChainInv, LogsInv, LogsOf, TypeOK
<1>6. listing[s].status = "selling"
  <2>1. listing[s].status # "closed"
    BY <1>2, <1>5 DEF ClosedFor
  <2>2. listing[s].status # "sold"
    BY <1>2, <1>4 DEF RightFor
  <2> QED
    BY <1>2, <2>1, <2>2 DEF Statuses
<1>7. Offer(s) = OnSale(s)
  BY <1>4, <1>6 DEF Offer
<1>8. Offer(s)' = 0
  BY <1>1 DEF Offer
<1>9. Refund(p) = OnSale(s)
  BY DEF Refund
<1> QED
  BY <1>4, <1>7, <1>8, <1>9

\* A first sale that is credited adds to both sides; a resale, a purchase and
\* a cancellation move tickets between a row and an offer.
LEMMA ConservedStep ==
  ASSUME Inv, Inv', ChainInv, FreshInv, ExactInv, SoldReadInv, CancelledReadInv,
         ClosedInv, RefundInv, ConservedInv, [Next]_vars
  PROVE  ConservedInv'
<1> USE DEF Inv
<1> SUFFICES ASSUME blame' = {} PROVE ConservedInv'
  BY DEF ConservedInv
<1>0. blame = {} /\ ~Drifted' /\ ~EarlyRefund /\ "reopened" \notin blame
  BY BlameLasts
<1>1. CASE UNCHANGED <<db, credited, blame>> \/ SaveSnapshot \/ SaveFirstSale
  <2>1. UNCHANGED <<tickets, listing, credited>> /\ blame \subseteq blame'
    BY <1>1 DEF db, SaveSnapshot, SaveFirstSale
  <2> QED
    BY <2>1, ConservedQuiet
<1>2. \A p \in DOMAIN chain : chain[p].wallet \in Wallets /\ Amount(p) \in Int
  BY ChainTyped
<1>3. CASE CreditBuyer
  <2>1. PICK p : CreditAt(p)
    BY <1>3, CreditsAt
  <2>2. /\ p \in DOMAIN chain \ credited /\ credited' = credited \cup {p}
        /\ UNCHANGED <<chain, listing>>
    BY <2>1 DEF CreditAt, LogsOf
  <2>3. PICK v \in Wallets : v = chain[p].wallet
    BY <1>2, <2>2
  <2>4. RowsMove(v, Amount(p))
    BY <1>0, <2>1, <2>3, CreditMoves
  <2>5. Sum(totalOf, Wallets)' = Sum(totalOf, Wallets) + Amount(p)
    BY <1>2, <2>2, <2>4, TotalsMove
  <2>6. Sum(offerOf, Places)' = Sum(offerOf, Places)
    BY <2>2, OffersKept
  <2>7. PICK C \in SUBSET DOMAIN chain : C = credited
    BY DEF TypeOK
  <2>8. PICK D \in SUBSET DOMAIN chain : D = C \cup {p}
    BY <2>2
  <2>9. Total(D) = Amount(p) + Total(C) /\ Total(C) \in Int
    BY <2>2, <2>7, <2>8, TotalAdd, TotalIs
  <2>10. credited' = D /\ Total(D)' = Total(D)
    BY <2>2, <2>7, <2>8, PlacesKept
  <2>11. Total(credited)' = Total(D)'
    BY <2>10
  <2>12. Sum(totalOf, Wallets) + Sum(offerOf, Places) = Total(C)
    BY <1>0, <2>7 DEF ConservedInv
  <2>13. Sum(totalOf, Wallets) \in Int /\ Sum(offerOf, Places) \in Int
    BY TotalsAre, OffersAre DEF TotalsTyped, OffersTyped
  <2>14. Amount(p) \in Int
    BY <1>2, <2>2
  <2>15. Sum(totalOf, Wallets)' + Sum(offerOf, Places)' = Total(credited)'
    BY <2>5, <2>6, <2>9, <2>10, <2>11, <2>12, <2>13, <2>14
  <2> QED
    BY <2>15 DEF ConservedInv
<1>4. CASE CommitResold
  <2>1. PICK p : ResoldAt(p)
    BY <1>4, ResoldsAt
  <2>2. /\ p \in DOMAIN chain \ snapshots /\ chain[p].kind = "ResoldTicket"
        /\ UNCHANGED credited /\ p \in Places
        /\ listing'[p] = [remaining |-> Amount(p), status |-> "selling"]
        /\ \A q \in Places \ {p} : listing'[q] = listing[q]
    BY <2>1 DEF ResoldAt, LogsOf
  <2>3. PICK v \in Wallets : v = chain[p].wallet
    BY <1>2, <2>2
  <2>4. PICK d \in Int : d = -Amount(p)
    BY <1>2, <2>2
  <2>5. RowsMove(v, d)
    BY <1>0, <2>1, <2>3, <2>4, ResoldMoves
  <2>6. Offer(p) = 0
    BY <2>2 DEF LedgerInv, MarketAtomic, Offer, NoListing
  <2>7. Amount(p) > 0 /\ Amount(p) \in Int
    BY <1>2, <2>2 DEF ChainInv, LogsInv
  <2>8. listing'[p].remaining = Amount(p) /\ listing'[p].status = "selling"
    BY <2>2
  <2>9. Offer(p)' = Amount(p)
    BY <2>7, <2>8 DEF Offer
  <2>10. Offer(p)' = Offer(p) - d
    BY <2>4, <2>6, <2>7, <2>9
  <2> QED
    BY <1>0, <2>2, <2>5, <2>10, ConservedMoves
<1>5. CASE CommitBought
  <2>1. PICK p : BoughtAt(p)
    BY <1>5, BoughtsAt
  <2>2. PICK s : s = chain[p].sale
    OBVIOUS
  <2>3. /\ p \in DOMAIN chain /\ UNCHANGED credited /\ s \in Places
        /\ \A q \in Places \ {s} : listing'[q] = listing[q]
    BY <2>1, <2>2 DEF BoughtAt, LogsOf
  <2>4. PICK v \in Wallets : v = chain[p].wallet
    BY <1>2, <2>3
  <2>5. RowsMove(v, Amount(p)) /\ Amount(p) \in Int
    BY <1>0, <1>2, <2>1, <2>3, <2>4, BoughtMoves
  <2>6. Offer(s)' = Offer(s) - Amount(p)
    BY <1>0, <2>1, <2>2, OfferBought
  <2> QED
    BY <1>0, <2>3, <2>5, <2>6, ConservedMoves
<1>6. CASE CommitCancelled
  <2>1. PICK p : CancelledAt(p)
    BY <1>6, CancelledsAt
  <2>2. PICK s : s = chain[p].sale
    OBVIOUS
  <2>3. /\ p \in DOMAIN chain /\ UNCHANGED credited /\ s \in Places
        /\ \A q \in Places \ {s} : listing'[q] = listing[q]
    BY <2>1, <2>2 DEF CancelledAt, LogsOf
  <2>4. PICK v \in Wallets : v = chain[p].wallet
    BY <1>2, <2>3
  <2>5. RowsMove(v, Refund(p)) /\ Refund(p) \in Int
    BY <1>0, <2>1, <2>3, <2>4, CancelledMoves
  <2>6. listing[chain[p].sale].remaining = OnSale(chain[p].sale)
    BY <1>0, <2>1, DriftNotEarly, NotEarly, RefundFull
  <2>7. Offer(s)' = Offer(s) - Refund(p)
    BY <1>0, <2>1, <2>2, <2>6, OfferCancelled
  <2> QED
    BY <1>0, <2>3, <2>5, <2>7, ConservedMoves
<1> QED
  BY <1>1, <1>3, <1>4, <1>5, <1>6, TableSteps

\* There are no tickets at first.
LEMMA ConservedStarts ==
  ASSUME Init, Inv PROVE ConservedInv
<1> USE DEF Inv
<1>1. Total(credited) = 0
  BY TotalEmpty DEF Init
<1>2. Sum(totalOf, Wallets) = 0
  <2>1. tickets = <<>>
    BY DEF Init
  <2>2. DOMAIN tickets = {}
    BY <2>1, EmptySeq
  <2>3. \A w : RowsOf(w) = {}
    BY <2>2 DEF RowsOf
  <2>4. \A w : Quantities(w) = 0
    BY <2>3, QuantitiesAre, SumEmpty DEF QuantitiesTyped
  <2>5. \A w \in Wallets : totalOf[w] = 0
    BY <2>4 DEF totalOf
  <2> QED
    BY <2>5, SumZero, WalletsAssumption
<1>3. Sum(offerOf, Places) = 0
  <2>1. \A s \in Places : offerOf[s] = 0
    BY DEF Init, offerOf, Offer, NoListing
  <2> QED
    BY <2>1, SumZero, OffersAre DEF OffersTyped
<1> QED
  BY <1>1, <1>2, <1>3 DEF ConservedInv

\* Rows and offers add up to the first sales.
THEOREM ConservedInvariant == Spec => []ConservedInv
<1>1. Init /\ Inv => ConservedInv
  BY ConservedStarts
<1> QED
  BY <1>1, ConservedStep, LedgerInvariant, ChainInvariant, FreshInvariant,
     ExactInvariant, SoldReadInvariant, CancelledReadInvariant, ClosedInvariant,
     RefundInvariant, PTL DEF Spec

\* An inventory leaves out only rows of nothing (getNftTicketsByUser).
LEMMA ShownOfIs ==
  ASSUME Inv, NeverNegative, NEW w
  PROVE  ShownOf(w) = Quantities(w)
<1> USE DEF Inv
<1>0. PICK S : S = GetNftTicketsByUser(w)
  OBVIOUS
<1>1. PICK R : R = RowsOf(w)
  OBVIOUS
<1>2. /\ IsFiniteSet(R) /\ Quantities(w) = Sum(quantityOf, R)
      /\ \A r \in R : quantityOf[r] = tickets[r].quantity /\ quantityOf[r] \in Int
  BY <1>1, QuantitiesAre DEF QuantitiesTyped
<1>3. S \in SUBSET R /\ IsFiniteSet(S) /\ IsFiniteSet(R \ S)
  <2>1. S \in SUBSET R
    BY <1>0, <1>1 DEF GetNftTicketsByUser
  <2> QED
    BY <1>2, <2>1, FS_Subset
<1>4. ShownOf(w) = Sum(quantityOf, S)
  <2> DEFINE Body(g) == [s \in SUBSET S |->
              IF s = {} THEN 0 ELSE tickets[First(s)].quantity + g[s \ {First(s)}]]
  <2>1. ShownOf(w) = (CHOOSE g : g = Body(g))[S]
    BY <1>0, Zenon DEF ShownOf, MapThenSumSet, MapThenFoldSet, First
  <2>2. \A g : Body(g) = SumBody(g, quantityOf, S)
    BY <1>2, <1>3, FirstIn DEF SumBody
  <2>3. \E h : h = SumBody(h, quantityOf, S)
    BY <1>2, <1>3, SumBodyExists
  <2>4. PICK c : c = SumBody(c, quantityOf, S) /\ ShownOf(w) = c[S]
    <3> HIDE DEF Body
    <3> QED
      BY <2>1, <2>2, <2>3
  <2> QED
    BY <1>2, <1>3, <2>4, SumBodyIs
<1>5. \A r \in R \ S : quantityOf[r] = 0
  BY <1>0, <1>1, <1>2 DEF GetNftTicketsByUser, NeverNegative, RowsOf
<1>6. Sum(quantityOf, R \ S) = 0
  BY <1>3, <1>5, SumZero
<1>7. Sum(quantityOf, R) = Sum(quantityOf, S) + Sum(quantityOf, R \ S)
  BY <1>2, <1>3, SumUnion
<1>8. Sum(quantityOf, S) \in Int
  BY <1>2, <1>3, SumInt
<1> QED
  BY <1>2, <1>4, <1>6, <1>7, <1>8

\* What all inventories show is the sum over all wallets.
LEMMA ShownAllIs ==
  ASSUME Inv, NeverNegative
  PROVE  MapThenSumSet(ShownOf, Wallets) = Sum(totalOf, Wallets)
<1> USE DEF Inv
<1> DEFINE S == Wallets
           Body(g) == [s \in SUBSET S |->
              IF s = {} THEN 0 ELSE ShownOf(First(s)) + g[s \ {First(s)}]]
<1>1. MapThenSumSet(ShownOf, Wallets) = (CHOOSE g : g = Body(g))[S]
  BY Zenon DEF MapThenSumSet, MapThenFoldSet, First
<1>2. \A w \in Wallets : totalOf[w] = ShownOf(w) /\ totalOf[w] \in Int
  BY ShownOfIs, TotalsAre DEF TotalsTyped
<1>3. \A g : Body(g) = SumBody(g, totalOf, S)
  BY <1>2, FirstIn DEF SumBody
<1>4. \E h : h = SumBody(h, totalOf, S)
  BY <1>2, SumBodyExists, WalletsAssumption
<1>5. PICK c : /\ c = SumBody(c, totalOf, S)
               /\ MapThenSumSet(ShownOf, Wallets) = c[S]
  <2>1. PICK m : m = MapThenSumSet(ShownOf, Wallets)
    OBVIOUS
  <2>2. m = (CHOOSE g : g = Body(g))[S]
    BY <1>1, <2>1
  <2> HIDE DEF Body
  <2>3. \E c : c = SumBody(c, totalOf, S) /\ m = c[S]
    BY <1>3, <1>4, <2>2
  <2> QED
    BY <2>1, <2>3
<1>6. Sum(totalOf, S) = c[S]
  BY <1>2, <1>5, SumBodyIs, WalletsAssumption
<1> QED
  BY <1>5, <1>6

\* What the marketplace shows is the sum over all offers.
LEMMA ShownOnSaleIs ==
  ASSUME Inv
  PROVE  ShownOnSale = Sum(offerOf, Places)
<1> USE DEF Inv
<1>1. PICK S : S = GetResaleTicketDetails
  OBVIOUS
<1>2. /\ IsFiniteSet(Places)
      /\ \A s \in Places : offerOf[s] = Offer(s) /\ offerOf[s] \in Int
  BY OffersAre DEF OffersTyped
<1>3. S \in SUBSET Places /\ IsFiniteSet(S) /\ IsFiniteSet(Places \ S)
  <2>1. S \in SUBSET Places
    BY <1>1 DEF GetResaleTicketDetails
  <2> QED
    BY <1>2, <2>1, FS_Subset
<1>4. /\ \A s \in S : offerOf[s] = listing[s].remaining
      /\ \A s \in Places \ S : offerOf[s] = 0
  BY <1>1, <1>2 DEF GetResaleTicketDetails, Offer
<1>5. ShownOnSale = Sum(offerOf, S)
  <2> DEFINE Body(g) == [s \in SUBSET S |->
              IF s = {} THEN 0 ELSE listing[First(s)].remaining + g[s \ {First(s)}]]
  <2>1. ShownOnSale = (CHOOSE g : g = Body(g))[S]
    BY <1>1, Zenon DEF ShownOnSale, MapThenSumSet, MapThenFoldSet, First
  <2>2. \A g : Body(g) = SumBody(g, offerOf, S)
    BY <1>4, FirstIn DEF SumBody
  <2>3. \E h : h = SumBody(h, offerOf, S)
    BY <1>2, <1>3, SumBodyExists
  <2>4. PICK c : c = SumBody(c, offerOf, S) /\ ShownOnSale = c[S]
    <3> HIDE DEF Body
    <3> QED
      BY <2>1, <2>2, <2>3
  <2> QED
    BY <1>2, <1>3, <2>4, SumBodyIs
<1>6. Sum(offerOf, Places \ S) = 0
  BY <1>3, <1>4, SumZero
<1>7. Sum(offerOf, Places) = Sum(offerOf, S) + Sum(offerOf, Places \ S)
  BY <1>2, <1>3, SumUnion
<1>8. Sum(offerOf, S) \in Int
  BY <1>2, <1>3, SumInt
<1> QED
  BY <1>5, <1>6, <1>7, <1>8

\* What is shown is what is there.
LEMMA Conserved ==
  ASSUME Inv, NeverNegative, ConservedInv PROVE TicketsConserved
<1>1. PICK m : m = MapThenSumSet(ShownOf, Wallets)
  OBVIOUS
<1>2. m = Sum(totalOf, Wallets)
  BY <1>1, ShownAllIs
<1>3. ShownOnSale = Sum(offerOf, Places)
  BY ShownOnSaleIs
<1>4. blame = {} => m + ShownOnSale = Total(credited)
  BY <1>2, <1>3 DEF ConservedInv
<1> QED
  BY <1>1, <1>4, Zenon DEF TicketsConserved

\* Between inventories and marketplace no ticket is lost or shown twice,
\* unless a cause of drift has struck (getNftTicketsByUser,
\* getResaleTicketDetails, and the handlers that write their tables).
THEOREM TicketsConservedAlways == Spec => []TicketsConserved
<1>1. Inv /\ NeverNegative /\ ConservedInv => TicketsConserved
  BY Conserved
<1> QED
  BY <1>1, LedgerInvariant, NeverNegativeAlways, ConservedInvariant, PTL
===============================================================================
