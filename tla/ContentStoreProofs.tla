------------------------- MODULE ContentStoreProofs -------------------------
(***************************************************************************)
(* What holds of the content store for any number of readers and files and *)
(* any caps: types, the cap on the total, that an entry settles, and how   *)
(* often a key can be paid for.                                            *)
(***************************************************************************)
EXTENDS ContentStore, FiniteSetTheorems, WellFoundedInduction, TLAPS

\* The store's state stays well formed whatever Gets overlap.
THEOREM TypeCorrect == Spec => []TypeOK
<1>1. Init => TypeOK
  BY DEF Init, TypeOK
<1>2. TypeOK /\ [Next]_vars => TypeOK'
  <2> SUFFICES ASSUME TypeOK, [Next]_vars PROVE TypeOK'
    OBVIOUS
  <2>1. ASSUME NEW r \in Reader, NEW k \in Key, Hit(r, k) PROVE TypeOK'
    BY <2>1 DEF Hit, TypeOK
  <2>2. ASSUME NEW r \in Reader, NEW k \in Key, Miss(r, k) PROVE TypeOK'
    BY <2>2 DEF Miss, TypeOK
  <2>3. ASSUME NEW r \in Reader, Fetch(r) PROVE TypeOK'
    BY <2>3 DEF Fetch, TypeOK, Content, Answer, Failure
  <2>4. ASSUME NEW r \in Reader, Commit(r) PROVE TypeOK'
    <3>1. key[r] \in Key /\ Size[key[r]] \in Nat
      BY <2>4, SizeAssumption DEF Commit, TypeOK
    <3> DEFINE result == IF fetched[r] = "data" /\ ~Fits(key[r])
                         THEN "over total" ELSE fetched[r]
    <3>2. result \in Answer \cup {None}
      BY DEF TypeOK, Answer, Failure
    <3>3. cache' \in [Key -> Answer \cup {None}] /\ answer' \in [Reader -> Answer \cup {None}]
      <4> HIDE DEF result
      <4>1. /\ cache' = [cache EXCEPT ![key[r]] = result]
            /\ answer' = [answer EXCEPT ![r] = result]
        BY <2>4 DEF Commit, result
      <4> QED
        BY <3>1, <3>2, <4>1 DEF TypeOK
    <3>4. total' \in Nat
      <4>1. total' \in {total, total + Size[key[r]]}
        BY <2>4 DEF Commit
      <4>2. total \in Nat
        BY DEF TypeOK
      <4> QED
        BY <3>1, <4>1, <4>2
    <3>5. /\ pc' = [pc EXCEPT ![r] = "idle"]
          /\ fetched' = [fetched EXCEPT ![r] = None]
          /\ key' = key
      BY <2>4 DEF Commit
    <3> QED
      BY <3>3, <3>4, <3>5 DEF TypeOK
  <2>5. CASE UNCHANGED vars
    BY <2>5 DEF vars, TypeOK
  <2> QED
    BY <2>1, <2>2, <2>3, <2>4, <2>5 DEF Next
<1> QED
  BY <1>1, <1>2, PTL DEF Spec

-----------------------------------------------------------------------------
\* Overlapping Gets cannot take the accounted content past the cap: each
\* commit compares the sum it is about to store (Get's second locked section).
THEOREM TotalIsBounded == Spec => []TotalBounded
<1>1. Init => TotalBounded
  BY SizeAssumption DEF Init, TotalBounded
<1>2. TypeOK /\ TotalBounded /\ [Next]_vars => TotalBounded'
  <2> SUFFICES ASSUME TypeOK, TotalBounded, [Next]_vars PROVE TotalBounded'
    OBVIOUS
  <2>1. ASSUME NEW r \in Reader, Commit(r) PROVE TotalBounded'
    <3>1. CASE fetched[r] = "data" /\ Fits(key[r])
      BY <2>1, <3>1 DEF Commit, Fits, TotalBounded
    <3>2. CASE ~(fetched[r] = "data" /\ Fits(key[r]))
      BY <2>1, <3>2 DEF Commit, TotalBounded
    <3> QED
      BY <3>1, <3>2
  <2>2. CASE UNCHANGED total
    BY <2>2 DEF TotalBounded
  <2> QED
    BY <2>1, <2>2 DEF Next, Hit, Miss, Fetch, vars
<1> QED
  BY <1>1, <1>2, TypeCorrect, PTL DEF Spec

-----------------------------------------------------------------------------
\* A cached entry that no Get is working on is final: the lookup of a later
\* Get finds it, so nobody fetches the key again.
THEOREM EntriesSettle == Spec => SettledForGood
<1>1. TypeOK /\ [Next]_vars =>
        [\A k \in Key : cache[k] # None /\ ~InFlight(k) =>
            cache'[k] = cache[k] /\ ~InFlight(k)']_vars
  <2> SUFFICES ASSUME TypeOK, Next,
                      NEW k \in Key, cache[k] # None, ~InFlight(k)
               PROVE  cache'[k] = cache[k] /\ ~InFlight(k)'
    BY DEF vars
  <2>1. ASSUME NEW r \in Reader, NEW j \in Key, Hit(r, j)
        PROVE  cache'[k] = cache[k] /\ ~InFlight(k)'
    BY <2>1 DEF Hit, InFlight, TypeOK
  <2>2. ASSUME NEW r \in Reader, NEW j \in Key, Miss(r, j)
        PROVE  cache'[k] = cache[k] /\ ~InFlight(k)'
    <3>1. j # k
      BY <2>2 DEF Miss
    <3> QED
      BY <2>2, <3>1 DEF Miss, InFlight, TypeOK
  <2>3. ASSUME NEW r \in Reader, Fetch(r)
        PROVE  cache'[k] = cache[k] /\ ~InFlight(k)'
    BY <2>3 DEF Fetch, InFlight, TypeOK
  <2>4. ASSUME NEW r \in Reader, Commit(r)
        PROVE  cache'[k] = cache[k] /\ ~InFlight(k)'
    <3>1. key[r] # k
      BY <2>4 DEF Commit, InFlight
    <3> QED
      BY <2>4, <3>1 DEF Commit, InFlight, TypeOK
  <2> QED
    BY <2>1, <2>2, <2>3, <2>4 DEF Next
<1> QED
  BY <1>1, TypeCorrect, PTL DEF Spec, SettledForGood
-----------------------------------------------------------------------------
(* Sums over keys.  The fold is a function on the subsets of a set of      *)
(* keys; what it satisfies is shown by looking at a smallest set that does *)
(* not.                                                                    *)

LEMMA KeysAreFinite ==
    ASSUME NEW S \in SUBSET Key
    PROVE  IsFiniteSet(S) /\ Cardinality(S) \in Nat
BY SizeAssumption, FS_Subset, FS_CardinalityType

LEMMA LeastNatural ==
    ASSUME NEW T, T \subseteq Nat, T # {}
    PROVE  \E x \in T : \A y \in T : x =< y
<1>1. PICK x \in T : \A y \in T : ~(<<y, x>> \in OpToRel(<, Nat))
  BY NatLessThanWellFounded, WFMin
<1>2. \A y \in T : ~(y < x)
  BY <1>1 DEF OpToRel
<1>3. \A y \in T : x \in Nat /\ y \in Nat
  OBVIOUS
<1>4. \A y \in T : x =< y
  BY <1>2, <1>3
<1> QED
  BY <1>4

LEMMA Smallest ==
    ASSUME NEW U, IsFiniteSet(U), NEW F, F \subseteq SUBSET U, F # {}
    PROVE  \E S \in F : \A T \in F : Cardinality(S) =< Cardinality(T)
<1> DEFINE sizes == {Cardinality(S) : S \in F}
<1>1. sizes \subseteq Nat /\ sizes # {}
  BY FS_Subset, FS_CardinalityType
<1>2. PICK n \in sizes : \A m \in sizes : n =< m
  BY <1>1, LeastNatural
<1> QED
  BY <1>2

LEMMA SmallestKeys ==
    ASSUME NEW F, F \subseteq SUBSET Key, F # {}
    PROVE  \E S \in F : \A T \in F : Cardinality(S) =< Cardinality(T)
BY Smallest, SizeAssumption

LEMMA OneKeyLess ==
    ASSUME NEW S \in SUBSET Key, NEW k \in S
    PROVE  S \ {k} \in SUBSET Key /\ Cardinality(S \ {k}) = Cardinality(S) - 1
BY KeysAreFinite, FS_RemoveElement

Weights == [Key -> Nat]

Weight(w, K) == MapThenSumSet(LAMBDA k : w[k], K)

Chosen(S) == CHOOSE k \in S : TRUE

Summing(w, S, sum) ==
    sum = [s \in SUBSET S |->
              IF s = {} THEN 0 ELSE w[Chosen(s)] + sum[s \ {Chosen(s)}]]

LEMMA ChosenIsMember == ASSUME NEW S, S # {} PROVE Chosen(S) \in S
BY DEF Chosen

LEMMA WeightIsSumming == \A w, S : Weight(w, S) = (CHOOSE sum : Summing(w, S, sum))[S]
BY DEF Weight, MapThenSumSet, MapThenFoldSet, Summing, Chosen

LEMMA SummingIsUnique ==
    ASSUME NEW w, NEW S \in SUBSET Key, NEW f, NEW g, Summing(w, S, f), Summing(w, S, g)
    PROVE  f = g
<1> DEFINE differ == {s \in SUBSET S : f[s] # g[s]}
<1>1. SUFFICES ASSUME differ # {} PROVE FALSE
  BY DEF Summing
<1>2. PICK s \in differ : \A t \in differ : Cardinality(s) =< Cardinality(t)
  BY <1>1, SmallestKeys
<1>3. s # {}
  BY <1>2 DEF Summing
<1>4. Chosen(s) \in s /\ s \ {Chosen(s)} \in SUBSET S
  BY <1>2, <1>3, ChosenIsMember
<1>5. s \ {Chosen(s)} \notin differ
  BY <1>2, <1>4, OneKeyLess, KeysAreFinite
<1>6. f[s] = g[s]
  BY <1>2, <1>3, <1>4, <1>5 DEF Summing
<1> QED
  BY <1>2, <1>6

Unfolds(w, S) ==
    Weight(w, S) = IF S = {} THEN 0 ELSE w[Chosen(S)] + Weight(w, S \ {Chosen(S)})

LEMMA WeightUnfolds == ASSUME NEW w PROVE \A S \in SUBSET Key : Unfolds(w, S)
<1> DEFINE wrong == {S \in SUBSET Key : ~Unfolds(w, S)}
<1>1. SUFFICES ASSUME wrong # {} PROVE FALSE
  OBVIOUS
<1>2. PICK S \in wrong : \A T \in wrong : Cardinality(S) =< Cardinality(T)
  BY <1>1, SmallestKeys
<1>3. S \in SUBSET Key
  BY <1>2
<1> DEFINE sum == [s \in SUBSET S |->
                     IF s = {} THEN 0 ELSE w[Chosen(s)] + Weight(w, s \ {Chosen(s)})]
<1>4. Summing(w, S, sum)
  <2> SUFFICES ASSUME NEW s \in SUBSET S, s # {}
               PROVE  sum[s \ {Chosen(s)}] = Weight(w, s \ {Chosen(s)})
    BY DEF Summing
  <2>1. Chosen(s) \in s /\ s \ {Chosen(s)} \in SUBSET S
    BY ChosenIsMember
  <2>2. Cardinality(s \ {Chosen(s)}) < Cardinality(S)
    <3>1. Cardinality(s) =< Cardinality(S)
      BY <1>3, KeysAreFinite, FS_Subset
    <3> QED
      BY <1>3, <2>1, <3>1, OneKeyLess, KeysAreFinite
  <2>3. Unfolds(w, s \ {Chosen(s)})
    BY <1>2, <1>3, <2>1, <2>2, KeysAreFinite
  <2> QED
    BY <2>1, <2>3 DEF Unfolds
<1> HIDE DEF sum
<1>5. (CHOOSE f : Summing(w, S, f)) = sum
  BY <1>3, <1>4, SummingIsUnique
<1>6. Weight(w, S) = sum[S]
  BY <1>5, WeightIsSumming
<1>7. Unfolds(w, S)
  BY <1>6 DEF Unfolds, sum
<1> QED
  BY <1>2, <1>7

LEMMA WeightIsNatural == ASSUME NEW w \in Weights PROVE \A S \in SUBSET Key : Weight(w, S) \in Nat
<1> DEFINE wrong == {S \in SUBSET Key : Weight(w, S) \notin Nat}
<1>1. SUFFICES ASSUME wrong # {} PROVE FALSE
  OBVIOUS
<1>2. PICK S \in wrong : \A T \in wrong : Cardinality(S) =< Cardinality(T)
  BY <1>1, SmallestKeys
<1>3. Unfolds(w, S)
  BY <1>2, WeightUnfolds
<1>4. S # {}
  BY <1>2, <1>3 DEF Unfolds
<1>5. Chosen(S) \in S /\ w[Chosen(S)] \in Nat
  BY <1>2, <1>4, ChosenIsMember DEF Weights
<1>6. Weight(w, S \ {Chosen(S)}) \in Nat
  BY <1>2, <1>5, OneKeyLess, KeysAreFinite
<1>7. Weight(w, S) = w[Chosen(S)] + Weight(w, S \ {Chosen(S)})
  BY <1>4, <1>3 DEF Unfolds
<1> QED
  BY <1>2, <1>5, <1>6, <1>7

\* Any key may be counted last.
TakesOut(w, S) == \A k \in S : Weight(w, S) = w[k] + Weight(w, S \ {k})

LEMMA WeightTakesOut == ASSUME NEW w \in Weights PROVE \A S \in SUBSET Key : TakesOut(w, S)
<1> DEFINE wrong == {S \in SUBSET Key : ~TakesOut(w, S)}
<1>1. SUFFICES ASSUME wrong # {} PROVE FALSE
  OBVIOUS
<1>2. PICK S \in wrong : \A T \in wrong : Cardinality(S) =< Cardinality(T)
  BY <1>1, SmallestKeys
<1>3. PICK k \in S : Weight(w, S) # w[k] + Weight(w, S \ {k})
  BY <1>2 DEF TakesOut
<1> DEFINE c == Chosen(S)
<1>4. c \in S /\ S \in SUBSET Key
  BY <1>2, <1>3, ChosenIsMember
<1>5. Weight(w, S) = w[c] + Weight(w, S \ {c})
  BY <1>2, <1>3, WeightUnfolds DEF Unfolds
<1> HIDE DEF c
<1>6. c # k
  BY <1>3, <1>5
<1>7. TakesOut(w, S \ {c}) /\ TakesOut(w, S \ {k})
  BY <1>2, <1>3, <1>4, OneKeyLess, KeysAreFinite
<1>8. Weight(w, S \ {c}) = w[k] + Weight(w, (S \ {c}) \ {k})
  BY <1>3, <1>6, <1>7 DEF TakesOut
<1>9. Weight(w, S \ {k}) = w[c] + Weight(w, (S \ {k}) \ {c})
  BY <1>4, <1>6, <1>7 DEF TakesOut
<1>10. (S \ {k}) \ {c} = (S \ {c}) \ {k}
  OBVIOUS
<1>11. w[c] \in Nat /\ w[k] \in Nat /\ Weight(w, (S \ {c}) \ {k}) \in Nat
  BY <1>3, <1>4, WeightIsNatural DEF Weights
<1>12. Weight(w, S \ {k}) = w[c] + Weight(w, (S \ {c}) \ {k})
  BY <1>9, <1>10
<1>13. Weight(w, S) = w[c] + (w[k] + Weight(w, (S \ {c}) \ {k}))
  BY <1>5, <1>8
<1> QED
  BY <1>3, <1>11, <1>12, <1>13

\* Fewer keys that each weigh no more weigh no more together.
Outweighs(w, v, T) ==
    \A S \in SUBSET T : (\A k \in S : w[k] =< v[k]) => Weight(w, S) =< Weight(v, T)

LEMMA WeightIsMonotone ==
    ASSUME NEW w \in Weights, NEW v \in Weights
    PROVE  \A T \in SUBSET Key : Outweighs(w, v, T)
<1> DEFINE wrong == {T \in SUBSET Key : ~Outweighs(w, v, T)}
<1>1. SUFFICES ASSUME wrong # {} PROVE FALSE
  OBVIOUS
<1>2. PICK T \in wrong : \A U \in wrong : Cardinality(T) =< Cardinality(U)
  BY <1>1, SmallestKeys
<1>3. PICK S \in SUBSET T : (\A k \in S : w[k] =< v[k]) /\ ~(Weight(w, S) =< Weight(v, T))
  BY <1>2 DEF Outweighs
<1>4. T # {}
  <2>1. SUFFICES ASSUME T = {} PROVE FALSE
    OBVIOUS
  <2>2. Weight(w, {}) = 0 /\ Weight(v, {}) = 0 /\ S = {}
    BY <1>3, <2>1, WeightUnfolds DEF Unfolds
  <2> QED
    BY <1>3, <2>1, <2>2
<1>5. PICK k \in T : TRUE
  BY <1>4
<1>6. Outweighs(w, v, T \ {k})
  BY <1>2, <1>5, OneKeyLess, KeysAreFinite
<1>7. Weight(w, S \ {k}) =< Weight(v, T \ {k})
  BY <1>3, <1>6 DEF Outweighs
<1>8. Weight(v, T) = v[k] + Weight(v, T \ {k})
  BY <1>2, <1>5, WeightTakesOut DEF TakesOut
<1>9. /\ v[k] \in Nat /\ w[k] \in Nat
      /\ Weight(v, T \ {k}) \in Nat /\ Weight(w, S \ {k}) \in Nat
  <2>1. k \in Key /\ T \ {k} \in SUBSET Key /\ S \ {k} \in SUBSET Key
    BY <1>2, <1>3, <1>5
  <2> QED
    BY <2>1, WeightIsNatural DEF Weights
<1>10. Weight(w, S) =< Weight(v, T)
  <2>1. CASE k \in S
    <3>1. Weight(w, S) = w[k] + Weight(w, S \ {k})
      BY <1>2, <1>3, <2>1, WeightTakesOut DEF TakesOut
    <3> QED
      BY <1>3, <1>7, <1>8, <1>9, <2>1, <3>1
  <2>2. CASE k \notin S
    <3>1. S \ {k} = S
      BY <2>2
    <3>2. Weight(w, S) =< Weight(v, T \ {k}) /\ Weight(w, S) \in Nat
      BY <1>7, <1>9, <3>1
    <3> QED
      BY <1>8, <1>9, <3>2
  <2> QED
    BY <2>1, <2>2
<1> QED
  BY <1>3, <1>10

\* A key that is counted extra.
LEMMA WeightOfOneMore ==
    ASSUME NEW w \in Weights, NEW S \in SUBSET Key, NEW k \in Key
    PROVE  Weight(w, S) =< w[k] + Weight(w, S \ {k})
<1>1. S \ {k} \in SUBSET Key /\ w[k] \in Nat
  BY DEF Weights
<1>2. Weight(w, S \ {k}) \in Nat
  BY <1>1, WeightIsNatural
<1>3. CASE k \in S
  <2>1. Weight(w, S) = w[k] + Weight(w, S \ {k})
    BY <1>3, WeightTakesOut DEF TakesOut
  <2> QED
    BY <1>1, <1>2, <2>1
<1>4. CASE k \notin S
  <2>1. S \ {k} = S
    BY <1>4
  <2> QED
    BY <1>1, <1>2, <2>1
<1> QED
  BY <1>3, <1>4

\* So many times each is so many times all.
Multiplies(w, v, n, S) == Weight(v, S) = n * Weight(w, S)

LEMMA WeightMultiplies ==
    ASSUME NEW w \in Weights, NEW v \in Weights, NEW n \in Nat,
           \A k \in Key : v[k] = n * w[k]
    PROVE  \A S \in SUBSET Key : Multiplies(w, v, n, S)
<1> DEFINE wrong == {S \in SUBSET Key : ~Multiplies(w, v, n, S)}
<1>1. SUFFICES ASSUME wrong # {} PROVE FALSE
  OBVIOUS
<1>2. PICK S \in wrong : \A T \in wrong : Cardinality(S) =< Cardinality(T)
  BY <1>1, SmallestKeys
<1>3. S # {}
  <2>1. Weight(w, {}) = 0 /\ Weight(v, {}) = 0
    BY WeightUnfolds DEF Unfolds
  <2>2. Multiplies(w, v, n, {})
    BY <2>1 DEF Multiplies
  <2> QED
    BY <1>2, <2>2
<1>4. PICK k \in S : TRUE
  BY <1>3
<1>5. Weight(v, S \ {k}) = n * Weight(w, S \ {k})
  <2>1. Multiplies(w, v, n, S \ {k})
    BY <1>2, <1>4, OneKeyLess, KeysAreFinite
  <2> QED
    BY <2>1 DEF Multiplies
<1>6. /\ Weight(v, S) = v[k] + Weight(v, S \ {k})
      /\ Weight(w, S) = w[k] + Weight(w, S \ {k})
  BY <1>2, <1>4, WeightTakesOut DEF TakesOut
<1>7. /\ w[k] \in Nat /\ v[k] = n * w[k]
      /\ Weight(w, S \ {k}) \in Nat
  BY <1>2, <1>4, WeightIsNatural DEF Weights
<1>8. \A a, b \in Nat : n * (a + b) = n * a + n * b
  OBVIOUS
<1>9. Multiplies(w, v, n, S)
  BY <1>5, <1>6, <1>7, <1>8 DEF Multiplies
<1> QED
  BY <1>2, <1>9

-----------------------------------------------------------------------------
(* What a key still has coming: each Get of it under way may pay for it    *)
(* once more, and no other ever will, because the key is in the cache once *)
(* the first has committed.                                                *)

Flying(k) == {r \in Reader : pc[r] # "idle" /\ key[r] = k}

Due == [k \in Key |-> (Cardinality(Reader) - Cardinality(Flying(k))) * Size[k]]

Settled == {k \in Key : cache[k] # None /\ Content(k) = "data"}
Held    == {k \in Key : cache[k] = "data"}

\* What a Get brings to its commit it found in the file.
Honest ==
    \A r \in Reader : /\ pc[r] = "commit" <=> fetched[r] # None
                      /\ fetched[r] = "data" => Content(key[r]) = "data"

Paid ==
    /\ Honest
    /\ Weight(Size, Held) =< total
    /\ total =< Weight(Due, Settled)

LEMMA SizesWeigh == Size \in Weights
BY SizeAssumption DEF Weights

LEMMA FlyingAreFew ==
    \A k : /\ IsFiniteSet(Flying(k))
           /\ Cardinality(Reader) \in Nat
           /\ Cardinality(Flying(k)) \in 0 .. Cardinality(Reader)
<1> SUFFICES ASSUME NEW k
             PROVE  /\ IsFiniteSet(Flying(k))
                    /\ Cardinality(Reader) \in Nat
                    /\ Cardinality(Flying(k)) \in 0 .. Cardinality(Reader)
  OBVIOUS
<1>1. Flying(k) \in SUBSET Reader
  BY DEF Flying
<1>2. IsFiniteSet(Flying(k)) /\ Cardinality(Flying(k)) =< Cardinality(Reader)
  BY <1>1, SizeAssumption, FS_Subset
<1>3. Cardinality(Flying(k)) \in Nat /\ Cardinality(Reader) \in Nat
  BY <1>2, SizeAssumption, FS_CardinalityType
<1> QED
  BY <1>2, <1>3

LEMMA ProductIsNatural == \A a, b \in Nat : a * b \in Nat
OBVIOUS

LEMMA DueWeighs == Due \in Weights
<1>1. ASSUME NEW k \in Key
      PROVE  (Cardinality(Reader) - Cardinality(Flying(k))) * Size[k] \in Nat
  <2>1. Cardinality(Reader) - Cardinality(Flying(k)) \in Nat
    BY FlyingAreFew
  <2>2. Size[k] \in Nat
    BY SizeAssumption
  <2> QED
    BY <2>1, <2>2, ProductIsNatural
<1> QED
  BY <1>1 DEF Due, Weights

LEMMA DueWeighsNext == Due' \in Weights
<1>1. ASSUME NEW k \in Key
      PROVE  (Cardinality(Reader) - Cardinality(Flying(k)')) * Size[k] \in Nat
  <2>1. Flying(k)' \in SUBSET Reader
    BY DEF Flying
  <2>2. IsFiniteSet(Flying(k)') /\ Cardinality(Flying(k)') =< Cardinality(Reader)
    BY <2>1, SizeAssumption, FS_Subset
  <2>3. Cardinality(Flying(k)') \in Nat /\ Cardinality(Reader) \in Nat
    BY <2>2, SizeAssumption, FS_CardinalityType
  <2>4. Cardinality(Reader) - Cardinality(Flying(k)') \in Nat /\ Size[k] \in Nat
    BY <2>2, <2>3, SizeAssumption
  <2> QED
    BY <2>4, ProductIsNatural
<1> QED
  BY <1>1 DEF Due, Weights

\* Of the steps only the end of a Get frees what is still due on its key.
LEMMA SameFlights ==
    ASSUME NEW S \in SUBSET Key, \A k \in S : Flying(k)' = Flying(k)
    PROVE  Weight(Due, S) =< Weight(Due', S)
<1>1. \A k \in S : Due[k] =< Due'[k]
  <2> TAKE k \in S
  <2>1. Due'[k] = Due[k] /\ Due[k] \in Nat
    BY DueWeighs DEF Due, Weights
  <2> QED
    BY <2>1
<1> QED
  BY <1>1, DueWeighs, DueWeighsNext, WeightIsMonotone DEF Outweighs

\* A step that commits nothing.
LEMMA NothingPaid ==
    ASSUME TypeOK, Paid, UNCHANGED <<cache, total>>, Honest',
           \A k \in Settled : Flying(k)' = Flying(k)
    PROVE  Paid'
<1>1. Settled \in SUBSET Key /\ total \in Nat
  BY DEF Settled, TypeOK
<1>2. Settled' = Settled /\ Held' = Held
  BY DEF Settled, Held
<1>3. Weight(Due, Settled) =< Weight(Due', Settled)
  BY <1>1, SameFlights
<1>4. Weight(Due, Settled) \in Nat /\ Weight(Due', Settled) \in Nat
  BY <1>1, DueWeighs, DueWeighsNext, WeightIsNatural
<1>5. total' =< Weight(Due', Settled')
  BY <1>1, <1>2, <1>3, <1>4 DEF Paid
<1>6. Weight(Size, Held') =< total'
  BY <1>2 DEF Paid
<1> QED
  BY <1>5, <1>6 DEF Paid

\* What a commit pays was due, and what it holds it paid for.
LEMMA CommitPays ==
    ASSUME TypeOK, Paid, NEW r \in Reader, Commit(r), NEW k, k = key[r]
    PROVE  Paid'
<1> DEFINE result == IF fetched[r] = "data" /\ ~Fits(k) THEN "over total" ELSE fetched[r]
<1>1. /\ k \in Key /\ pc[r] # "idle" /\ r \in Flying(k)
      /\ Size[k] \in Nat /\ total \in Nat
  BY SizeAssumption DEF Commit, TypeOK, Flying
<1>2. /\ Settled \in SUBSET Key /\ Held \in SUBSET Key
      /\ Settled \ {k} \in SUBSET Key /\ Held \ {k} \in SUBSET Key
  BY DEF Settled, Held
<1>3. /\ total' = IF result = "data" THEN total + Size[k] ELSE total
      /\ cache' = [cache EXCEPT ![k] = result]
      /\ pc' = [pc EXCEPT ![r] = "idle"]
      /\ fetched' = [fetched EXCEPT ![r] = None]
      /\ key' = key
  BY DEF Commit
<1>4. result = "data" => Content(k) = "data"
  BY DEF Paid, Honest
<1>5. Flying(k)' = Flying(k) \ {r} /\ \A j \in Key \ {k} : Flying(j)' = Flying(j)
  BY <1>1, <1>3 DEF Flying, TypeOK
<1>6. Honest'
  BY <1>3 DEF Paid, Honest, TypeOK, None
<1> HIDE DEF result
<1>7. Weight(Size, Held') =< total'
  <2>1. Held' = IF result = "data" THEN Held \cup {k} ELSE Held \ {k}
    BY <1>1, <1>3 DEF Held, TypeOK
  <2>2. Weight(Size, Held \ {k}) =< Weight(Size, Held)
    <3>1. \A j \in Held \ {k} : Size[j] =< Size[j]
      BY <1>2, SizeAssumption
    <3> QED
      BY <1>2, <3>1, SizesWeigh, WeightIsMonotone DEF Outweighs
  <2>3. Weight(Size, Held \ {k}) \in Nat /\ Weight(Size, Held) \in Nat
    BY <1>2, SizesWeigh, WeightIsNatural
  <2>4. CASE result = "data"
    <3>1. Held' \in SUBSET Key /\ Held' \ {k} = Held \ {k}
      BY <1>1, <1>2, <2>1, <2>4
    <3>2. Weight(Size, Held') =< Size[k] + Weight(Size, Held \ {k})
      BY <1>1, <3>1, SizesWeigh, WeightOfOneMore
    <3>3. Weight(Size, Held') \in Nat
      BY <3>1, SizesWeigh, WeightIsNatural
    <3> QED
      BY <1>1, <1>3, <2>2, <2>3, <2>4, <3>2, <3>3 DEF Paid
  <2>5. CASE result # "data"
    BY <1>1, <1>3, <2>1, <2>2, <2>3, <2>5 DEF Paid
  <2> QED
    BY <2>4, <2>5
<1>8. total' =< Weight(Due', Settled')
  <2>1. Weight(Due, Settled \ {k}) =< Weight(Due', Settled \ {k})
    BY <1>2, <1>5, SameFlights
  <2>2. /\ Weight(Due, Settled \ {k}) \in Nat /\ Weight(Due', Settled \ {k}) \in Nat
        /\ Weight(Due, Settled) \in Nat /\ Due[k] \in Nat
    BY <1>1, <1>2, DueWeighs, DueWeighsNext, WeightIsNatural DEF Weights
  <2>3. CASE Content(k) = "data"
    <3>1. /\ Settled' \in SUBSET Key /\ Settled' \ {k} = Settled \ {k}
          /\ k \in Settled'
      <4>1. result # None
        BY DEF Commit, Paid, Honest, None, result
      <4> QED
        BY <1>1, <1>3, <2>3, <4>1 DEF Settled, TypeOK
    <3>2. Due'[k] = Due[k] + Size[k]
      <4> DEFINE n == Cardinality(Reader)
                 m == Cardinality(Flying(k))
      <4>1. Cardinality(Flying(k)') = m - 1
        BY <1>1, <1>5, FlyingAreFew, FS_RemoveElement
      <4>2. n \in Nat /\ m \in Nat
        BY FlyingAreFew
      <4>3. Due[k] = (n - m) * Size[k] /\ Due'[k] = (n - (m - 1)) * Size[k]
        BY <1>1, <4>1 DEF Due
      <4> HIDE DEF n, m
      <4>4. \A a, b \in Int : (a + 1) * b = a * b + b
        OBVIOUS
      <4>5. n - (m - 1) = (n - m) + 1 /\ n - m \in Int
        BY <4>2
      <4> QED
        BY <1>1, <4>3, <4>4, <4>5
    <3>3. Weight(Due', Settled') = Due'[k] + Weight(Due', Settled \ {k})
      BY <3>1, DueWeighsNext, WeightTakesOut DEF TakesOut
    <3>4. Weight(Due, Settled) =< Due[k] + Weight(Due, Settled \ {k})
      BY <1>1, <1>2, DueWeighs, WeightOfOneMore
    <3>5. total' =< total + Size[k] /\ total =< Weight(Due, Settled)
      BY <1>1, <1>3 DEF Paid
    <3>6. total' \in Nat
      BY <1>1, <1>3
    <3> QED
      BY <1>1, <2>1, <2>2, <3>2, <3>3, <3>4, <3>5, <3>6
  <2>4. CASE Content(k) # "data"
    <3>1. Settled' = Settled /\ k \notin Settled
      BY <1>1, <1>3, <2>4 DEF Settled, TypeOK
    <3>2. Settled \ {k} = Settled
      BY <3>1
    <3>3. total' = total
      BY <1>3, <1>4, <2>4
    <3>4. Weight(Due, Settled) =< Weight(Due', Settled')
      BY <2>1, <3>1, <3>2
    <3>5. Weight(Due', Settled') \in Nat
      BY <2>2, <3>1, <3>2
    <3> QED
      BY <1>1, <2>2, <3>3, <3>4, <3>5 DEF Paid
  <2> QED
    BY <2>3, <2>4
<1> QED
  BY <1>6, <1>7, <1>8 DEF Paid

LEMMA PaidStep == ASSUME TypeOK, Paid, [Next]_vars PROVE Paid'
<1>1. ASSUME NEW r \in Reader, NEW k \in Key, Hit(r, k) PROVE Paid'
  <2>1. Honest'
    BY <1>1 DEF Hit, Paid, Honest, TypeOK, None
  <2>2. \A j \in Settled : Flying(j)' = Flying(j)
    BY <1>1 DEF Hit, Flying, TypeOK
  <2> QED
    BY <1>1, <2>1, <2>2, NothingPaid DEF Hit
<1>2. ASSUME NEW r \in Reader, NEW k \in Key, Miss(r, k) PROVE Paid'
  <2>1. Honest'
    BY <1>2 DEF Miss, Paid, Honest, TypeOK, None
  <2>2. \A j \in Settled : Flying(j)' = Flying(j)
    BY <1>2 DEF Miss, Flying, TypeOK, Settled
  <2> QED
    BY <1>2, <2>1, <2>2, NothingPaid DEF Miss
<1>3. ASSUME NEW r \in Reader, Fetch(r) PROVE Paid'
  <2>1. Honest'
    BY <1>3 DEF Fetch, Paid, Honest, TypeOK, None, Content
  <2>2. \A j \in Settled : Flying(j)' = Flying(j)
    BY <1>3 DEF Fetch, Flying, TypeOK
  <2> QED
    BY <1>3, <2>1, <2>2, NothingPaid DEF Fetch
<1>4. ASSUME NEW r \in Reader, Commit(r) PROVE Paid'
  BY <1>4, CommitPays
<1>5. CASE UNCHANGED vars
  <2>1. Honest' /\ \A j \in Settled : Flying(j)' = Flying(j)
    BY <1>5 DEF vars, Paid, Honest, Flying
  <2> QED
    BY <1>5, <2>1, NothingPaid DEF vars
<1> QED
  BY <1>1, <1>2, <1>3, <1>4, <1>5 DEF Next

\* What is cached was paid for, and no key more often than there are readers
\* (Get commits without a second look at the cache).
THEOREM PaidByReaders == Spec => []PaidOncePerReader
<1>1. Init => Paid
  <2> SUFFICES ASSUME Init PROVE Paid
    OBVIOUS
  <2>1. Settled = {} /\ Held = {} /\ Honest /\ total = 0
    BY DEF Init, Settled, Held, Honest, None
  <2>2. Weight(Size, {}) = 0 /\ Weight(Due, {}) = 0
    BY WeightUnfolds DEF Unfolds
  <2> QED
    BY <2>1, <2>2 DEF Paid
<1>2. TypeOK /\ Paid => PaidOncePerReader
  <2> SUFFICES ASSUME TypeOK, Paid PROVE PaidOncePerReader
    OBVIOUS
  <2> DEFINE n   == Cardinality(Reader)
             all == [k \in Key |-> n * Size[k]]
  <2>1. \A K : SizeOf(K) = Weight(Size, K)
    BY DEF SizeOf, Weight
  <2>2. n \in Nat /\ Settled \in SUBSET Key /\ total \in Nat
    BY FlyingAreFew DEF Settled, TypeOK
  <2>3. all \in Weights
    BY <2>2, SizeAssumption, ProductIsNatural DEF Weights
  <2>4. \A k \in Settled : Due[k] =< all[k]
    <3> TAKE k \in Settled
    <3> DEFINE m == Cardinality(Flying(k))
    <3>1. n \in Nat /\ m \in Nat /\ n - m \in Nat /\ Size[k] \in Nat
      BY <2>2, FlyingAreFew, SizeAssumption
    <3>2. Due[k] = (n - m) * Size[k] /\ all[k] = n * Size[k]
      BY <2>2 DEF Due
    <3> HIDE DEF n, m
    <3>3. \A a, b, c \in Nat : (a + b) * c = a * c + b * c
      OBVIOUS
    <3>4. ((n - m) + m) * Size[k] = (n - m) * Size[k] + m * Size[k] /\ (n - m) + m = n
      BY <3>1, <3>3
    <3>5. (n - m) * Size[k] \in Nat /\ m * Size[k] \in Nat
      BY <3>1, ProductIsNatural
    <3> QED
      BY <3>2, <3>4, <3>5
  <2>5. Weight(all, Settled) = n * Weight(Size, Settled)
    BY <2>2, <2>3, SizesWeigh, WeightMultiplies DEF Multiplies
  <2> HIDE DEF all, n
  <2>6. Weight(Due, Settled) =< Weight(all, Settled)
    BY <2>2, <2>3, <2>4, DueWeighs, WeightIsMonotone DEF Outweighs
  <2>7. Weight(Due, Settled) \in Nat /\ Weight(all, Settled) \in Nat
    BY <2>2, <2>3, DueWeighs, WeightIsNatural
  <2>8. total =< n * Weight(Size, Settled)
    BY <2>2, <2>5, <2>6, <2>7 DEF Paid
  <2> QED
    BY <2>1, <2>8 DEF Paid, PaidOncePerReader, Settled, Held, n
<1> QED
  BY <1>1, <1>2, PaidStep, TypeCorrect, PTL DEF Spec
=============================================================================
