----------------------------- MODULE CapsProofs -----------------------------
(***************************************************************************)
(* What a cap promises, for any items, keys and limit: it stays within the *)
(* limit, and it silences no key, and no finding, that there is room for.  *)
(***************************************************************************)
EXTENDS Caps, FiniteSetTheorems, FunctionTheorems, WellFoundedInduction, TLAPS

----------------------------------------------------------------------------
(* The lowest of a set of numbers.                                         *)

\* A non-empty set of numbers has a least one.
LEMMA LeastIsLeast ==
  ASSUME NEW S \in SUBSET Nat, S # {}
  PROVE  Least(S) \in S /\ \A j \in S : Least(S) <= j
<1>1. PICK i \in S : \A j \in S : ~ (<<j, i>> \in OpToRel(<, Nat))
  BY NatLessThanWellFounded, WFMin
<1>2. ASSUME NEW j \in S
      PROVE  i <= j
  <2>1. i \in Nat /\ j \in Nat
    OBVIOUS
  <2>2. j < i => <<j, i>> \in OpToRel(<, Nat)
    BY <2>1, Zenon DEF OpToRel
  <2>3. ~ (j < i)
    BY <1>1, <2>2, Zenon
  <2> QED
    BY <2>1, <2>3
<1> QED
  BY <1>2 DEF Least

\* A higher number has more below it.
LEMMA RankIncreases ==
  ASSUME NEW S \in SUBSET Nat, IsFiniteSet(S), NEW i \in S, NEW k \in S, i < k
  PROVE  /\ Cardinality({j \in S : j < i}) \in Nat
         /\ Cardinality({j \in S : j < k}) \in Nat
         /\ Cardinality({j \in S : j < i}) < Cardinality({j \in S : j < k})
<1> DEFINE Below(n) == {j \in S : j < n}
<1>1. /\ IsFiniteSet(Below(i)) /\ Cardinality(Below(i)) \in Nat
      /\ IsFiniteSet(Below(k)) /\ Cardinality(Below(k)) \in Nat
  <2>1. Below(i) \in SUBSET S /\ Below(k) \in SUBSET S
    OBVIOUS
  <2> QED
    BY <2>1, FS_Subset, FS_CardinalityType
<1>n. \A j \in S : j \in Nat
  OBVIOUS
<1>2. Below(i) \in SUBSET Below(k) /\ i \in Below(k) /\ i \notin Below(i)
  <2>1. \A j \in S : j < i => j < k
    BY <1>n
  <2>2. ~ (i < i)
    BY <1>n
  <2> QED
    BY <2>1, <2>2
<1>3. /\ Cardinality(Below(i)) <= Cardinality(Below(k))
      /\ Cardinality(Below(k)) = Cardinality(Below(i)) => Below(k) = Below(i)
  <2> HIDE DEF Below
  <2> QED
    BY <1>1, <1>2, FS_Subset
<1>4. Cardinality(Below(i)) # Cardinality(Below(k))
  BY <1>2, <1>3
<1> QED
  BY <1>1, <1>3, <1>4

\* No more than were asked for.
LEMMA LowestBounded ==
  ASSUME NEW S \in SUBSET Nat, IsFiniteSet(S), NEW n \in Nat
  PROVE  /\ Lowest(S, n) \in SUBSET S
         /\ IsFiniteSet(Lowest(S, n)) /\ Cardinality(Lowest(S, n)) \in Nat
         /\ Cardinality(Lowest(S, n)) <= n
<1> DEFINE L == Lowest(S, n)
           rank == [i \in L |-> Cardinality({j \in S : j < i}) + 1]
<1>1. L \in SUBSET S
  BY DEF Lowest
<1>2. IsFiniteSet(L) /\ Cardinality(L) \in Nat
  BY <1>1, FS_Subset, FS_CardinalityType
<1>3. ASSUME NEW i \in L
      PROVE  Cardinality({j \in S : j < i}) \in Nat /\ Cardinality({j \in S : j < i}) < n
  <2>1. {j \in S : j < i} \in SUBSET S
    OBVIOUS
  <2>2. Cardinality({j \in S : j < i}) \in Nat
    BY <2>1, FS_Subset, FS_CardinalityType
  <2> QED
    BY <2>2 DEF Lowest
<1>4. rank \in [L -> 1..n]
  BY <1>3
<1>5. ASSUME NEW i \in L, NEW k \in L, i # k
      PROVE  rank[i] # rank[k]
  <2>0. i \in S /\ k \in S
    BY <1>1, <1>5, Zenon
  <2>1. i < k \/ k < i
    <3>1. i \in Nat /\ k \in Nat
      BY <2>0
    <3> QED
      BY <3>1, <1>5
  <2>r. rank[i] = Cardinality({j \in S : j < i}) + 1 /\ rank[k] = Cardinality({j \in S : j < k}) + 1
    BY <1>5, Zenon
  <2>2. CASE i < k
    <3>1. /\ Cardinality({j \in S : j < i}) \in Nat
          /\ Cardinality({j \in S : j < k}) \in Nat
          /\ Cardinality({j \in S : j < i}) < Cardinality({j \in S : j < k})
      BY <2>0, <2>2, RankIncreases
    <3> QED
      BY <3>1, <2>r
  <2>3. CASE k < i
    <3>1. /\ Cardinality({j \in S : j < i}) \in Nat
          /\ Cardinality({j \in S : j < k}) \in Nat
          /\ Cardinality({j \in S : j < k}) < Cardinality({j \in S : j < i})
      BY <2>0, <2>3, RankIncreases
    <3> QED
      BY <3>1, <2>r
  <2> QED
    BY <2>1, <2>2, <2>3
<1>6. rank \in Injection(L, 1..n)
  <2> HIDE DEF L, rank
  <2> QED
    BY <1>4, <1>5 DEF Injection, IsInjective
<1>7. IsFiniteSet(1..n) /\ Cardinality(1..n) = n
  BY FS_Interval
<1>8. Cardinality(L) <= n
  <2> HIDE DEF L, rank
  <2> QED
    BY <1>6, <1>7, FS_Injection
<1> QED
  BY <1>1, <1>2, <1>8

\* All of them, when there are no more than were asked for.
LEMMA LowestIsAll ==
  ASSUME NEW S \in SUBSET Nat, IsFiniteSet(S), NEW n \in Nat, Cardinality(S) <= n
  PROVE  Lowest(S, n) = S
<1> SUFFICES ASSUME NEW i \in S
             PROVE  Cardinality({j \in S : j < i}) < n
  BY DEF Lowest
<1>1. {j \in S : j < i} \in SUBSET S /\ i \notin {j \in S : j < i}
  OBVIOUS
<1> DEFINE Below == {j \in S : j < i}
<1>2. /\ Cardinality(Below) \in Nat /\ Cardinality(S) \in Nat
      /\ Cardinality(Below) <= Cardinality(S)
      /\ Cardinality(S) = Cardinality(Below) => S = Below
  <2> HIDE DEF Below
  <2> QED
    BY <1>1, FS_Subset, FS_CardinalityType DEF Below
<1> QED
  BY <1>1, <1>2

----------------------------------------------------------------------------
(* The passes.                                                             *)

\* A pass stays within the limit, keeps what was kept, and takes from S alone.
LEMMA FillBounded ==
  ASSUME NEW kept \in SUBSET Nat, IsFiniteSet(kept), NEW S \in SUBSET Nat, IsFiniteSet(S),
         NEW limit \in Nat, Cardinality(kept) <= limit
  PROVE  /\ kept \in SUBSET Fill(kept, S, limit)
         /\ Fill(kept, S, limit) \in SUBSET (kept \cup S)
         /\ Fill(kept, S, limit) \in SUBSET Nat
         /\ IsFiniteSet(Fill(kept, S, limit)) /\ Cardinality(Fill(kept, S, limit)) \in Nat
         /\ Cardinality(Fill(kept, S, limit)) <= limit
<1> DEFINE room == limit - Cardinality(kept)
           more == Lowest(S \ kept, room)
<1>1. Cardinality(kept) \in Nat /\ room \in Nat
  BY FS_CardinalityType
<1>2. S \ kept \in SUBSET Nat /\ IsFiniteSet(S \ kept)
  BY FS_Difference
<1>3. /\ more \in SUBSET (S \ kept)
      /\ IsFiniteSet(more) /\ Cardinality(more) \in Nat /\ Cardinality(more) <= room
  <2> HIDE DEF room
  <2> QED
    BY <1>1, <1>2, LowestBounded
<1>4. kept \cap more = {}
  <2> HIDE DEF more
  <2> QED
    BY <1>3
<1>5. /\ IsFiniteSet(kept \cup more)
      /\ Cardinality(kept \cup more) = Cardinality(kept) + Cardinality(more)
  <2> HIDE DEF more
  <2>1. Cardinality({}) = 0
    BY FS_EmptySet
  <2>2. Cardinality(kept \cup more)
          = Cardinality(kept) + Cardinality(more) - Cardinality(kept \cap more)
    BY <1>3, FS_Union
  <2>3. IsFiniteSet(kept \cup more)
    BY <1>3, FS_Union
  <2>4. Cardinality(kept \cap more) = 0
    BY <1>4, <2>1
  <2> QED
    BY <1>1, <1>3, <2>2, <2>3, <2>4
<1>6. Fill(kept, S, limit) = kept \cup more
  BY DEF Fill
<1> HIDE DEF more
<1>7. Cardinality(kept \cup more) \in Nat /\ Cardinality(kept \cup more) <= limit
  BY <1>1, <1>3, <1>5
<1> QED
  BY <1>3, <1>5, <1>6, <1>7

\* A pass with room for all of S takes all of S.
LEMMA FillIsAll ==
  ASSUME NEW kept \in SUBSET Nat, IsFiniteSet(kept), NEW S \in SUBSET Nat, IsFiniteSet(S),
         NEW limit \in Nat, Cardinality(kept) + Cardinality(S \ kept) <= limit
  PROVE  Fill(kept, S, limit) = kept \cup S
<1> DEFINE room == limit - Cardinality(kept)
<1>1. S \ kept \in SUBSET Nat /\ IsFiniteSet(S \ kept)
  BY FS_Difference
<1>2. Cardinality(kept) \in Nat /\ Cardinality(S \ kept) \in Nat
  BY <1>1, FS_CardinalityType
<1>3. room \in Nat /\ Cardinality(S \ kept) <= room
  BY <1>2
<1>4. Lowest(S \ kept, room) = S \ kept
  <2> HIDE DEF room
  <2> QED
    BY <1>1, <1>3, LowestIsAll
<1> QED
  BY <1>4 DEF Fill

\* Where something has a key, one of the firsts has it.
LEMMA FirstsSpeakForAll ==
  ASSUME NEW S \in SUBSET Nat, NEW key, NEW seen, NEW i \in S, key[i] \notin seen
  PROVE  \E k \in Firsts(S, key, seen) : key[k] = key[i]
<1> DEFINE same == {j \in S : key[j] = key[i]}
<1>1. same \in SUBSET Nat /\ same # {}
  OBVIOUS
<1>2. Least(same) \in same /\ \A j \in same : Least(same) <= j
  <2> HIDE DEF same
  <2> QED
    BY <1>1, LeastIsLeast
<1>3. Least(same) \in S /\ key[Least(same)] = key[i]
  BY <1>2
<1>4. \A j \in S : key[Least(same)] = key[j] => Least(same) <= j
  BY <1>2, <1>3
<1>5. Least(same) \in Firsts(S, key, seen)
  BY <1>3, <1>4 DEF Firsts
<1> QED
  BY <1>3, <1>5

\* Items of different keys are no more than the keys.
LEMMA OneOfEachKey ==
  ASSUME NEW T \in SUBSET Nat, NEW K, IsFiniteSet(K), NEW key,
         \A i \in T : key[i] \in K,
         \A i, j \in T : key[i] = key[j] => i = j
  PROVE  Cardinality(T) \in Nat /\ Cardinality(K) \in Nat /\ Cardinality(T) <= Cardinality(K)
<1> DEFINE f == [i \in T |-> key[i]]
<1>1. f \in Injection(T, K)
  <2>1. f \in [T -> K]
    OBVIOUS
  <2>2. \A i, j \in T : f[i] = f[j] => i = j
    OBVIOUS
  <2> HIDE DEF f
  <2> QED
    BY <2>1, <2>2 DEF Injection, IsInjective
<1> HIDE DEF f
<1>2. IsFiniteSet(T) /\ Cardinality(T) <= Cardinality(K)
  BY <1>1, FS_Injection
<1> QED
  BY <1>2, FS_CardinalityType

\* Two firsts of the same key are the same.
LEMMA FirstsDiffer ==
  ASSUME NEW S \in SUBSET Nat, NEW key, NEW seen,
         NEW i \in Firsts(S, key, seen), NEW j \in Firsts(S, key, seen), key[i] = key[j]
  PROVE  i = j
<1>1. i \in S /\ j \in S /\ i <= j /\ j <= i
  BY DEF Firsts
<1>2. i \in Nat /\ j \in Nat
  BY <1>1
<1> QED
  BY <1>1, <1>2

----------------------------------------------------------------------------
(* caps.cap.                                                               *)

\* A list comes out within its limit, and nothing comes out that did not go in.
THEOREM CapBounded ==
  ASSUME NEW items \in SUBSET Nat, IsFiniteSet(items), NEW pinned \in SUBSET items,
         NEW key, NEW limit \in Nat
  PROVE  /\ Cap(items, key, pinned, limit) \in SUBSET items
         /\ Cardinality(Cap(items, key, pinned, limit)) <= limit
<1>1. CASE Cardinality(items) <= limit
  BY <1>1 DEF Cap
<1>2. CASE ~ (Cardinality(items) <= limit)
  <2> DEFINE rest == items \ pinned
             ones == Firsts(pinned, key, {})
             claimed == Fill({}, ones, limit)
             others == Firsts(rest, key, {key[i] : i \in claimed})
             every == Fill(claimed, others, limit)
             more == Fill(every, pinned, limit)
  <2>0. /\ rest \in SUBSET items /\ ones \in SUBSET pinned /\ others \in SUBSET rest
        /\ pinned \in SUBSET Nat /\ rest \in SUBSET Nat
    BY DEF Firsts
  <2>1. IsFiniteSet(pinned) /\ IsFiniteSet(rest) /\ IsFiniteSet(ones) /\ IsFiniteSet(others)
    <3> HIDE DEF rest, ones, others
    <3>1. IsFiniteSet(pinned) /\ IsFiniteSet(rest)
      BY <2>0, FS_Subset
    <3> QED
      BY <2>0, <3>1, FS_Subset
  <2>2. IsFiniteSet({}) /\ Cardinality({}) <= limit
    BY FS_EmptySet
  <2>3. /\ claimed \in SUBSET ones /\ IsFiniteSet(claimed) /\ claimed \in SUBSET Nat
        /\ Cardinality(claimed) <= limit
    <3> HIDE DEF ones
    <3> QED
      BY <2>0, <2>1, <2>2, FillBounded
  <2>4. /\ every \in SUBSET (claimed \cup others) /\ IsFiniteSet(every) /\ every \in SUBSET Nat
        /\ Cardinality(every) <= limit
    <3> HIDE DEF claimed, others
    <3> QED
      BY <2>0, <2>1, <2>3, FillBounded
  <2>5. /\ more \in SUBSET (every \cup pinned) /\ IsFiniteSet(more) /\ more \in SUBSET Nat
        /\ Cardinality(more) <= limit
    <3> HIDE DEF every
    <3> QED
      BY <2>0, <2>1, <2>4, FillBounded
  <2>6. /\ Fill(more, rest, limit) \in SUBSET (more \cup rest)
        /\ Cardinality(Fill(more, rest, limit)) <= limit
    <3> HIDE DEF more, rest
    <3> QED
      BY <2>0, <2>1, <2>5, FillBounded
  <2>7. Cap(items, key, pinned, limit) = Fill(more, rest, limit)
    BY <1>2 DEF Cap
  <2> HIDE DEF more, every, claimed, others, ones, rest
  <2> QED
    BY <2>0, <2>3, <2>4, <2>5, <2>6, <2>7
<1> QED
  BY <1>1, <1>2

\* Where the keys of the pinned items alone are no more than the limit, each of
\* them keeps an item, however much else there is: a crate the ruleset names is
\* not crowded out by an inventory it does not name.
THEOREM CapKeepsPinnedKeys ==
  ASSUME NEW items \in SUBSET Nat, IsFiniteSet(items), NEW pinned \in SUBSET items,
         NEW key, NEW limit \in Nat,
         NEW K, IsFiniteSet(K), \A i \in pinned : key[i] \in K, Cardinality(K) <= limit,
         NEW i \in pinned
  PROVE  \E k \in Cap(items, key, pinned, limit) : key[k] = key[i]
<1>1. CASE Cardinality(items) <= limit
  BY <1>1 DEF Cap
<1>2. CASE ~ (Cardinality(items) <= limit)
  <2> DEFINE rest == items \ pinned
             ones == Firsts(pinned, key, {})
             claimed == Fill({}, ones, limit)
             others == Firsts(rest, key, {key[j] : j \in claimed})
             every == Fill(claimed, others, limit)
             more == Fill(every, pinned, limit)
  <2>0. /\ rest \in SUBSET items /\ ones \in SUBSET pinned /\ others \in SUBSET rest
        /\ pinned \in SUBSET Nat /\ rest \in SUBSET Nat
    BY DEF Firsts
  <2>1. IsFiniteSet(pinned) /\ IsFiniteSet(rest) /\ IsFiniteSet(ones) /\ IsFiniteSet(others)
    <3> HIDE DEF rest, ones, others
    <3>1. IsFiniteSet(pinned) /\ IsFiniteSet(rest)
      BY <2>0, FS_Subset
    <3> QED
      BY <2>0, <3>1, FS_Subset
  <2>2. IsFiniteSet({}) /\ Cardinality({}) = 0
    BY FS_EmptySet
  <2>3. claimed = ones
    <3>1. \A j, k \in ones : key[j] = key[k] => j = k
      <4> HIDE DEF claimed
      <4> QED
        BY <2>0, FirstsDiffer
    <3>2. \A j \in ones : key[j] \in K
      BY <2>0
    <3> HIDE DEF ones
    <3>3. Cardinality(ones) \in Nat /\ Cardinality(K) \in Nat /\ Cardinality(ones) <= Cardinality(K)
      BY <2>0, <3>1, <3>2, OneOfEachKey
    <3>4. ones \ {} = ones
      OBVIOUS
    <3>5. Cardinality({}) + Cardinality(ones \ {}) <= limit
      BY <2>2, <3>3, <3>4
    <3>6. {} \in SUBSET Nat /\ ones \in SUBSET Nat
      BY <2>0
    <3>7. Fill({}, ones, limit) = {} \cup ones
      BY <2>1, <2>2, <3>5, <3>6, FillIsAll
    <3> QED
      BY <3>7
  <2>4. ones \in SUBSET Cap(items, key, pinned, limit)
    <3>1. /\ claimed \in SUBSET Nat /\ IsFiniteSet(claimed) /\ Cardinality(claimed) <= limit
      <4>1. ones \in SUBSET Nat
        BY <2>0
      <4> HIDE DEF ones
      <4> QED
        BY <2>1, <2>2, <4>1, FillBounded
    <3>2. /\ claimed \in SUBSET every /\ every \in SUBSET Nat /\ IsFiniteSet(every)
          /\ Cardinality(every) <= limit
      <4> HIDE DEF claimed, others
      <4>1. others \in SUBSET Nat
        BY <2>0
      <4> QED
        BY <2>1, <3>1, <4>1, FillBounded
    <3>3. /\ every \in SUBSET more /\ more \in SUBSET Nat /\ IsFiniteSet(more)
          /\ Cardinality(more) <= limit
      <4> HIDE DEF every
      <4> QED
        BY <2>0, <2>1, <3>2, FillBounded
    <3>4. more \in SUBSET Fill(more, rest, limit)
      <4> HIDE DEF more, rest
      <4> QED
        BY <2>0, <2>1, <3>3, FillBounded
    <3>5. Cap(items, key, pinned, limit) = Fill(more, rest, limit)
      BY <1>2 DEF Cap
    <3> HIDE DEF more
    <3> QED
      BY <2>3, <3>2, <3>3, <3>4, <3>5
  <2>5. \E k \in ones : key[k] = key[i]
    BY <2>0, FirstsSpeakForAll
  <2> HIDE DEF ones
  <2> QED
    BY <2>4, <2>5
<1> QED
  BY <1>1, <1>2

\* Where the keys are no more than the limit, every key keeps an item: no kind
\* of string, symbol, crate or error crowds another out.
THEOREM CapKeepsEveryKey ==
  ASSUME NEW items \in SUBSET Nat, IsFiniteSet(items), NEW pinned \in SUBSET items,
         NEW key, NEW limit \in Nat,
         NEW K, IsFiniteSet(K), \A i \in items : key[i] \in K, Cardinality(K) <= limit,
         NEW i \in items
  PROVE  \E k \in Cap(items, key, pinned, limit) : key[k] = key[i]
<1>1. CASE Cardinality(items) <= limit
  BY <1>1 DEF Cap
<1>2. CASE ~ (Cardinality(items) <= limit)
  <2> DEFINE rest == items \ pinned
             ones == Firsts(pinned, key, {})
             claimed == Fill({}, ones, limit)
             seen == {key[j] : j \in claimed}
             others == Firsts(rest, key, seen)
             every == Fill(claimed, others, limit)
             more == Fill(every, pinned, limit)
  <2>0. /\ rest \in SUBSET items /\ ones \in SUBSET pinned /\ others \in SUBSET rest
        /\ pinned \in SUBSET Nat /\ rest \in SUBSET Nat /\ items = pinned \cup rest
    BY DEF Firsts
  <2>1. IsFiniteSet(pinned) /\ IsFiniteSet(rest) /\ IsFiniteSet(ones) /\ IsFiniteSet(others)
    <3> HIDE DEF rest, ones, others
    <3>1. IsFiniteSet(pinned) /\ IsFiniteSet(rest)
      BY <2>0, FS_Subset
    <3> QED
      BY <2>0, <3>1, FS_Subset
  <2>2. IsFiniteSet({}) /\ Cardinality({}) = 0
    BY FS_EmptySet
  <2>3. claimed = ones
    <3>1. \A j, k \in ones : key[j] = key[k] => j = k
      <4> HIDE DEF claimed
      <4> QED
        BY <2>0, FirstsDiffer
    <3> HIDE DEF ones
    <3>2. Cardinality(ones) \in Nat /\ Cardinality(K) \in Nat /\ Cardinality(ones) <= Cardinality(K)
      BY <2>0, <3>1, OneOfEachKey
    <3>3. ones \ {} = ones
      OBVIOUS
    <3>4. Cardinality({}) + Cardinality(ones \ {}) <= limit
      BY <2>2, <3>2, <3>3
    <3>5. {} \in SUBSET Nat /\ ones \in SUBSET Nat
      BY <2>0
    <3>6. Fill({}, ones, limit) = {} \cup ones
      BY <2>1, <2>2, <3>4, <3>5, FillIsAll
    <3> QED
      BY <3>6
  <2>4. every = ones \cup others
    <3>1. \A j, k \in ones : key[j] = key[k] => j = k
      <4> HIDE DEF claimed
      <4> QED
        BY <2>0, FirstsDiffer
    <3>2. \A j, k \in others : key[j] = key[k] => j = k
      <4> HIDE DEF seen, rest
      <4> QED
        BY <2>0, FirstsDiffer
    <3>3. \A j \in ones, k \in others : key[j] # key[k]
      <4> HIDE DEF claimed
      <4> QED
        BY <2>3 DEF Firsts
    <3> HIDE DEF ones, others, claimed
    <3>4. ones \cup others \in SUBSET Nat
      BY <2>0
    <3>5. \A j, k \in ones \cup others : key[j] = key[k] => j = k
      BY <3>1, <3>2, <3>3
    <3>6. \A j \in ones \cup others : key[j] \in K
      BY <2>0
    <3>7. /\ Cardinality(ones \cup others) \in Nat /\ Cardinality(K) \in Nat
          /\ Cardinality(ones \cup others) <= Cardinality(K)
      BY <3>4, <3>5, <3>6, OneOfEachKey
    <3>8. Cardinality(ones) \in Nat /\ Cardinality(others \ ones) \in Nat
      BY <2>1, FS_Difference, FS_CardinalityType
    <3>9. Cardinality(ones) + Cardinality(others \ ones) = Cardinality(ones \cup others)
      <4>1. ones \cup others = ones \cup (others \ ones) /\ ones \cap (others \ ones) = {}
        OBVIOUS
      <4>2. IsFiniteSet(others \ ones)
        BY <2>1, FS_Difference
      <4>3. Cardinality(ones \cup (others \ ones))
              = Cardinality(ones) + Cardinality(others \ ones) - Cardinality(ones \cap (others \ ones))
        BY <2>1, <4>2, FS_Union
      <4>4. Cardinality(ones \cap (others \ ones)) = 0
        BY <2>2, <4>1
      <4>5. Cardinality(ones \cup (others \ ones)) = Cardinality(ones \cup others)
        BY <4>1
      <4> QED
        BY <3>8, <4>3, <4>4, <4>5
    <3>10. Cardinality(ones) <= limit /\ Cardinality(ones) + Cardinality(others \ ones) <= limit
      BY <3>7, <3>8, <3>9
    <3>11. ones \in SUBSET Nat /\ others \in SUBSET Nat
      BY <2>0
    <3> QED
      BY <2>1, <2>3, <3>10, <3>11, FillIsAll
  <2>5. every \in SUBSET more /\ more \in SUBSET Cap(items, key, pinned, limit)
    <3>1. /\ claimed \in SUBSET Nat /\ IsFiniteSet(claimed) /\ Cardinality(claimed) <= limit
      <4> HIDE DEF ones
      <4> QED
        BY <2>0, <2>1, <2>2, FillBounded
    <3>2. /\ every \in SUBSET Nat /\ IsFiniteSet(every) /\ Cardinality(every) <= limit
      <4> HIDE DEF claimed, others
      <4>1. others \in SUBSET Nat
        BY <2>0
      <4> QED
        BY <2>1, <3>1, <4>1, FillBounded
    <3>3. /\ every \in SUBSET more /\ more \in SUBSET Nat /\ IsFiniteSet(more)
          /\ Cardinality(more) <= limit
      <4> HIDE DEF every
      <4> QED
        BY <2>0, <2>1, <3>2, FillBounded
    <3>4. more \in SUBSET Fill(more, rest, limit)
      <4> HIDE DEF more, rest
      <4> QED
        BY <2>0, <2>1, <3>3, FillBounded
    <3>5. Cap(items, key, pinned, limit) = Fill(more, rest, limit)
      BY <1>2 DEF Cap
    <3> QED
      BY <3>3, <3>4, <3>5
  <2>6. \E k \in ones \cup others : key[k] = key[i]
    <3>1. CASE i \in pinned
      BY <2>0, <3>1, FirstsSpeakForAll
    <3>2. CASE i \in rest /\ key[i] \in seen
      <4> HIDE DEF ones, claimed, others
      <4> QED
        BY <2>3, <3>2
    <3>3. CASE i \in rest /\ key[i] \notin seen
      <4> HIDE DEF rest, seen
      <4> QED
        BY <2>0, <3>3, FirstsSpeakForAll
    <3> QED
      BY <2>0, <3>1, <3>2, <3>3
  <2> HIDE DEF ones, others, every, more
  <2> QED
    BY <2>4, <2>5, <2>6
<1> QED
  BY <1>1, <1>2

----------------------------------------------------------------------------
(* record._cap_by_findings.                                                *)

\* Where the findings are no more than the limit, every finding keeps an object
\* it refers to: none loses all of its objects to another's paths.
THEOREM FindingsKeepAnObject ==
  ASSUME NEW items \in SUBSET Nat, NEW n \in Nat, NEW max \in Nat, n <= max,
         NEW groups \in [1..n -> (SUBSET items) \ {{}}], NEW g \in 1..n
  PROVE  CapByFindings(items, groups, max) \cap groups[g] # {}
<1> DEFINE lead == [h \in 1..n |-> Least(groups[h])]
           turns == {h \in 1..n : \A k \in 1..n : lead[k] = lead[h] => h <= k}
           first == {lead[h] : h \in Lowest(turns, max)}
           referred == UNION {groups[h] : h \in 1..n}
<1>0. DOMAIN groups = 1..n
  OBVIOUS
<1>1. CASE Cardinality(items) <= max
  <2>1. CapByFindings(items, groups, max) = items
    BY <1>1 DEF CapByFindings
  <2>2. groups[g] \in SUBSET items /\ groups[g] # {}
    OBVIOUS
  <2> QED
    BY <2>1, <2>2
<1>2. CASE ~ (Cardinality(items) <= max)
  <2>1. lead[g] \in groups[g] /\ \E t \in turns : lead[t] = lead[g]
    <3> DEFINE same == {h \in 1..n : lead[h] = lead[g]}
    <3>1. lead[g] \in groups[g]
      <4>1. groups[g] \in SUBSET Nat /\ groups[g] # {}
        OBVIOUS
      <4> QED
        BY <4>1, LeastIsLeast
    <3>2. same \in SUBSET Nat /\ same # {}
      <4> HIDE DEF lead
      <4> QED
        OBVIOUS
    <3>3. Least(same) \in same /\ \A h \in same : Least(same) <= h
      <4> HIDE DEF same
      <4> QED
        BY <3>2, LeastIsLeast
    <3> HIDE DEF lead
    <3>4. Least(same) \in 1..n /\ lead[Least(same)] = lead[g]
      BY <3>3
    <3>5. \A k \in 1..n : lead[k] = lead[Least(same)] => Least(same) <= k
      <4>1. \A k \in 1..n : lead[k] = lead[Least(same)] => k \in same
        BY <3>4
      <4> HIDE DEF same
      <4> QED
        BY <3>3, <4>1
    <3> HIDE DEF same
    <3> QED
      BY <3>1, <3>4, <3>5
  <2>2. Lowest(turns, max) = turns
    <3> HIDE DEF lead
    <3>1. turns \in SUBSET (1..n) /\ turns \in SUBSET Nat
      OBVIOUS
    <3>2. IsFiniteSet(1..n) /\ Cardinality(1..n) = n
      BY FS_Interval
    <3> HIDE DEF turns
    <3>3. IsFiniteSet(turns) /\ Cardinality(turns) \in Nat /\ Cardinality(turns) <= n
      <4>1. IsFiniteSet(turns) /\ Cardinality(turns) <= Cardinality(1..n)
        BY <3>1, <3>2, FS_Subset
      <4> QED
        BY <3>2, <4>1, FS_CardinalityType
    <3>4. Cardinality(turns) <= max
      BY <3>3
    <3> QED
      BY <3>1, <3>3, <3>4, LowestIsAll
  <2>3. lead[g] \in first
    <3> HIDE DEF lead, turns
    <3> QED
      BY <2>1, <2>2
  <2>4. CapByFindings(items, groups, max) = Fill(Fill(first, referred, max), items, max)
    BY <1>0, <1>2 DEF CapByFindings
  <2>5. first \in SUBSET Fill(Fill(first, referred, max), items, max)
    <3> HIDE DEF first, referred
    <3> QED
      BY DEF Fill
  <2> HIDE DEF lead, first, referred
  <2> QED
    BY <2>1, <2>3, <2>4, <2>5
<1> QED
  BY <1>1, <1>2
=============================================================================
