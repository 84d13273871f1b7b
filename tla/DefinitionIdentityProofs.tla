---------------------- MODULE DefinitionIdentityProofs ----------------------
(***************************************************************************)
(* Proofs about DefinitionIdentity.  Sorting keeps how often each item     *)
(* occurs and forgets everything else, so a canonical predicate is its     *)
(* meaning; what Compare finds follows from that and from the agreement of *)
(* every loaded projection with the predicates it is written beside.       *)
(***************************************************************************)
EXTENDS DefinitionIdentity, FiniteSetTheorems, SequenceTheorems,
        WellFoundedInduction, TLAPS

IsOrder(order) == order \in Seq(ToSet(order)) /\ IsInjective(order)

\* An item of an order has one place in it.
LEMMA PlaceIs ==
  ASSUME NEW order, IsOrder(order), NEW item \in ToSet(order)
  PROVE  /\ Place(item, order) \in DOMAIN order
         /\ Place(item, order) \in Nat
         /\ order[Place(item, order)] = item
<1>1. DOMAIN order = 1..Len(order) /\ Len(order) \in Nat
  BY LenProperties DEF IsOrder
<1>2. \E i \in DOMAIN order : order[i] = item
  BY DEF ToSet
<1> QED
  BY <1>1, <1>2 DEF Place

-----------------------------------------------------------------------------
(***************************************************************************)
(* Numbered pairs are in a strict order, so that their ranks are the       *)
(* numbers from one to how many there are.                                 *)
(***************************************************************************)
Precedes(pair, other) == \/ pair[1] < other[1]
                         \/ pair[1] = other[1] /\ pair[2] < other[2]

Rank(seq, order) ==
  [pair \in Numbered(seq, order) |-> Cardinality(UpTo(pair, Numbered(seq, order)))]

LEMMA NumberedIs ==
  ASSUME NEW order, IsOrder(order), NEW seq \in Seq(ToSet(order))
  PROVE  /\ Len(seq) \in Nat /\ DOMAIN seq = 1..Len(seq)
         /\ \A i \in 1..Len(seq) : /\ Place(seq[i], order) \in Nat
                                   /\ <<Place(seq[i], order), i>> \in Numbered(seq, order)
         /\ \A pair \in Numbered(seq, order) :
              /\ pair = <<pair[1], pair[2]>>
              /\ pair[1] \in Nat /\ pair[2] \in 1..Len(seq)
              /\ pair[1] = Place(seq[pair[2]], order)
<1>1. /\ Len(seq) \in Nat /\ DOMAIN seq = 1..Len(seq)
      /\ \A i \in 1..Len(seq) : seq[i] \in ToSet(order)
  BY LenProperties, ElementOfSeq
<1>2. \A i \in 1..Len(seq) : Place(seq[i], order) \in Nat
  BY <1>1, PlaceIs
<1> QED
  BY <1>1, <1>2 DEF Numbered

LEMMA NumberedCount ==
  ASSUME NEW order, IsOrder(order), NEW seq \in Seq(ToSet(order))
  PROVE  /\ IsFiniteSet(Numbered(seq, order))
         /\ Cardinality(Numbered(seq, order)) = Len(seq)
<1> DEFINE pairs == Numbered(seq, order)
           f == [i \in 1..Len(seq) |-> <<Place(seq[i], order), i>>]
<1>1. f \in [1..Len(seq) -> pairs]
  BY NumberedIs
<1>2. f \in Injection(1..Len(seq), pairs)
  BY <1>1 DEF Injection, IsInjective
<1>3. f \in Surjection(1..Len(seq), pairs)
  <2> SUFFICES ASSUME NEW pair \in pairs PROVE \E i \in 1..Len(seq) : f[i] = pair
    BY <1>1 DEF Surjection
  <2>1. pair[2] \in 1..Len(seq) /\ f[pair[2]] = pair
    BY NumberedIs
  <2> QED
    BY <2>1
<1>4. ExistsBijection(1..Len(seq), pairs)
  BY <1>2, <1>3 DEF ExistsBijection, Bijection
<1>5. Len(seq) \in Nat
  BY NumberedIs
<1>6. IsFiniteSet(1..Len(seq))
  BY <1>5, FS_Interval
<1> QED
  BY <1>4, <1>5, <1>6, FS_CountingElements, FS_Bijection

LEMMA RankGrows ==
  ASSUME NEW order, IsOrder(order), NEW seq \in Seq(ToSet(order)),
         NEW pair \in Numbered(seq, order), NEW other \in Numbered(seq, order),
         Precedes(pair, other)
  PROVE  Rank(seq, order)[pair] < Rank(seq, order)[other]
<1> DEFINE pairs == Numbered(seq, order)
           lower == UpTo(pair, pairs)
           upper == UpTo(other, pairs)
<1>1. IsFiniteSet(upper)
  <2>1. upper \in SUBSET pairs
    BY DEF UpTo
  <2> QED
    BY <2>1, NumberedCount, FS_Subset
<1>2. lower \in SUBSET upper /\ other \in upper /\ other \notin lower
  <2>1. /\ \A p \in pairs : p[1] \in Nat /\ p[2] \in Nat
        /\ pair[1] \in Nat /\ pair[2] \in Nat /\ other[1] \in Nat /\ other[2] \in Nat
    BY NumberedIs
  <2> QED
    BY <2>1 DEF UpTo, Precedes
<1>3. /\ IsFiniteSet(lower)
      /\ Cardinality(lower) <= Cardinality(upper)
      /\ Cardinality(lower) # Cardinality(upper)
  BY <1>1, <1>2, FS_Subset
<1>4. Cardinality(lower) \in Nat /\ Cardinality(upper) \in Nat
  BY <1>1, <1>3, FS_CardinalityType
<1>5. Cardinality(lower) < Cardinality(upper)
  BY <1>3, <1>4
<1> QED
  BY <1>5 DEF Rank

LEMMA RankIs ==
  ASSUME NEW order, IsOrder(order), NEW seq \in Seq(ToSet(order))
  PROVE  /\ Rank(seq, order) \in Injection(Numbered(seq, order), 1..Len(seq))
         /\ Rank(seq, order) \in Surjection(Numbered(seq, order), 1..Len(seq))
<1> DEFINE pairs == Numbered(seq, order)
           f == Rank(seq, order)
<1>1. f \in [pairs -> 1..Len(seq)]
  <2> SUFFICES ASSUME NEW pair \in pairs
               PROVE  Cardinality(UpTo(pair, pairs)) \in 1..Len(seq)
    BY DEF Rank
  <2>1. /\ IsFiniteSet(UpTo(pair, pairs))
        /\ Cardinality(UpTo(pair, pairs)) <= Len(seq)
    <3>1. UpTo(pair, pairs) \in SUBSET pairs
      BY DEF UpTo
    <3> QED
      BY <3>1, NumberedCount, FS_Subset
  <2>2. pair \in UpTo(pair, pairs)
    BY NumberedIs DEF UpTo
  <2>3. Cardinality(UpTo(pair, pairs)) \in Nat /\ Cardinality(UpTo(pair, pairs)) # 0
    BY <2>1, <2>2, FS_CardinalityType, FS_EmptySet
  <2> QED
    BY <2>1, <2>3, NumberedIs
<1>2. ASSUME NEW pair \in pairs, NEW other \in pairs, f[pair] = f[other]
      PROVE  pair = other
  <2>1. \/ Precedes(pair, other)
        \/ Precedes(other, pair)
        \/ pair[1] = other[1] /\ pair[2] = other[2]
    <3>1. /\ pair[1] \in Nat /\ pair[2] \in Nat
          /\ other[1] \in Nat /\ other[2] \in Nat
      BY NumberedIs
    <3> QED
      BY <3>1 DEF Precedes
  <2>2. f[pair] \in 1..Len(seq) /\ f[other] \in 1..Len(seq)
    BY <1>1
  <2>3. ~Precedes(pair, other) /\ ~Precedes(other, pair)
    BY <1>2, <2>2, RankGrows
  <2> QED
    BY <2>1, <2>3, NumberedIs
<1>3. f \in Injection(pairs, 1..Len(seq))
  BY <1>1, <1>2 DEF Injection, IsInjective
<1>4. Len(seq) \in Nat /\ IsFiniteSet(1..Len(seq)) /\ Cardinality(1..Len(seq)) = Len(seq)
  <2>1. Len(seq) \in Nat
    BY NumberedIs
  <2> QED
    BY <2>1, FS_Interval
<1>5. f \in Surjection(pairs, 1..Len(seq))
  BY <1>3, <1>4, NumberedCount, FS_Injection
<1> QED
  BY <1>3, <1>5

\* The item of a rank comes from one place, and no item from two ranks.
LEMMA SortedIs ==
  ASSUME NEW order, IsOrder(order), NEW seq \in Seq(ToSet(order))
  PROVE  \E from \in Bijection(1..Len(seq), 1..Len(seq)) :
           /\ Sorted(seq, order) = [k \in 1..Len(seq) |-> seq[from[k]]]
           /\ \A j, k \in 1..Len(seq) :
                j < k => Place(seq[from[j]], order) <= Place(seq[from[k]], order)
<1> DEFINE n == Len(seq)
           pairs == Numbered(seq, order)
           f == Rank(seq, order)
           At(k) == CHOOSE pair \in pairs : Cardinality(UpTo(pair, pairs)) = k
           from == [k \in 1..n |-> At(k)[2]]
<1>1. n \in Nat /\ DOMAIN seq = 1..n
  BY NumberedIs
<1>2. \A k \in 1..n : At(k) \in pairs /\ f[At(k)] = k
  <2> SUFFICES ASSUME NEW k \in 1..n PROVE At(k) \in pairs /\ f[At(k)] = k
    OBVIOUS
  <2>1. \E pair \in pairs : f[pair] = k
    BY RankIs DEF Surjection
  <2>2. \E pair \in pairs : Cardinality(UpTo(pair, pairs)) = k
    BY <2>1 DEF Rank
  <2>3. At(k) \in pairs /\ Cardinality(UpTo(At(k), pairs)) = k
    BY <2>2
  <2> QED
    BY <2>3 DEF Rank
<1>3. Sorted(seq, order) = [k \in 1..n |-> seq[from[k]]]
  BY <1>1 DEF Sorted
<1> HIDE DEF At
<1>4. from \in [1..n -> 1..n]
  <2>1. \A k \in 1..n : At(k)[2] \in 1..n
    BY <1>2, NumberedIs
  <2> QED
    BY <2>1
<1>5. \A k \in 1..n : At(k) = <<Place(seq[from[k]], order), from[k]>>
  <2> SUFFICES ASSUME NEW k \in 1..n
               PROVE  At(k) = <<Place(seq[from[k]], order), from[k]>>
    OBVIOUS
  <2>1. At(k) = <<At(k)[1], At(k)[2]>> /\ At(k)[1] = Place(seq[At(k)[2]], order)
    BY <1>2, NumberedIs
  <2> QED
    BY <2>1
<1> HIDE DEF from
<1>6. ASSUME NEW j \in 1..n, NEW k \in 1..n, from[j] = from[k] PROVE j = k
  <2>1. At(j) = At(k)
    BY <1>5, <1>6
  <2> QED
    BY <1>2, <2>1
<1>7. ASSUME NEW i \in 1..n PROVE \E k \in 1..n : from[k] = i
  <2> DEFINE pair == <<Place(seq[i], order), i>>
  <2>1. pair \in pairs
    BY NumberedIs
  <2>2. f[pair] \in 1..n
    BY <2>1, RankIs DEF Surjection
  <2>3. At(f[pair]) \in pairs /\ f[At(f[pair])] = f[pair]
    BY <1>2, <2>2
  <2>4. At(f[pair]) = pair
    BY <2>1, <2>3, RankIs DEF Injection, IsInjective
  <2>5. from[f[pair]] = i
    BY <2>2, <2>4, <1>5
  <2> QED
    BY <2>2, <2>5
<1>8. from \in Bijection(1..n, 1..n)
  BY <1>4, <1>6, <1>7 DEF Bijection, Injection, Surjection, IsInjective
<1>9. ASSUME NEW j \in 1..n, NEW k \in 1..n, j < k
      PROVE  Place(seq[from[j]], order) <= Place(seq[from[k]], order)
  <2>1. /\ Place(seq[from[j]], order) \in Nat
        /\ Place(seq[from[k]], order) \in Nat
    BY <1>4, NumberedIs
  <2> SUFFICES ASSUME Place(seq[from[k]], order) < Place(seq[from[j]], order) PROVE FALSE
    BY <2>1
  <2>2. Precedes(At(k), At(j))
    BY <1>5 DEF Precedes
  <2>3. k < j
    BY <1>2, <2>2, RankGrows
  <2> QED
    BY <1>1, <1>9, <2>3
<1> QED
  BY <1>3, <1>8, <1>9

-----------------------------------------------------------------------------
(***************************************************************************)
(* How often an item occurs.  Sequences with the same items, each as often *)
(* as in the other, are sorted into the same sequence.                     *)
(***************************************************************************)
Occurrences(seq, item) == {i \in DOMAIN seq : seq[i] = item}

SameItems(seq, other) ==
  \A item : Cardinality(Occurrences(seq, item)) = Cardinality(Occurrences(other, item))

LEMMA OccurrencesFinite ==
  ASSUME NEW S, NEW seq \in Seq(S), NEW item
  PROVE  /\ IsFiniteSet(Occurrences(seq, item))
         /\ Cardinality(Occurrences(seq, item)) \in Nat
         /\ (Cardinality(Occurrences(seq, item)) = 0) <=> (item \notin ToSet(seq))
<1>1. Len(seq) \in Nat /\ DOMAIN seq = 1..Len(seq)
  BY LenProperties
<1>2. IsFiniteSet(1..Len(seq))
  BY <1>1, FS_Interval
<1>3. Occurrences(seq, item) \in SUBSET (1..Len(seq))
  BY <1>1 DEF Occurrences
<1>4. IsFiniteSet(Occurrences(seq, item))
  BY <1>2, <1>3, FS_Subset
<1>5. (Occurrences(seq, item) = {}) <=> (item \notin ToSet(seq))
  BY DEF Occurrences, ToSet
<1> QED
  BY <1>4, <1>5, FS_CardinalityType, FS_EmptySet

\* Reading a sequence in another order keeps the occurrences.
LEMMA RearrangedItems ==
  ASSUME NEW S, NEW seq \in Seq(S), NEW other \in Seq(S),
         NEW from \in Bijection(1..Len(seq), 1..Len(seq)),
         other = [k \in 1..Len(seq) |-> seq[from[k]]]
  PROVE  SameItems(seq, other)
<1> SUFFICES ASSUME NEW item
             PROVE  Cardinality(Occurrences(seq, item)) = Cardinality(Occurrences(other, item))
  BY DEF SameItems
<1> DEFINE f == [k \in Occurrences(other, item) |-> from[k]]
<1>1. Len(seq) \in Nat /\ DOMAIN seq = 1..Len(seq)
  BY LenProperties
<1>2. /\ from \in [1..Len(seq) -> 1..Len(seq)]
      /\ \A j, k \in 1..Len(seq) : from[j] = from[k] => j = k
      /\ \A i \in 1..Len(seq) : \E k \in 1..Len(seq) : from[k] = i
  BY DEF Bijection, Injection, Surjection, IsInjective
<1>3. f \in Injection(Occurrences(other, item), Occurrences(seq, item))
  BY <1>1, <1>2 DEF Occurrences, Injection, IsInjective
<1>4. f \in Surjection(Occurrences(other, item), Occurrences(seq, item))
  <2>1. f \in [Occurrences(other, item) -> Occurrences(seq, item)]
    BY <1>3 DEF Injection
  <2>2. ASSUME NEW i \in Occurrences(seq, item)
        PROVE  \E k \in Occurrences(other, item) : f[k] = i
    BY <1>1, <1>2, <2>2 DEF Occurrences
  <2> QED
    BY <2>1, <2>2 DEF Surjection
<1>5. ExistsBijection(Occurrences(other, item), Occurrences(seq, item))
  BY <1>3, <1>4 DEF ExistsBijection, Bijection
<1> QED
  BY <1>5, OccurrencesFinite, FS_Bijection

\* The items of seq come in the order of order.
InOrder(seq, order) ==
  \A j, k \in DOMAIN seq : j < k => Place(seq[j], order) <= Place(seq[k], order)

LEMMA SortedKeeps ==
  ASSUME NEW order, IsOrder(order), NEW seq \in Seq(ToSet(order))
  PROVE  /\ Sorted(seq, order) \in Seq(ToSet(order))
         /\ Len(Sorted(seq, order)) = Len(seq)
         /\ InOrder(Sorted(seq, order), order)
         /\ SameItems(seq, Sorted(seq, order))
<1> DEFINE sorted == Sorted(seq, order)
<1>1. PICK from \in Bijection(1..Len(seq), 1..Len(seq)) :
        /\ sorted = [k \in 1..Len(seq) |-> seq[from[k]]]
        /\ \A j, k \in 1..Len(seq) :
             j < k => Place(seq[from[j]], order) <= Place(seq[from[k]], order)
  BY SortedIs
<1>2. Len(seq) \in Nat /\ DOMAIN seq = 1..Len(seq)
  BY LenProperties
<1>3. \A k \in 1..Len(seq) : seq[from[k]] \in ToSet(order)
  <2>1. \A k \in 1..Len(seq) : from[k] \in 1..Len(seq)
    BY DEF Bijection, Injection
  <2> QED
    BY <2>1, ElementOfSeq
<1> HIDE DEF sorted
<1>4. sorted \in Seq(ToSet(order)) /\ Len(sorted) = Len(seq) /\ DOMAIN sorted = 1..Len(seq)
  BY <1>1, <1>2, <1>3
<1>5. InOrder(sorted, order)
  BY <1>1, <1>4 DEF InOrder
<1>6. SameItems(seq, sorted)
  BY <1>1, <1>4, RearrangedItems
<1> QED
  BY <1>4, <1>5, <1>6 DEF sorted

\* The least of a set of naturals.
LEMMA LeastPlace ==
  ASSUME NEW T, T \subseteq Nat, T # {}
  PROVE  \E x \in T : \A y \in T : x <= y
<1>1. PICK x \in T : \A y \in T : ~(<<y, x>> \in OpToRel(<, Nat))
  BY NatLessThanWellFounded, WFMin
<1>2. ASSUME NEW y \in T PROVE x <= y
  <2>1. ~(y < x)
    BY <1>1 DEF OpToRel
  <2> QED
    BY <2>1
<1> QED
  BY <1>2

\* Two sequences in order agree up to place k.  With the same items, what the
\* first has at k the other has there too or later, so the other has something
\* at k and it comes no later in the order.
LEMMA InOrderPrefix ==
  ASSUME NEW order, IsOrder(order),
         NEW seq \in Seq(ToSet(order)), NEW other \in Seq(ToSet(order)),
         InOrder(seq, order), InOrder(other, order), SameItems(seq, other),
         NEW k \in DOMAIN seq,
         \A i \in 1..(k - 1) : i \in DOMAIN other /\ seq[i] = other[i]
  PROVE  k \in DOMAIN other /\ Place(other[k], order) <= Place(seq[k], order)
<1> DEFINE mine == Occurrences(seq, seq[k])
           its == Occurrences(other, seq[k])
<1>1. /\ Len(seq) \in Nat /\ DOMAIN seq = 1..Len(seq)
      /\ Len(other) \in Nat /\ DOMAIN other = 1..Len(other)
  BY LenProperties
<1>2. \A i \in DOMAIN other : Place(other[i], order) \in Nat
  BY <1>1, ElementOfSeq, PlaceIs
<1>3. PICK i \in its : i >= k
  <2> SUFFICES ASSUME \A i \in its : ~(i >= k) PROVE FALSE
    OBVIOUS
  <2>1. its \in SUBSET mine
    BY <1>1 DEF Occurrences
  <2>2. k \in mine /\ k \notin its
    BY <1>1 DEF Occurrences
  <2>3. Cardinality(mine) # Cardinality(its)
    <3>1. IsFiniteSet(mine)
      BY OccurrencesFinite
    <3> QED
      BY <2>1, <2>2, <3>1, FS_Subset
  <2> QED
    BY <2>3 DEF SameItems
<1>4. i \in DOMAIN other /\ other[i] = seq[k] /\ k \in DOMAIN other
  BY <1>1, <1>3 DEF Occurrences
<1>5. k = i \/ k < i
  BY <1>1, <1>3, <1>4
<1> QED
  BY <1>2, <1>4, <1>5 DEF InOrder

LEMMA SameInterval ==
  ASSUME NEW m \in Nat, NEW n \in Nat, 1..m = 1..n
  PROVE  m = n
<1>1. \A k \in Nat : 1 <= k /\ k <= m <=> 1 <= k /\ k <= n
  <2>1. \A k \in Nat : k \in 1..m <=> k \in 1..n
    OBVIOUS
  <2> QED
    BY <2>1
<1> QED
  BY <1>1

\* So a sequence in order is determined by its items.
LEMMA InOrderUnique ==
  ASSUME NEW order, IsOrder(order),
         NEW seq \in Seq(ToSet(order)), NEW other \in Seq(ToSet(order)),
         InOrder(seq, order), InOrder(other, order), SameItems(seq, other)
  PROVE  seq = other
<1>1. /\ Len(seq) \in Nat /\ DOMAIN seq = 1..Len(seq)
      /\ Len(other) \in Nat /\ DOMAIN other = 1..Len(other)
      /\ \A i \in DOMAIN seq : seq[i] \in ToSet(order)
      /\ \A i \in DOMAIN other : other[i] \in ToSet(order)
  BY LenProperties, ElementOfSeq
<1> DEFINE Same(i) == i \in DOMAIN seq /\ i \in DOMAIN other /\ seq[i] = other[i]
           Differ == {i \in DOMAIN seq \cup DOMAIN other : ~Same(i)}
<1>2. Differ = {}
  <2> SUFFICES ASSUME Differ # {} PROVE FALSE
    OBVIOUS
  <2>1. PICK k \in Differ : \A i \in Differ : k <= i
    <3>1. Differ \subseteq Nat
      BY <1>1
    <3> HIDE DEF Differ
    <3> QED
      BY <3>1, LeastPlace
  <2>2. \A i \in 1..(k - 1) : Same(i)
    <3> SUFFICES ASSUME NEW i \in 1..(k - 1), ~Same(i) PROVE FALSE
      OBVIOUS
    <3>1. i < k /\ i \in DOMAIN seq \cup DOMAIN other
      BY <1>1, <2>1
    <3> QED
      BY <1>1, <2>1, <3>1
  <2>3. SameItems(other, seq)
    BY DEF SameItems
  <2>4. k \in DOMAIN seq =>
          k \in DOMAIN other /\ Place(other[k], order) <= Place(seq[k], order)
    BY <2>2, InOrderPrefix
  <2>5. k \in DOMAIN other =>
          k \in DOMAIN seq /\ Place(seq[k], order) <= Place(other[k], order)
    BY <2>2, <2>3, InOrderPrefix
  <2>6. k \in DOMAIN seq /\ k \in DOMAIN other /\ Place(seq[k], order) = Place(other[k], order)
    BY <1>1, <2>1, <2>4, <2>5, PlaceIs
  <2>7. seq[k] = other[k]
    BY <1>1, <2>6, PlaceIs
  <2> QED
    BY <2>1, <2>6, <2>7
<1>3. DOMAIN seq = DOMAIN other /\ \A i \in DOMAIN seq : seq[i] = other[i]
  BY <1>2
<1>4. Len(seq) = Len(other)
  <2>1. 1..Len(seq) = 1..Len(other)
    BY <1>1, <1>3, Zenon
  <2> QED
    BY <1>1, <2>1, SameInterval
<1> QED
  BY <1>1, <1>3, <1>4, SeqEqual

LEMMA SameItemsTransitive ==
  ASSUME NEW seq, NEW other, NEW third, SameItems(seq, other), SameItems(other, third)
  PROVE  SameItems(seq, third)
BY DEF SameItems

\* Sorted forgets the order of the items and nothing else.
LEMMA SortedAgree ==
  ASSUME NEW order, IsOrder(order),
         NEW seq \in Seq(ToSet(order)), NEW other \in Seq(ToSet(order))
  PROVE  Sorted(seq, order) = Sorted(other, order) <=> SameItems(seq, other)
<1> DEFINE a == Sorted(seq, order)
           b == Sorted(other, order)
<1>1. /\ a \in Seq(ToSet(order)) /\ InOrder(a, order) /\ SameItems(seq, a)
      /\ b \in Seq(ToSet(order)) /\ InOrder(b, order) /\ SameItems(other, b)
  BY SortedKeeps
<1> HIDE DEF a, b
<1>2. SameItems(a, seq) /\ SameItems(b, other)
  BY <1>1 DEF SameItems
<1>3. ASSUME a = b PROVE SameItems(seq, other)
  BY <1>1, <1>2, <1>3, SameItemsTransitive
<1>4. ASSUME SameItems(seq, other) PROVE a = b
  <2>1. SameItems(a, b)
    BY <1>1, <1>2, <1>4, SameItemsTransitive
  <2> QED
    BY <1>1, <2>1, InOrderUnique
<1> QED
  BY <1>3, <1>4 DEF a, b

-----------------------------------------------------------------------------
(***************************************************************************)
(* The canonical form of a predicate is its meaning.                       *)
(***************************************************************************)
LEMMA BagsAgree ==
  ASSUME NEW S, NEW seq \in Seq(S), NEW other \in Seq(S)
  PROVE  ToBag(seq) = ToBag(other) <=> SameItems(seq, other)
<1>1. /\ ToBag(seq) = [x \in ToSet(seq) |-> Cardinality(Occurrences(seq, x))]
      /\ ToBag(other) = [x \in ToSet(other) |-> Cardinality(Occurrences(other, x))]
  BY DEF ToBag, Occurrences, Range, ToSet
<1>2. ASSUME ToBag(seq) = ToBag(other), NEW item
      PROVE  Cardinality(Occurrences(seq, item)) = Cardinality(Occurrences(other, item))
  <2>1. ToSet(seq) = ToSet(other)
    BY <1>1, <1>2
  <2>2. CASE item \in ToSet(seq)
    BY <1>1, <1>2, <2>1, <2>2
  <2>3. CASE item \notin ToSet(seq)
    BY <2>1, <2>3, OccurrencesFinite
  <2> QED
    BY <2>2, <2>3
<1>3. ASSUME SameItems(seq, other) PROVE ToBag(seq) = ToBag(other)
  <2>1. ToSet(seq) = ToSet(other)
    <3>1. \A item : item \notin ToSet(seq) <=> item \notin ToSet(other)
      BY <1>3, OccurrencesFinite DEF SameItems
    <3> QED
      BY <3>1
  <2> QED
    BY <1>1, <1>3, <2>1 DEF SameItems
<1> QED
  BY <1>2, <1>3 DEF SameItems

\* A clause said in words: the kind and how often each class is excluded.
Words(clause) == <<clause.kind, ToBag(clause.values)>>

AllWords(predicate) ==
  [i \in DOMAIN predicate.members |-> Words(predicate.members[i])]

LEMMA OrdersOrder == IsOrder(ClassOrder) /\ IsOrder(ClauseOrder)
BY OrdersAreLists DEF IsOrder

LEMMA ClauseIsWords ==
  ASSUME NEW clause, NEW other, IsClause(clause), IsClause(other)
  PROVE  /\ CanonicalClause(clause).kind = clause.kind
         /\ CanonicalClause(clause) = CanonicalClause(other) <=> Words(clause) = Words(other)
<1>1. /\ clause = [kind |-> clause.kind, values |-> clause.values]
      /\ other = [kind |-> other.kind, values |-> other.values]
      /\ clause.values \in Seq(ToSet(ClassOrder))
      /\ other.values \in Seq(ToSet(ClassOrder))
  BY DEF IsClause
<1>2. /\ CanonicalClause(clause) =
           [kind |-> clause.kind, values |-> Sorted(clause.values, ClassOrder)]
      /\ CanonicalClause(other) =
           [kind |-> other.kind, values |-> Sorted(other.values, ClassOrder)]
  BY <1>1 DEF CanonicalClause
<1>3. Sorted(clause.values, ClassOrder) = Sorted(other.values, ClassOrder)
        <=> ToBag(clause.values) = ToBag(other.values)
  BY <1>1, OrdersOrder, SortedAgree, BagsAgree
<1> QED
  BY <1>2, <1>3 DEF Words

\* What is the same in two sequences decides whether they have the same items.
LEMMA Relabelled ==
  ASSUME NEW a, NEW b, NEW c, NEW d,
         DOMAIN a = DOMAIN c, DOMAIN b = DOMAIN d,
         \A i, j \in DOMAIN a : a[i] = a[j] <=> c[i] = c[j],
         \A i, j \in DOMAIN b : b[i] = b[j] <=> d[i] = d[j],
         \A i \in DOMAIN a, j \in DOMAIN b : a[i] = b[j] <=> c[i] = d[j],
         SameItems(a, b)
  PROVE  SameItems(c, d)
<1> SUFFICES ASSUME NEW item
             PROVE  Cardinality(Occurrences(c, item)) = Cardinality(Occurrences(d, item))
  BY DEF SameItems
<1>1. CASE \E i \in DOMAIN c : c[i] = item
  <2>1. PICK i \in DOMAIN c : c[i] = item
    BY <1>1
  <2>2. /\ Occurrences(c, item) = Occurrences(a, a[i])
        /\ Occurrences(d, item) = Occurrences(b, a[i])
    BY <2>1 DEF Occurrences
  <2> QED
    BY <2>2 DEF SameItems
<1>2. CASE \E j \in DOMAIN d : d[j] = item
  <2>1. PICK j \in DOMAIN d : d[j] = item
    BY <1>2
  <2>2. /\ Occurrences(c, item) = Occurrences(a, b[j])
        /\ Occurrences(d, item) = Occurrences(b, b[j])
    BY <2>1 DEF Occurrences
  <2> QED
    BY <2>2 DEF SameItems
<1>3. CASE ~(\E i \in DOMAIN c : c[i] = item) /\ ~(\E j \in DOMAIN d : d[j] = item)
  <2>1. Occurrences(c, item) = {} /\ Occurrences(d, item) = {}
    BY <1>3 DEF Occurrences
  <2> QED
    BY <2>1
<1> QED
  BY <1>1, <1>2, <1>3

LEMMA PredicateIs ==
  ASSUME NEW predicate, IsPredicate(predicate)
  PROVE  /\ Len(predicate.members) \in Nat
         /\ DOMAIN predicate.members = 1..Len(predicate.members)
         /\ CanonicalMembers(predicate) \in Seq(ToSet(ClauseOrder))
         /\ AllWords(predicate) \in Seq(ToSet(AllWords(predicate)))
         /\ CanonicalPredicate(predicate) =
              [ compound |-> predicate.compound,
                members |-> Sorted(CanonicalMembers(predicate), ClauseOrder) ]
<1>1. /\ Len(predicate.members) \in Nat
      /\ DOMAIN predicate.members = 1..Len(predicate.members)
  BY LenProperties DEF IsPredicate
<1>2. \A i \in 1..Len(predicate.members) :
        CanonicalClause(predicate.members[i]) \in ToSet(ClauseOrder)
  BY <1>1 DEF IsPredicate, IsClause
<1>3. CanonicalMembers(predicate) \in Seq(ToSet(ClauseOrder))
  BY <1>1, <1>2 DEF CanonicalMembers
<1>4. AllWords(predicate) \in Seq(ToSet(AllWords(predicate)))
  BY <1>1 DEF AllWords, ToSet
<1>5. predicate = [compound |-> predicate.compound, members |-> predicate.members]
  BY DEF IsPredicate
<1>6. CanonicalPredicate(predicate) =
        [ compound |-> predicate.compound,
          members |-> Sorted(CanonicalMembers(predicate), ClauseOrder) ]
  BY <1>5 DEF CanonicalPredicate
<1> QED
  BY <1>1, <1>3, <1>4, <1>6

\* Two predicates have one canonical form exactly if they say the same.
LEMMA CanonicalIsMeaning ==
  ASSUME NEW predicate, NEW other, IsPredicate(predicate), IsPredicate(other)
  PROVE  CanonicalPredicate(predicate) = CanonicalPredicate(other)
           <=> Meaning(predicate) = Meaning(other)
<1> DEFINE a == CanonicalMembers(predicate)
           b == CanonicalMembers(other)
           c == AllWords(predicate)
           d == AllWords(other)
<1>1. CanonicalPredicate(predicate) = CanonicalPredicate(other)
        <=> predicate.compound = other.compound /\ SameItems(a, b)
  <2>1. Sorted(a, ClauseOrder) = Sorted(b, ClauseOrder) <=> SameItems(a, b)
    BY PredicateIs, OrdersOrder, SortedAgree
  <2>2. /\ CanonicalPredicate(predicate) =
             [compound |-> predicate.compound, members |-> Sorted(a, ClauseOrder)]
        /\ CanonicalPredicate(other) =
             [compound |-> other.compound, members |-> Sorted(b, ClauseOrder)]
    BY PredicateIs
  <2> HIDE DEF a, b
  <2>3. CanonicalPredicate(predicate) = CanonicalPredicate(other)
          <=> /\ predicate.compound = other.compound
              /\ Sorted(a, ClauseOrder) = Sorted(b, ClauseOrder)
    BY <2>2
  <2> QED
    BY <2>1, <2>3
<1>2. Meaning(predicate) = Meaning(other)
        <=> predicate.compound = other.compound /\ SameItems(c, d)
  <2>1. /\ Meaning(predicate) = <<predicate.compound, ToBag(c)>>
        /\ Meaning(other) = <<other.compound, ToBag(d)>>
    BY DEF Meaning, AllWords, Words
  <2>2. ToBag(c) = ToBag(d) <=> SameItems(c, d)
    <3> DEFINE S == ToSet(c) \cup ToSet(d)
    <3>1. c \in Seq(S) /\ d \in Seq(S)
      BY PredicateIs, SeqMonotonic
    <3> QED
      BY <3>1, BagsAgree
  <2> QED
    BY <2>1, <2>2
<1>3. /\ DOMAIN a = DOMAIN c /\ DOMAIN b = DOMAIN d
      /\ \A i \in DOMAIN a : a[i] = CanonicalClause(predicate.members[i])
      /\ \A i \in DOMAIN a : c[i] = Words(predicate.members[i])
      /\ \A i \in DOMAIN a : IsClause(predicate.members[i])
      /\ \A i \in DOMAIN b : b[i] = CanonicalClause(other.members[i])
      /\ \A i \in DOMAIN b : d[i] = Words(other.members[i])
      /\ \A i \in DOMAIN b : IsClause(other.members[i])
  BY DEF CanonicalMembers, AllWords, IsPredicate
<1> HIDE DEF a, b, c, d
<1>4. /\ \A i, j \in DOMAIN a : a[i] = a[j] <=> c[i] = c[j]
      /\ \A i, j \in DOMAIN b : b[i] = b[j] <=> d[i] = d[j]
      /\ \A i \in DOMAIN a, j \in DOMAIN b : a[i] = b[j] <=> c[i] = d[j]
  BY <1>3, ClauseIsWords
<1>5. SameItems(a, b) <=> SameItems(c, d)
  BY <1>3, <1>4, Relabelled
<1> QED
  BY <1>1, <1>2, <1>5

\* What a predicate depends on is part of what it says.
LEMMA KindsAreCanonical ==
  ASSUME NEW predicate, NEW other, IsPredicate(predicate), IsPredicate(other),
         CanonicalPredicate(predicate) = CanonicalPredicate(other)
  PROVE  KindsOf(predicate) = KindsOf(other)
<1> DEFINE a == CanonicalMembers(predicate)
           b == CanonicalMembers(other)
<1>1. SameItems(a, b)
  <2>1. Sorted(a, ClauseOrder) = Sorted(b, ClauseOrder)
    BY PredicateIs
  <2> QED
    BY <2>1, PredicateIs, OrdersOrder, SortedAgree
<1>2. ToSet(a) = ToSet(b)
  <2>1. a \in Seq(ToSet(ClauseOrder)) /\ b \in Seq(ToSet(ClauseOrder))
    BY PredicateIs
  <2>2. \A item : item \notin ToSet(a) <=> item \notin ToSet(b)
    BY <1>1, <2>1, OccurrencesFinite DEF SameItems
  <2> QED
    BY <2>2
<1>3. /\ KindsOf(predicate) = {clause.kind : clause \in ToSet(a)}
      /\ KindsOf(other) = {clause.kind : clause \in ToSet(b)}
  <2>1. ASSUME NEW p, IsPredicate(p)
        PROVE  KindsOf(p) = {clause.kind : clause \in ToSet(CanonicalMembers(p))}
    <3>1. \A i \in DOMAIN p.members :
            /\ CanonicalMembers(p)[i] = CanonicalClause(p.members[i])
            /\ CanonicalClause(p.members[i]).kind = p.members[i].kind
      BY <2>1, ClauseIsWords DEF CanonicalMembers, IsPredicate
    <3>2. DOMAIN CanonicalMembers(p) = DOMAIN p.members
      BY DEF CanonicalMembers
    <3> QED
      BY <3>1, <3>2 DEF KindsOf, ToSet
  <2> QED
    BY <2>1
<1> QED
  BY <1>2, <1>3

-----------------------------------------------------------------------------
(***************************************************************************)
(* Edits leave well-formed files.                                          *)
(***************************************************************************)
LEMMA FileFields ==
  ASSUME NEW file, IsFile(file), NEW field, NEW value,
         field \in Predicates => IsPredicate(value)
  PROVE  IsFile([file EXCEPT ![field] = value])
<1> DEFINE fields == Predicates \cup Metadata \cup {"projection"}
           edited == [file EXCEPT ![field] = value]
<1>1. /\ DOMAIN file = fields /\ file = [f \in fields |-> file[f]]
      /\ \A key \in Predicates : IsPredicate(file[key])
  BY DEF IsFile
<1>2. DOMAIN edited = fields /\ edited = [f \in fields |-> edited[f]]
  BY <1>1
<1>3. \A key \in Predicates : IsPredicate(edited[key])
  <2> SUFFICES ASSUME NEW key \in Predicates PROVE IsPredicate(edited[key])
    OBVIOUS
  <2>1. key \in fields
    OBVIOUS
  <2>2. edited[key] = IF key = field THEN value ELSE file[key]
    BY <1>1, <2>1
  <2> QED
    BY <1>1, <2>2
<1> QED
  BY <1>2, <1>3 DEF IsFile

LEMMA PredicateMembers ==
  ASSUME NEW predicate, IsPredicate(predicate), NEW members,
         members \in Seq(ToSet(members)),
         \A i \in DOMAIN members : IsClause(members[i])
  PROVE  IsPredicate([predicate EXCEPT !.members = members])
<1>1. [predicate EXCEPT !.members = members] =
        [compound |-> predicate.compound, members |-> members]
  <2>1. predicate = [compound |-> predicate.compound, members |-> predicate.members]
    BY DEF IsPredicate
  <2> QED
    BY <2>1
<1> QED
  BY <1>1 DEF IsPredicate

\* A file with other members in one predicate.
LEMMA FileMembers ==
  ASSUME NEW file, IsFile(file), NEW key \in Predicates, NEW members,
         members \in Seq(ToSet(members)),
         \A i \in DOMAIN members : IsClause(members[i])
  PROVE  IsFile([file EXCEPT ![key].members = members])
<1>1. IsPredicate([file[key] EXCEPT !.members = members])
  BY PredicateMembers DEF IsFile
<1>2. [file EXCEPT ![key].members = members] =
        [file EXCEPT ![key] = [file[key] EXCEPT !.members = members]]
  OBVIOUS
<1> QED
  BY <1>1, <1>2, FileFields

\* Members picked from well-formed clauses are well formed.
LEMMA MembersPicked ==
  ASSUME NEW S, NEW members \in Seq(S), \A clause \in S : IsClause(clause)
  PROVE  /\ members \in Seq(ToSet(members))
         /\ \A i \in DOMAIN members : IsClause(members[i])
<1>1. Len(members) \in Nat /\ DOMAIN members = 1..Len(members)
  BY LenProperties
<1>2. \A i \in DOMAIN members : members[i] \in S /\ members[i] \in ToSet(members)
  BY <1>1, ElementOfSeq DEF ToSet
<1> QED
  BY <1>1, <1>2

LEMMA MembersOf ==
  ASSUME NEW file, IsFile(file), NEW key \in Predicates
  PROVE  LET members == file[key].members
             S == ToSet(members) \cup ToSet(ClauseOrder)
         IN  /\ members \in Seq(S)
             /\ \A clause \in S : IsClause(clause)
             /\ Len(members) \in Nat /\ DOMAIN members = 1..Len(members)
             /\ \A i \in DOMAIN members : IsClause(members[i]) /\ members[i] \in S
<1> DEFINE members == file[key].members
<1>1. members \in Seq(ToSet(members)) /\ \A i \in DOMAIN members : IsClause(members[i])
  BY DEF IsFile, IsPredicate
<1>2. members \in Seq(ToSet(members) \cup ToSet(ClauseOrder))
  BY <1>1, SeqMonotonic
<1>3. \A clause \in ToSet(members) \cup ToSet(ClauseOrder) : IsClause(clause)
  BY <1>1, ClausesRegistered DEF ToSet
<1>4. Len(members) \in Nat /\ DOMAIN members = 1..Len(members)
  BY <1>1, LenProperties
<1>5. \A i \in DOMAIN members : members[i] \in ToSet(members)
  BY DEF ToSet
<1> QED
  BY <1>1, <1>2, <1>3, <1>4, <1>5

\* Turning the classes of a clause round leaves its canonical form.
LEMMA ReversedClause ==
  ASSUME NEW clause, IsClause(clause)
  PROVE  IsClause([clause EXCEPT !.values = Reverse(@)])
<1> DEFINE seq == clause.values
           n == Len(seq)
           other == Reverse(seq)
           from == [k \in 1..n |-> n - k + 1]
<1>1. /\ clause = [kind |-> clause.kind, values |-> seq]
      /\ clause.kind \in ClauseKinds
      /\ seq \in Seq(ToSet(ClassOrder))
      /\ CanonicalClause(clause) \in ToSet(ClauseOrder)
  BY DEF IsClause
<1>2. n \in Nat /\ DOMAIN seq = 1..n /\ \A i \in 1..n : seq[i] \in ToSet(ClassOrder)
  BY <1>1, LenProperties, ElementOfSeq
<1>3. /\ from \in [1..n -> 1..n]
      /\ \A j, k \in 1..n : from[j] = from[k] => j = k
      /\ \A i \in 1..n : n - i + 1 \in 1..n /\ from[n - i + 1] = i
  BY <1>2
<1>4. from \in Bijection(1..n, 1..n)
  <2>1. \A i \in 1..n : \E k \in 1..n : from[k] = i
    BY <1>3
  <2> HIDE DEF from
  <2> QED
    BY <1>3, <2>1 DEF Bijection, Injection, Surjection, IsInjective
<1>5. other = [k \in 1..n |-> seq[from[k]]]
  BY DEF Reverse
<1>6. other \in Seq(ToSet(ClassOrder))
  <2>1. \A k \in 1..n : seq[from[k]] \in ToSet(ClassOrder)
    BY <1>2, <1>3
  <2> HIDE DEF from
  <2> QED
    BY <1>2, <1>5, <2>1
<1>7. SameItems(seq, other)
  BY <1>1, <1>4, <1>5, <1>6, RearrangedItems
<1>8. Sorted(other, ClassOrder) = Sorted(seq, ClassOrder)
  BY <1>1, <1>6, <1>7, OrdersOrder, SortedAgree
<1> HIDE DEF seq, other
<1>9. [clause EXCEPT !.values = Reverse(@)] = [kind |-> clause.kind, values |-> other]
  BY <1>1 DEF seq, other
<1>10. CanonicalClause([kind |-> clause.kind, values |-> other]) = CanonicalClause(clause)
  BY <1>1, <1>8 DEF CanonicalClause
<1> QED
  BY <1>1, <1>6, <1>9, <1>10 DEF IsClause

-----------------------------------------------------------------------------
(***************************************************************************)
(* The inductive invariant.  The files stay well formed, what was loaded   *)
(* carries the projection of its predicates, and what the comparison found *)
(* is what comparing the two files finds: they are not edited after it.    *)
(***************************************************************************)
FilesInv ==
  /\ IsFile(before) /\ IsFile(after)
  /\ stage \in {"loaded", "compared"} =>
       ProjectionAgrees(before) /\ ProjectionAgrees(after)
  /\ stage = "compared" => found = Comparison

LEMMA FilesInit == Init => FilesInv
BY OriginalsAreFiles DEF Init, FilesInv

\* An edit keeps the invariant if it leaves a file.
LEMMA EditKeeps ==
  ASSUME FilesInv, NEW file, IsFile(file), Edit(file)
  PROVE  FilesInv'
<1>1. stage' = "editing" /\ before' = before /\ after' = file
  BY DEF Edit
<1>2. IsFile(before)' /\ IsFile(after)'
  <2>1. IsFile(before') /\ IsFile(after')
    BY <1>1 DEF FilesInv
  <2> QED
    BY <2>1 DEF IsFile, IsPredicate, IsClause, CanonicalClause, Sorted, UpTo, Numbered, Place
<1> QED
  BY <1>1, <1>2 DEF FilesInv

LEMMA SwapKeeps == FilesInv /\ SwapClauses => FilesInv'
<1> SUFFICES ASSUME FilesInv, SwapClauses PROVE FilesInv'
  OBVIOUS
<1>1. PICK key \in Predicates : \E i \in 1..(Len(after[key].members) - 1) :
        LET members == after[key].members
        IN  Edit([after EXCEPT ![key].members =
                   [members EXCEPT ![i] = members[i + 1], ![i + 1] = members[i]]])
  BY DEF SwapClauses
<1> DEFINE members == after[key].members
           S == ToSet(members) \cup ToSet(ClauseOrder)
<1>2. PICK i \in 1..(Len(members) - 1) :
        Edit([after EXCEPT ![key].members =
               [members EXCEPT ![i] = members[i + 1], ![i + 1] = members[i]]])
  BY <1>1
<1> DEFINE swapped == [members EXCEPT ![i] = members[i + 1], ![i + 1] = members[i]]
<1>3. /\ members \in Seq(S) /\ Len(members) \in Nat
      /\ DOMAIN members = 1..Len(members)
      /\ \A clause \in S : IsClause(clause)
      /\ \A j \in DOMAIN members : members[j] \in S
  BY MembersOf DEF FilesInv
<1>4. swapped \in Seq(S)
  <2> HIDE DEF members, S
  <2>1. i \in 1..Len(members) /\ i + 1 \in 1..Len(members)
    BY <1>3
  <2> QED
    BY <1>3, <2>1
<1>5. IsFile([after EXCEPT ![key].members = swapped])
  <2> HIDE DEF members, S, swapped
  <2>1. /\ swapped \in Seq(ToSet(swapped))
        /\ \A j \in DOMAIN swapped : IsClause(swapped[j])
    BY <1>3, <1>4, MembersPicked
  <2> QED
    BY <2>1, FileMembers DEF FilesInv
<1> QED
  BY <1>2, <1>5, EditKeeps

LEMMA ReverseKeeps == FilesInv /\ ReverseValues => FilesInv'
<1> SUFFICES ASSUME FilesInv, ReverseValues PROVE FilesInv'
  OBVIOUS
<1>1. PICK key \in Predicates : \E i \in DOMAIN after[key].members :
        Edit([after EXCEPT ![key].members[i].values = Reverse(@)])
  BY DEF ReverseValues
<1> DEFINE members == after[key].members
<1>2. PICK i \in DOMAIN members :
        Edit([after EXCEPT ![key].members[i].values = Reverse(@)])
  BY <1>1
<1> DEFINE clause == [members[i] EXCEPT !.values = Reverse(@)]
           replaced == [members EXCEPT ![i] = clause]
           S == ToSet(members) \cup {clause}
<1>3. /\ members \in Seq(ToSet(members)) /\ DOMAIN members = 1..Len(members)
      /\ \A j \in DOMAIN members : IsClause(members[j])
  BY MembersOf DEF FilesInv, IsFile, IsPredicate
<1>4. \A c \in S : IsClause(c)
  BY <1>3, ReversedClause DEF ToSet
<1>5. replaced \in Seq(S)
  <2> HIDE DEF members, clause
  <2>1. members \in Seq(S)
    BY <1>3, SeqMonotonic
  <2> QED
    BY <1>3, <2>1, ExceptSeq
<1>6. [after EXCEPT ![key].members[i].values = Reverse(@)] =
        [after EXCEPT ![key].members = replaced]
  OBVIOUS
<1>7. IsFile([after EXCEPT ![key].members = replaced])
  <2> HIDE DEF members, S, replaced
  <2>1. /\ replaced \in Seq(ToSet(replaced))
        /\ \A j \in DOMAIN replaced : IsClause(replaced[j])
    BY <1>4, <1>5, MembersPicked
  <2> QED
    BY <2>1, FileMembers DEF FilesInv
<1> QED
  BY <1>2, <1>6, <1>7, EditKeeps

LEMMA ReplaceKeeps == FilesInv /\ ReplaceClause => FilesInv'
<1> SUFFICES ASSUME FilesInv, ReplaceClause PROVE FilesInv'
  OBVIOUS
<1>1. PICK key \in Predicates, clause \in ToSet(ClauseOrder) :
        \E i \in DOMAIN after[key].members :
          Edit([after EXCEPT ![key].members[i] = clause])
  BY DEF ReplaceClause
<1> DEFINE members == after[key].members
           S == ToSet(members) \cup ToSet(ClauseOrder)
<1>2. PICK i \in DOMAIN members : Edit([after EXCEPT ![key].members[i] = clause])
  BY <1>1
<1> DEFINE replaced == [members EXCEPT ![i] = clause]
<1>3. /\ members \in Seq(S) /\ DOMAIN members = 1..Len(members)
      /\ \A c \in S : IsClause(c)
  BY MembersOf DEF FilesInv
<1>4. replaced \in Seq(S)
  <2> clause \in S
    OBVIOUS
  <2> HIDE DEF members, S
  <2> QED
    BY <1>3, ExceptSeq
<1>5. [after EXCEPT ![key].members[i] = clause] = [after EXCEPT ![key].members = replaced]
  OBVIOUS
<1>6. IsFile([after EXCEPT ![key].members = replaced])
  <2> HIDE DEF members, S, replaced
  <2>1. /\ replaced \in Seq(ToSet(replaced))
        /\ \A j \in DOMAIN replaced : IsClause(replaced[j])
    BY <1>3, <1>4, MembersPicked
  <2> QED
    BY <2>1, FileMembers DEF FilesInv
<1> QED
  BY <1>2, <1>5, <1>6, EditKeeps

LEMMA AddKeeps == FilesInv /\ AddClause => FilesInv'
<1> SUFFICES ASSUME FilesInv, AddClause PROVE FilesInv'
  OBVIOUS
<1>1. PICK key \in Predicates, clause \in ToSet(ClauseOrder) :
        Edit([after EXCEPT ![key].members = Append(@, clause)])
  BY DEF AddClause
<1> DEFINE members == after[key].members
           S == ToSet(members) \cup ToSet(ClauseOrder)
           longer == Append(members, clause)
<1>2. members \in Seq(S) /\ \A c \in S : IsClause(c)
  BY MembersOf DEF FilesInv
<1>3. longer \in Seq(S)
  <2> clause \in S
    OBVIOUS
  <2> HIDE DEF members, S
  <2> QED
    BY <1>2
<1>4. [after EXCEPT ![key].members = Append(@, clause)] =
        [after EXCEPT ![key].members = longer]
  OBVIOUS
<1>5. IsFile([after EXCEPT ![key].members = longer])
  <2> HIDE DEF members, S, longer
  <2>1. /\ longer \in Seq(ToSet(longer))
        /\ \A j \in DOMAIN longer : IsClause(longer[j])
    BY <1>2, <1>3, MembersPicked
  <2> QED
    BY <2>1, FileMembers DEF FilesInv
<1> QED
  BY <1>1, <1>4, <1>5, EditKeeps

LEMMA RemoveKeeps == FilesInv /\ RemoveClause => FilesInv'
<1> SUFFICES ASSUME FilesInv, RemoveClause PROVE FilesInv'
  OBVIOUS
<1>1. PICK key \in Predicates : \E i \in DOMAIN after[key].members :
        Edit([after EXCEPT ![key].members = RemoveAt(@, i)])
  BY DEF RemoveClause
<1> DEFINE members == after[key].members
           S == ToSet(members) \cup ToSet(ClauseOrder)
<1>2. PICK i \in DOMAIN members : Edit([after EXCEPT ![key].members = RemoveAt(@, i)])
  BY <1>1
<1> DEFINE shorter == RemoveAt(members, i)
<1>3. /\ members \in Seq(S) /\ Len(members) \in Nat /\ DOMAIN members = 1..Len(members)
      /\ \A c \in S : IsClause(c)
      /\ \A j \in DOMAIN members : members[j] \in S
  BY MembersOf DEF FilesInv
<1>4. shorter \in Seq(S)
  <2> HIDE DEF members, S
  <2>1. SubSeq(members, 1, i - 1) \in Seq(S) /\ SubSeq(members, i + 1, Len(members)) \in Seq(S)
    BY <1>3, SubSeqProperties
  <2> QED
    BY <2>1, ConcatProperties DEF RemoveAt
<1>5. [after EXCEPT ![key].members = RemoveAt(@, i)] =
        [after EXCEPT ![key].members = shorter]
  OBVIOUS
<1>6. IsFile([after EXCEPT ![key].members = shorter])
  <2> HIDE DEF members, S, shorter
  <2>1. /\ shorter \in Seq(ToSet(shorter))
        /\ \A j \in DOMAIN shorter : IsClause(shorter[j])
    BY <1>3, <1>4, MembersPicked
  <2> QED
    BY <2>1, FileMembers DEF FilesInv
<1> QED
  BY <1>2, <1>5, <1>6, EditKeeps

LEMMA UnwrapKeeps == FilesInv /\ Unwrap => FilesInv'
<1> SUFFICES ASSUME FilesInv, Unwrap PROVE FilesInv'
  OBVIOUS
<1>1. PICK key \in Predicates :
        /\ Len(after[key].members) = 1
        /\ Edit([after EXCEPT ![key] = Atom(@.members[1])])
  BY DEF Unwrap
<1> DEFINE clause == after[key].members[1]
<1>2. IsClause(clause)
  <2>1. /\ DOMAIN after[key].members = 1..Len(after[key].members)
        /\ \A i \in DOMAIN after[key].members : IsClause(after[key].members[i])
    BY MembersOf DEF FilesInv
  <2> QED
    BY <1>1, <2>1
<1>3. IsPredicate(Atom(clause))
  <2> HIDE DEF clause
  <2> DEFINE single == <<clause>>
  <2>1. single \in Seq({clause}) /\ \A c \in {clause} : IsClause(c)
    BY <1>2
  <2>2. Atom(clause) = [compound |-> FALSE, members |-> single]
    BY DEF Atom
  <2> HIDE DEF single
  <2>3. /\ single \in Seq(ToSet(single))
        /\ \A i \in DOMAIN single : IsClause(single[i])
    BY <2>1, MembersPicked
  <2> QED
    BY <2>2, <2>3 DEF IsPredicate
<1>4. IsFile([after EXCEPT ![key] = Atom(clause)])
  BY <1>3, FileFields DEF FilesInv
<1>5. [after EXCEPT ![key] = Atom(@.members[1])] = [after EXCEPT ![key] = Atom(clause)]
  OBVIOUS
<1> QED
  BY <1>1, <1>4, <1>5, EditKeeps

LEMMA MetadataKeeps == FilesInv /\ (ChangeMetadata \/ WriteProjection) => FilesInv'
<1>1. ASSUME FilesInv, ChangeMetadata PROVE FilesInv'
  <2>1. PICK key \in Metadata : Edit([after EXCEPT ![key] = "changed"])
    BY <1>1 DEF ChangeMetadata
  <2>2. key \notin Predicates
    BY DEF Metadata, ComparedMetadata, Predicates
  <2>3. IsFile([after EXCEPT ![key] = "changed"])
    BY <1>1, <2>2, FileFields DEF FilesInv
  <2> QED
    BY <1>1, <2>1, <2>3, EditKeeps
<1>2. ASSUME FilesInv, WriteProjection PROVE FilesInv'
  <2>1. "projection" \notin Predicates
    BY DEF Predicates
  <2>2. IsFile([after EXCEPT !["projection"] = Derived(after)])
    BY <1>2, <2>1, FileFields DEF FilesInv
  <2>3. Edit([after EXCEPT !["projection"] = Derived(after)])
    BY <1>2 DEF WriteProjection
  <2> QED
    BY <1>2, <2>2, <2>3, EditKeeps
<1> QED
  BY <1>1, <1>2

\* Files that stay keep everything said about them.
LEMMA FilesStay ==
  ASSUME FilesInv, UNCHANGED <<before, after>>
  PROVE  /\ IsFile(before)' /\ IsFile(after)'
         /\ ProjectionAgrees(before)' = ProjectionAgrees(before)
         /\ ProjectionAgrees(after)' = ProjectionAgrees(after)
         /\ Comparison' = Comparison
<1>1. before' = before /\ after' = after
  OBVIOUS
<1>2. IsFile(before') /\ IsFile(after')
  BY <1>1 DEF FilesInv
<1>3. IsFile(before)' /\ IsFile(after)'
  BY <1>2 DEF IsFile, IsPredicate, IsClause, CanonicalClause, Sorted, UpTo, Numbered, Place
<1>4. /\ ProjectionAgrees(before)' = ProjectionAgrees(before)
      /\ ProjectionAgrees(after)' = ProjectionAgrees(after)
  BY <1>1 DEF ProjectionAgrees, LoadedProjection, Derived, DeriveDependencies, KindsOf
<1>5. Comparison' = Comparison
  BY <1>1 DEF Comparison, SemanticChanges, SameHash, SemanticHash, Relation, Implications,
     AttributionValid, ArtifactHash, ExactlyDenominator, LoadedProjection, Derived,
     DeriveDependencies, KindsOf, CanonicalPredicate, CanonicalMembers, CanonicalClause,
     Sorted, UpTo, Numbered, Place
<1> QED
  BY <1>3, <1>4, <1>5

LEMMA FilesNext == FilesInv /\ [Next]_vars => FilesInv'
<1> SUFFICES ASSUME FilesInv, [Next]_vars PROVE FilesInv'
  OBVIOUS
<1>1. CASE Load
  BY <1>1, FilesStay DEF Load, FilesInv
<1>2. CASE Compare
  BY <1>2, FilesStay DEF Compare, FilesInv
<1>3. CASE UNCHANGED vars
  BY <1>3, FilesStay DEF vars, FilesInv
<1> QED
  BY <1>1, <1>2, <1>3, SwapKeeps, ReverseKeeps, ReplaceKeeps, AddKeeps, RemoveKeeps,
     UnwrapKeeps, MetadataKeeps DEF Next, Terminated

\* Files stay well formed, loaded ones carry their own projection, and what the
\* comparison found stays what the two files say.
THEOREM FilesInvariance == Spec => []FilesInv
BY FilesInit, FilesNext, PTL DEF Spec

-----------------------------------------------------------------------------
(***************************************************************************)
(* What the comparison of two well-formed, loaded files finds.             *)
(***************************************************************************)
LEMMA ChangesAreMeaning ==
  ASSUME FilesInv, NEW key \in Predicates
  PROVE  key \in SemanticChanges <=> ~SameMeaning(key)
<1>1. IsPredicate(before[key]) /\ IsPredicate(after[key])
  BY DEF FilesInv, IsFile
<1> QED
  BY <1>1, CanonicalIsMeaning DEF SemanticChanges, SameMeaning

\* Loaded projections add nothing to the identity.
LEMMA HashesArePredicates ==
  ASSUME FilesInv, ProjectionAgrees(before), ProjectionAgrees(after)
  PROVE  SameHash <=> SemanticChanges = {}
<1>1. SameHash <=> /\ CanonicalPredicate(before.numerator) = CanonicalPredicate(after.numerator)
                   /\ CanonicalPredicate(before.denominator) = CanonicalPredicate(after.denominator)
                   /\ LoadedProjection(before) = LoadedProjection(after)
  BY DEF SameHash, SemanticHash
<1>2. SemanticChanges = {}
        <=> /\ CanonicalPredicate(before.numerator) = CanonicalPredicate(after.numerator)
            /\ CanonicalPredicate(before.denominator) = CanonicalPredicate(after.denominator)
  BY DEF SemanticChanges, Predicates
<1>3. ASSUME SemanticChanges = {} PROVE LoadedProjection(before) = LoadedProjection(after)
  <2>1. \A key \in Predicates :
          /\ IsPredicate(before[key]) /\ IsPredicate(after[key])
          /\ CanonicalPredicate(before[key]) = CanonicalPredicate(after[key])
    BY <1>3 DEF FilesInv, IsFile, SemanticChanges
  <2>2. \A key \in Predicates : KindsOf(before[key]) = KindsOf(after[key])
    BY <2>1, KindsAreCanonical
  <2>3. Derived(before) = Derived(after)
    BY <2>2 DEF Predicates, Derived
  <2> QED
    BY <2>3 DEF ProjectionAgrees
<1> QED
  BY <1>1, <1>2, <1>3

\* One semantic identity means: numerator and denominator say the same.
THEOREM IdentityAlwaysMeaning == Spec => []IdentityIsMeaning
<1>1. FilesInv => IdentityIsMeaning
  <2> SUFFICES ASSUME FilesInv, stage = "compared"
               PROVE  found.same_meaning
                        <=> SameMeaning("numerator") /\ SameMeaning("denominator")
    BY DEF IdentityIsMeaning
  <2>1. found.same_meaning <=> SameHash
    BY DEF FilesInv, Comparison
  <2>2. SameHash <=> SemanticChanges = {}
    BY HashesArePredicates DEF FilesInv
  <2>3. SemanticChanges \subseteq {"numerator", "denominator"}
    BY DEF SemanticChanges, Predicates
  <2>4. /\ "numerator" \in SemanticChanges <=> ~SameMeaning("numerator")
        /\ "denominator" \in SemanticChanges <=> ~SameMeaning("denominator")
    BY ChangesAreMeaning DEF Predicates
  <2> QED
    BY <2>1, <2>2, <2>3, <2>4
<1> QED
  BY <1>1, FilesInvariance, PTL

\* The relation of the difference and the hashes never contradict each other.
THEOREM DiffAlwaysExplains == Spec => []DiffExplainsIdentity
<1>1. FilesInv => DiffExplainsIdentity
  <2> SUFFICES ASSUME FilesInv, stage = "compared"
               PROVE  found.relation = "EQUIVALENT" <=> found.same_meaning
    BY DEF DiffExplainsIdentity
  <2>1. found.same_meaning = SameHash /\ found.relation = Relation(SemanticChanges)
    BY DEF FilesInv, Comparison
  <2>2. SameHash <=> SemanticChanges = {}
    BY HashesArePredicates DEF FilesInv
  <2> QED
    BY <2>1, <2>2 DEF Relation
<1> QED
  BY <1>1, FilesInvariance, PTL

\* Results are attributed to the definition exactly when only the denominator
\* says something else, and the implications then tell all that it brings and drops.
THEOREM AttributionIsExact == Spec => []OnlyDenominatorAttributed
<1>1. FilesInv => OnlyDenominatorAttributed
  <2> SUFFICES ASSUME FilesInv, stage = "compared"
               PROVE  /\ found.attribution_valid
                           <=> SameMeaning("numerator") /\ ~SameMeaning("denominator")
                      /\ found.attribution_valid =>
                           Derived(after) = (Derived(before) \cup found.implications.added)
                                              \ found.implications.removed
    BY DEF OnlyDenominatorAttributed
  <2>1. /\ found.attribution_valid = AttributionValid(SemanticChanges, SameHash)
        /\ found.implications = Implications(SemanticChanges)
    BY DEF FilesInv, Comparison
  <2>2. /\ ProjectionAgrees(before) /\ ProjectionAgrees(after)
        /\ SameHash <=> SemanticChanges = {}
    BY HashesArePredicates DEF FilesInv
  <2>3. SemanticChanges = {"denominator"}
          <=> SameMeaning("numerator") /\ ~SameMeaning("denominator")
    <3>1. SemanticChanges \subseteq {"numerator", "denominator"}
      BY DEF SemanticChanges, Predicates
    <3>2. /\ "numerator" \in SemanticChanges <=> ~SameMeaning("numerator")
          /\ "denominator" \in SemanticChanges <=> ~SameMeaning("denominator")
      BY ChangesAreMeaning DEF Predicates
    <3>3. SemanticChanges = {"denominator"}
            <=> "numerator" \notin SemanticChanges /\ "denominator" \in SemanticChanges
      BY <3>1
    <3> QED
      BY <3>2, <3>3
  <2>4. "denominator" \in SemanticChanges => ArtifactHash(before) # ArtifactHash(after)
    <3> SUFFICES ASSUME ArtifactHash(before) = ArtifactHash(after)
                 PROVE  before["denominator"] = after["denominator"]
      BY DEF SemanticChanges
    <3>1. "denominator" \in DOMAIN before /\ "denominator" \in DOMAIN after
      BY DEF FilesInv, IsFile, Predicates
    <3>2. /\ ArtifactHash(before)["denominator"] = before["denominator"]
          /\ ArtifactHash(after)["denominator"] = after["denominator"]
      BY <3>1 DEF ArtifactHash
    <3> QED
      BY <3>2
  <2>5. AttributionValid(SemanticChanges, SameHash) <=> SemanticChanges = {"denominator"}
    BY <2>2, <2>4 DEF AttributionValid, ExactlyDenominator
  <2>6. ASSUME SemanticChanges = {"denominator"}
        PROVE  Derived(after) = (Derived(before) \cup found.implications.added)
                                  \ found.implications.removed
    <3>1. /\ found.implications.added = Derived(after) \ Derived(before)
          /\ found.implications.removed = Derived(before) \ Derived(after)
      BY <2>1, <2>2, <2>6 DEF Implications, ProjectionAgrees
    <3> QED
      BY <3>1
  <2> QED
    BY <2>1, <2>3, <2>5, <2>6
<1> QED
  BY <1>1, FilesInvariance, PTL
=============================================================================
