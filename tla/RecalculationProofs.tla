------------------------ MODULE RecalculationProofs ------------------------
(***************************************************************************)
(* What the formula engine guarantees for every set of formulas: which are *)
(* refused, that a partial calculation is a full one, and what a preview   *)
(* says.                                                                   *)
(***************************************************************************)
EXTENDS Recalculation, FiniteSetTheorems, SequenceTheorems, WellFoundedInduction, TLAPS

-----------------------------------------------------------------------------
(* Loops over the naturals *)

\* A set of natural numbers that is not empty has a least member.
LEMMA LeastNatural ==
    ASSUME NEW T \in SUBSET Nat, T # {}
    PROVE  \E n \in T : \A k \in T : n <= k
  <1> DEFINE R == OpToRel(<, Nat)
  <1>1. PICK n \in T : \A k \in T : ~ (<<k, n>> \in R)
    BY NatLessThanWellFounded, WFMin
  <1>2. ASSUME NEW k \in T
        PROVE  n <= k
    <2>1. k < n => <<k, n>> \in R
      BY DEF OpToRel
    <2> HIDE DEF R
    <2>2. QED
      BY <1>1, <2>1
  <1>3. QED
    BY <1>2

\* A set that has 0 and with every number the next has them all.
LEMMA Induction ==
    ASSUME NEW G, 0 \in G, \A n \in Nat : n \in G => n + 1 \in G
    PROVE  \A n \in Nat : n \in G
  <1> SUFFICES ASSUME Nat \ G # {} PROVE FALSE
    OBVIOUS
  <1>1. PICK n \in Nat \ G : \A k \in Nat \ G : n <= k
    BY LeastNatural
  <1>2. n - 1 \in Nat /\ n - 1 \in G
    BY <1>1
  <1>3. QED
    BY <1>1, <1>2

\* The first rounds of a loop, written down.
RepeatedUpTo(step, start, g, n) ==
    /\ g[0] = start
    /\ \A i \in Nat : i < n => g[i + 1] = step[g[i]]

LEMMA RepeatedExists ==
    ASSUME NEW step, NEW start
    PROVE  \A n \in Nat : \E g : RepeatedUpTo(step, start, g, n)
  <1> DEFINE G == {n \in Nat : \E g : RepeatedUpTo(step, start, g, n)}
  <1>1. 0 \in G
    <2>1. RepeatedUpTo(step, start, [i \in Nat |-> start], 0)
      BY DEF RepeatedUpTo
    <2>2. QED
      BY <2>1
  <1>2. ASSUME NEW n \in Nat, n \in G
        PROVE  n + 1 \in G
    <2>1. PICK g : RepeatedUpTo(step, start, g, n)
      BY <1>2
    <2> DEFINE h == [i \in Nat |-> IF i <= n THEN g[i] ELSE step[g[n]]]
    <2>2. h[0] = start
      BY <2>1 DEF RepeatedUpTo
    <2>3. ASSUME NEW i \in Nat, i < n + 1
          PROVE  h[i + 1] = step[h[i]]
      <3>1. CASE i < n
        BY <2>1, <3>1 DEF RepeatedUpTo
      <3>2. CASE i = n
        BY <3>2
      <3>3. QED
        BY <2>3, <3>1, <3>2
    <2> HIDE DEF h
    <2>4. RepeatedUpTo(step, start, h, n + 1)
      BY <2>2, <2>3 DEF RepeatedUpTo
    <2>5. QED
      BY <2>4
  <1> HIDE DEF G
  <1>3. \A n \in Nat : n \in G
    BY <1>1, <1>2, Induction
  <1>4. QED
    BY <1>3 DEF G

LEMMA RepeatedAgree ==
    ASSUME NEW step, NEW start, NEW g, NEW h, NEW n \in Nat, NEW m \in Nat,
           RepeatedUpTo(step, start, g, n), RepeatedUpTo(step, start, h, m)
    PROVE  \A i \in Nat : i <= n /\ i <= m => g[i] = h[i]
  <1> DEFINE G == {i \in Nat : i <= n /\ i <= m => g[i] = h[i]}
  <1>1. 0 \in G
    BY DEF RepeatedUpTo
  <1>2. ASSUME NEW i \in Nat, i \in G
        PROVE  i + 1 \in G
    <2>1. CASE i + 1 <= n /\ i + 1 <= m
      <3>1. g[i] = h[i] /\ i < n /\ i < m
        BY <1>2, <2>1
      <3>2. g[i + 1] = step[g[i]] /\ h[i + 1] = step[h[i]]
        BY <3>1 DEF RepeatedUpTo
      <3>3. QED
        BY <3>1, <3>2
    <2>2. QED
      BY <2>1
  <1> HIDE DEF G
  <1>3. \A i \in Nat : i \in G
    BY <1>1, <1>2, Induction
  <1>4. QED
    BY <1>3 DEF G

\* A loop begins at its start and goes on by its step.
LEMMA RepeatedIs ==
    ASSUME NEW step, NEW start
    PROVE  /\ Repeated(step, start)[0] = start
           /\ \A n \in Nat : Repeated(step, start)[n + 1] = step[Repeated(step, start)[n]]
  <1> DEFINE upTo(n) == CHOOSE g : RepeatedUpTo(step, start, g, n)
             f == [n \in Nat |-> upTo(n)[n]]
  <1>1. \A n \in Nat : RepeatedUpTo(step, start, upTo(n), n)
    BY RepeatedExists
  <1> HIDE DEF upTo
  <1>2. f[0] = start
    BY <1>1 DEF RepeatedUpTo
  <1>3. ASSUME NEW n \in Nat
        PROVE  f[n + 1] = step[f[n]]
    <2>1. RepeatedUpTo(step, start, upTo(n), n) /\ RepeatedUpTo(step, start, upTo(n + 1), n + 1)
      BY <1>1
    <2>2. upTo(n)[n] = upTo(n + 1)[n]
      BY <2>1, RepeatedAgree
    <2>3. upTo(n + 1)[n + 1] = step[upTo(n + 1)[n]]
      BY <2>1 DEF RepeatedUpTo
    <2>4. QED
      BY <2>2, <2>3
  <1>4. f = [n \in Nat |-> IF n = 0 THEN start ELSE step[f[n - 1]]]
    <2>1. ASSUME NEW n \in Nat
          PROVE  f[n] = IF n = 0 THEN start ELSE step[f[n - 1]]
      <3>1. CASE n # 0
        <4>1. n - 1 \in Nat /\ (n - 1) + 1 = n
          BY <3>1
        <4> HIDE DEF f
        <4>2. QED
          BY <1>3, <3>1, <4>1
      <3>2. QED
        BY <1>2, <3>1
    <2>2. QED
      BY <2>1
  <1> HIDE DEF f
  <1>5. Repeated(step, start) = [n \in Nat |-> IF n = 0 THEN start ELSE step[Repeated(step, start)[n - 1]]]
    BY <1>4 DEF Repeated
  <1> DEFINE r == Repeated(step, start)
  <1>6. r = [n \in Nat |-> IF n = 0 THEN start ELSE step[r[n - 1]]]
    BY <1>5
  <1> HIDE DEF r
  <1>7. r[0] = start /\ \A n \in Nat : r[n + 1] = step[r[n]]
    BY <1>6
  <1>8. QED
    BY <1>7 DEF r

-----------------------------------------------------------------------------
(* Sets of formulas over the alphabet *)

LEMMA AlphabetFinite == IsFiniteSet(ToSet(Alphabet))
  <1>1. /\ Len(Alphabet) \in Nat /\ DOMAIN Alphabet = 1 .. Len(Alphabet)
        /\ Alphabet \in [1 .. Len(Alphabet) -> ToSet(Alphabet)]
    BY LenProperties, FormulasAssumption
  <1>2. Alphabet \in Surjection(1 .. Len(Alphabet), ToSet(Alphabet))
    BY <1>1 DEF Surjection, ToSet
  <1>3. IsFiniteSet(1 .. Len(Alphabet))
    BY <1>1, FS_Interval
  <1>4. QED
    BY <1>2, <1>3, FS_Surjection

\* The first of a set is a member of it.
LEMMA FirstIn ==
    ASSUME NEW S, S \in SUBSET ToSet(Alphabet), S # {}
    PROVE  First(S) \in S
  <1> DEFINE P == {i \in DOMAIN Alphabet : Alphabet[i] \in S}
  <1>1. DOMAIN Alphabet \subseteq Nat
    BY LenProperties, FormulasAssumption
  <1>2. P # {}
    BY DEF ToSet
  <1>3. \E n \in P : \A k \in P : n <= k
    BY <1>1, <1>2, LeastNatural
  <1>4. Min(P) \in P
    BY <1>3 DEF Min
  <1>5. QED
    BY <1>4 DEF First

Sound(formulas) == Targets(formulas) \in SUBSET ToSet(Alphabet)

LEMMA TargetsFinite ==
    ASSUME NEW formulas, Sound(formulas)
    PROVE  IsFiniteSet(Targets(formulas)) /\ Cardinality(Targets(formulas)) \in Nat
  BY AlphabetFinite, FS_Subset, FS_CardinalityType DEF Sound

\* Every set of targets has one that reads none of them.
NoLoops(formulas) ==
    \A S \in SUBSET Targets(formulas) :
        S # {} => \E t \in S : InnerInputs(formulas, t) \cap S = {}

-----------------------------------------------------------------------------
(* What a change reaches *)

Closed(formulas, changed, S) == DirectReaders(formulas, changed \cup S) \subseteq S

LEMMA ReadersStepIs ==
    ASSUME NEW formulas, NEW changed, NEW S \in SUBSET Targets(formulas)
    PROVE  /\ ReadersStep(formulas, changed)[S] = S \cup DirectReaders(formulas, changed \cup S)
           /\ ReadersStep(formulas, changed)[S] \in SUBSET Targets(formulas)
  BY DEF ReadersStep, DirectReaders

LEMMA DescendantsRounds ==
    ASSUME NEW formulas, Sound(formulas), NEW changed
    PROVE  LET read == Repeated(ReadersStep(formulas, changed), {}) IN
           \A n \in Nat : /\ read[n] \in SUBSET Targets(formulas)
                          /\ n <= Cardinality(read[n]) \/ Closed(formulas, changed, read[n])
  <1> DEFINE read == Repeated(ReadersStep(formulas, changed), {})
             G == {n \in Nat : /\ read[n] \in SUBSET Targets(formulas)
                               /\ n <= Cardinality(read[n]) \/ Closed(formulas, changed, read[n])}
  <1>1. read[0] = {} /\ \A n \in Nat : read[n + 1] = ReadersStep(formulas, changed)[read[n]]
    BY RepeatedIs
  <1>s. \A S \in SUBSET Targets(formulas) :
           /\ ReadersStep(formulas, changed)[S] = S \cup DirectReaders(formulas, changed \cup S)
           /\ ReadersStep(formulas, changed)[S] \in SUBSET Targets(formulas)
    BY ReadersStepIs
  <1> HIDE DEF read
  <1>2. 0 \in G
    BY <1>1, FS_EmptySet
  <1>3. ASSUME NEW n \in Nat, n \in G
        PROVE  n + 1 \in G
    <2> DEFINE more == DirectReaders(formulas, changed \cup read[n])
    <2>0. /\ read[n] \in SUBSET Targets(formulas)
          /\ read[n + 1] = ReadersStep(formulas, changed)[read[n]]
      BY <1>1, <1>3
    <2>1. read[n + 1] = read[n] \cup more /\ read[n + 1] \in SUBSET Targets(formulas)
      BY <1>s, <2>0, Zenon
    <2> HIDE DEF more
    <2>2. CASE more \subseteq read[n]
      <3>1. read[n + 1] = read[n] /\ Closed(formulas, changed, read[n])
        BY <2>1, <2>2 DEF Closed, more
      <3>2. QED
        BY <2>1, <3>1
    <2>3. CASE ~ (more \subseteq read[n])
      <3>1. PICK t \in more : t \notin read[n]
        BY <2>3
      <3>2. n <= Cardinality(read[n])
        BY <1>3, <2>3 DEF Closed, more
      <3>3. IsFiniteSet(read[n]) /\ IsFiniteSet(read[n + 1])
        BY <1>3, <2>1, TargetsFinite, FS_Subset
      <3>4. Cardinality(read[n] \cup {t}) = Cardinality(read[n]) + 1
        BY <3>1, <3>3, FS_AddElement
      <3>5. Cardinality(read[n] \cup {t}) <= Cardinality(read[n + 1])
        BY <2>1, <3>1, <3>3, FS_Subset
      <3>6. Cardinality(read[n]) \in Nat /\ Cardinality(read[n + 1]) \in Nat
        BY <3>3, FS_CardinalityType
      <3>7. QED
        BY <2>1, <3>2, <3>4, <3>5, <3>6
    <2>4. QED
      BY <2>2, <2>3
  <1> HIDE DEF G
  <1>4. \A n \in Nat : n \in G
    BY <1>2, <1>3, Induction
  <1>5. QED
    BY <1>4 DEF G, read

\* The descendants of what changed are targets, and all that read one of them
\* or of what changed are among them.
LEMMA DescendantsClosed ==
    ASSUME NEW formulas, Sound(formulas), NEW changed
    PROVE  /\ Descendants(formulas, changed) \in SUBSET Targets(formulas)
           /\ Closed(formulas, changed, Descendants(formulas, changed))
  <1> DEFINE N == Cardinality(Targets(formulas))
             D == Repeated(ReadersStep(formulas, changed), {})[N]
  <1>1. N \in Nat /\ IsFiniteSet(Targets(formulas))
    BY TargetsFinite
  <1>2. /\ D \in SUBSET Targets(formulas)
        /\ N <= Cardinality(D) \/ Closed(formulas, changed, D)
    BY <1>1, DescendantsRounds
  <1>3. Cardinality(D) <= N /\ Cardinality(D) \in Nat
    BY <1>1, <1>2, FS_Subset, FS_CardinalityType
  <1>4. N <= Cardinality(D) => D = Targets(formulas)
    BY <1>1, <1>2, <1>3, FS_Subset
  <1>5. Closed(formulas, changed, Targets(formulas))
    BY DEF Closed, DirectReaders
  <1>6. D = Descendants(formulas, changed)
    BY DEF Descendants
  <1> HIDE DEF D
  <1>7. QED
    BY <1>2, <1>4, <1>5, <1>6

\* They are the least such set.
LEMMA DescendantsLeast ==
    ASSUME NEW formulas, Sound(formulas), NEW changed,
           NEW S \in SUBSET Targets(formulas), Closed(formulas, changed, S)
    PROVE  Descendants(formulas, changed) \subseteq S
  <1> DEFINE read == Repeated(ReadersStep(formulas, changed), {})
             G == {n \in Nat : read[n] \subseteq S}
  <1>1. read[0] = {} /\ \A n \in Nat : read[n + 1] = ReadersStep(formulas, changed)[read[n]]
    BY RepeatedIs
  <1>2. \A n \in Nat : read[n] \in SUBSET Targets(formulas)
    BY DescendantsRounds
  <1>3. Descendants(formulas, changed) = read[Cardinality(Targets(formulas))]
    BY DEF Descendants
  <1>s. \A T \in SUBSET Targets(formulas) :
           ReadersStep(formulas, changed)[T] = T \cup DirectReaders(formulas, changed \cup T)
    BY ReadersStepIs
  <1> HIDE DEF read
  <1>4. 0 \in G
    BY <1>1
  <1>5. ASSUME NEW n \in Nat, n \in G
        PROVE  n + 1 \in G
    <2>0. /\ read[n] \in SUBSET Targets(formulas)
          /\ read[n + 1] = ReadersStep(formulas, changed)[read[n]]
      BY <1>1, <1>2
    <2>1. read[n + 1] = read[n] \cup DirectReaders(formulas, changed \cup read[n])
      BY <1>s, <2>0, Zenon
    <2>2. DirectReaders(formulas, changed \cup read[n]) \subseteq DirectReaders(formulas, changed \cup S)
      BY <1>5 DEF DirectReaders
    <2>3. QED
      BY <1>5, <2>1, <2>2 DEF Closed
  <1> HIDE DEF G
  <1>6. \A n \in Nat : n \in G
    BY <1>4, <1>5, Induction
  <1>7. QED
    BY <1>3, <1>6, TargetsFinite DEF G

-----------------------------------------------------------------------------
(* The order *)

LEMMA Appended ==
    ASSUME NEW S, NEW seq \in Seq(S), NEW e \in S
    PROVE  /\ Append(seq, e) \in Seq(S) /\ Len(seq) \in Nat
           /\ DOMAIN seq = 1 .. Len(seq) /\ DOMAIN Append(seq, e) = 1 .. Len(seq) + 1
           /\ Len(Append(seq, e)) = Len(seq) + 1
           /\ \A i \in 1 .. Len(seq) : Append(seq, e)[i] = seq[i]
           /\ Append(seq, e)[Len(seq) + 1] = e
           /\ ToSet(Append(seq, e)) = ToSet(seq) \cup {e}
           /\ ToSet(seq) \in SUBSET S
  <1>1. /\ Append(seq, e) \in Seq(S)
        /\ Len(Append(seq, e)) = Len(seq) + 1
        /\ \A i \in 1 .. Len(seq) : Append(seq, e)[i] = seq[i]
        /\ Append(seq, e)[Len(seq) + 1] = e
    BY AppendProperties
  <1>2. /\ Len(seq) \in Nat /\ DOMAIN seq = 1 .. Len(seq)
        /\ \A i \in DOMAIN seq : seq[i] \in S
    BY LenProperties
  <1> DEFINE longer == Append(seq, e)
  <1>3. DOMAIN longer = 1 .. Len(seq) + 1
    BY <1>1, <1>2, LenProperties
  <1>4. longer[Len(seq) + 1] = e /\ \A i \in 1 .. Len(seq) : longer[i] = seq[i]
    BY <1>1
  <1> HIDE DEF longer
  <1>5. ToSet(longer) \subseteq ToSet(seq) \cup {e}
    <2>1. ASSUME NEW i \in DOMAIN longer
          PROVE  longer[i] \in ToSet(seq) \cup {e}
      <3>1. i \in 1 .. Len(seq) \/ i = Len(seq) + 1
        BY <1>2, <1>3
      <3>2. QED
        BY <1>2, <1>4, <3>1 DEF ToSet
    <2>2. QED
      BY <2>1 DEF ToSet
  <1>6. ToSet(seq) \cup {e} \subseteq ToSet(longer)
    <2>1. Len(seq) + 1 \in DOMAIN longer /\ DOMAIN seq \subseteq DOMAIN longer
      BY <1>2, <1>3
    <2>2. QED
      BY <1>2, <1>4, <2>1 DEF ToSet
  <1>7. QED
    BY <1>1, <1>2, <1>3, <1>5, <1>6 DEF longer, ToSet

\* Of a loop of the order: no target twice, each after what it reads, and one
\* more in every round until none is ready.
Ordered(formulas, so_far) ==
    /\ so_far \in Orders(formulas)
    /\ \A i, j \in DOMAIN so_far.done : so_far.done[i] = so_far.done[j] => i = j
    /\ \A i \in DOMAIN so_far.done : \A x \in InnerInputs(formulas, so_far.done[i]) :
          \E j \in DOMAIN so_far.done : j < i /\ so_far.done[j] = x
    /\ so_far.ready \cap ToSet(so_far.done) = {}
    /\ \A t \in so_far.ready : InnerInputs(formulas, t) \subseteq ToSet(so_far.done)
    /\ Cardinality(ToSet(so_far.done)) = Len(so_far.done)

LEMMA OrderStepOrdered ==
    ASSUME NEW formulas, Sound(formulas), NEW so_far, Ordered(formulas, so_far)
    PROVE  /\ Ordered(formulas, OrderStep(formulas)[so_far])
           /\ IF Ready(formulas, so_far) = {} THEN OrderStep(formulas)[so_far] = so_far
              ELSE Len(OrderStep(formulas)[so_far].done) = Len(so_far.done) + 1
  <1> DEFINE ready == Ready(formulas, so_far)
             t == First(ready)
             next == [done |-> Append(so_far.done, t), ready |-> ready \ {t}]
             done == so_far.done
  <1>1. so_far \in Orders(formulas)
    BY DEF Ordered
  <1>2. done \in Seq(Targets(formulas)) /\ so_far.ready \in SUBSET Targets(formulas)
    BY <1>1 DEF Orders
  <1>3. OrderStep(formulas)[so_far] = IF ready = {} THEN so_far ELSE next
    BY <1>1 DEF OrderStep
  <1>4. ready \in SUBSET Targets(formulas) /\ ready \cap ToSet(done) = {}
        /\ \A u \in ready : InnerInputs(formulas, u) \subseteq ToSet(done)
    BY <1>2 DEF Ordered, Ready
  <1>5. CASE ready = {}
    BY <1>3, <1>5
  <1>6. CASE ready # {}
    <2>1. t \in ready
      BY <1>4, <1>6, FirstIn DEF Sound
    <2>2. t \in Targets(formulas) /\ t \notin ToSet(done)
      BY <1>4, <2>1
    <2> HIDE DEF t, ready
    <2> DEFINE longer == Append(done, t)
    <2>3. /\ longer \in Seq(Targets(formulas)) /\ Len(done) \in Nat
          /\ DOMAIN done = 1 .. Len(done) /\ DOMAIN longer = 1 .. Len(done) + 1
          /\ Len(longer) = Len(done) + 1
          /\ \A i \in 1 .. Len(done) : longer[i] = done[i]
          /\ longer[Len(done) + 1] = t
          /\ ToSet(longer) = ToSet(done) \cup {t}
          /\ ToSet(done) \in SUBSET Targets(formulas)
      BY <1>2, <2>2, Appended
    <2> HIDE DEF longer
    <2>4. next.done = longer /\ next.ready = ready \ {t}
      BY DEF longer
    <2>5. next \in Orders(formulas)
      BY <1>4, <2>3 DEF Orders, longer
    <2> HIDE DEF next
    <2>6. \A i, j \in DOMAIN done : done[i] = done[j] => i = j
      BY DEF Ordered
    <2>7. \A i \in DOMAIN done : done[i] # t
      BY <2>2 DEF ToSet
    <2>8. \A i, j \in DOMAIN longer : longer[i] = longer[j] => i = j
      <3>1. \A i \in DOMAIN longer : i = Len(done) + 1 \/ i \in 1 .. Len(done)
        BY <2>3
      <3>2. QED
        BY <2>3, <2>6, <2>7, <3>1
    <2>9. ASSUME NEW i \in DOMAIN longer, NEW x \in InnerInputs(formulas, longer[i])
          PROVE  \E j \in DOMAIN longer : j < i /\ longer[j] = x
      <3>1. CASE i \in 1 .. Len(done)
        <4>1. PICK j \in DOMAIN done : j < i /\ done[j] = x
          BY <2>3, <2>9, <3>1 DEF Ordered
        <4>2. j \in DOMAIN longer /\ longer[j] = x
          BY <2>3, <4>1
        <4>3. QED
          BY <4>1, <4>2
      <3>2. CASE i = Len(done) + 1
        <4>1. x \in ToSet(done)
          BY <1>4, <2>1, <2>3, <2>9, <3>2
        <4>2. PICK j \in DOMAIN done : done[j] = x
          BY <4>1 DEF ToSet
        <4>3. j \in DOMAIN longer /\ longer[j] = x /\ j < i
          BY <2>3, <3>2, <4>2
        <4>4. QED
          BY <4>3
      <3>3. QED
        BY <2>3, <3>1, <3>2
    <2>10. (ready \ {t}) \cap (ToSet(done) \cup {t}) = {}
      BY <1>4
    <2>11. Cardinality(ToSet(done) \cup {t}) = Cardinality(ToSet(done)) + 1
      <3>1. IsFiniteSet(ToSet(done))
        BY <2>3, TargetsFinite, FS_Subset
      <3>2. QED
        BY <2>2, <3>1, FS_AddElement
    <2>12. Cardinality(ToSet(done)) = Len(done)
      BY DEF Ordered
    <2>13. \A u \in ready \ {t} : InnerInputs(formulas, u) \subseteq ToSet(done) \cup {t}
      BY <1>4
    <2>14. Ordered(formulas, next)
      <3>1. \A i \in DOMAIN next.done : \A x \in InnerInputs(formulas, next.done[i]) :
               \E j \in DOMAIN next.done : j < i /\ next.done[j] = x
        BY <2>4, <2>9
      <3>2. Cardinality(ToSet(next.done)) = Len(next.done)
        BY <2>3, <2>4, <2>11, <2>12
      <3>3. /\ next.ready \cap ToSet(next.done) = {}
            /\ \A u \in next.ready : InnerInputs(formulas, u) \subseteq ToSet(next.done)
        BY <2>3, <2>4, <2>10, <2>13
      <3>4. \A i, j \in DOMAIN next.done : next.done[i] = next.done[j] => i = j
        BY <2>4, <2>8
      <3>5. QED
        BY <2>5, <3>1, <3>2, <3>3, <3>4 DEF Ordered
    <2>15. OrderStep(formulas)[so_far] = next
      BY <1>3, <1>6
    <2>16. QED
      BY <1>6, <2>3, <2>4, <2>14, <2>15 DEF ready
  <1>7. QED
    BY <1>5, <1>6

LEMMA OrderRounds ==
    ASSUME NEW formulas, Sound(formulas)
    PROVE  LET loop == Repeated(OrderStep(formulas), NotOrdered) IN
           \A n \in Nat : /\ Ordered(formulas, loop[n])
                          /\ Len(loop[n].done) = n \/ Ready(formulas, loop[n]) = {}
  <1> DEFINE loop == Repeated(OrderStep(formulas), NotOrdered)
             G == {n \in Nat : /\ Ordered(formulas, loop[n])
                               /\ Len(loop[n].done) = n \/ Ready(formulas, loop[n]) = {}}
  <1>1. loop[0] = NotOrdered /\ \A n \in Nat : loop[n + 1] = OrderStep(formulas)[loop[n]]
    BY RepeatedIs
  <1> HIDE DEF loop
  <1>2. 0 \in G
    <2>1. ToSet(<<>>) = {} /\ Len(<<>>) = 0 /\ DOMAIN <<>> = {}
      BY DEF ToSet
    <2>2. NotOrdered.done = <<>> /\ NotOrdered.ready = {} /\ NotOrdered \in Orders(formulas)
      BY DEF NotOrdered, Orders
    <2>3. Ordered(formulas, NotOrdered)
      BY <2>1, <2>2, FS_EmptySet DEF Ordered
    <2>4. QED
      BY <1>1, <2>1, <2>2, <2>3
  <1>3. ASSUME NEW n \in Nat, n \in G
        PROVE  n + 1 \in G
    <2> DEFINE o == loop[n]
    <2>1. Ordered(formulas, o) /\ (Len(o.done) = n \/ Ready(formulas, o) = {})
      BY <1>3
    <2>2. loop[n + 1] = OrderStep(formulas)[o]
      BY <1>1
    <2> HIDE DEF o
    <2>3. /\ Ordered(formulas, OrderStep(formulas)[o])
          /\ IF Ready(formulas, o) = {} THEN OrderStep(formulas)[o] = o
              ELSE Len(OrderStep(formulas)[o].done) = Len(o.done) + 1
      BY <2>1, OrderStepOrdered
    <2>4. QED
      BY <2>1, <2>2, <2>3
  <1> HIDE DEF G
  <1>4. \A n \in Nat : n \in G
    BY <1>2, <1>3, Induction
  <1>5. QED
    BY <1>4 DEF G, loop

\* Where there are no loops the order has every target, once and after all it
\* reads.
LEMMA OrderIs ==
    ASSUME NEW formulas, Sound(formulas), NoLoops(formulas)
    PROVE  /\ Order(formulas) \in Seq(Targets(formulas))
           /\ ToSet(Order(formulas)) = Targets(formulas)
           /\ \A i, j \in DOMAIN Order(formulas) : Order(formulas)[i] = Order(formulas)[j] => i = j
           /\ \A i \in DOMAIN Order(formulas) : \A x \in InnerInputs(formulas, Order(formulas)[i]) :
                 \E j \in DOMAIN Order(formulas) : j < i /\ Order(formulas)[j] = x
  <1> DEFINE N == Cardinality(Targets(formulas))
             o == Repeated(OrderStep(formulas), NotOrdered)[N]
  <1>1. N \in Nat /\ IsFiniteSet(Targets(formulas))
    BY TargetsFinite
  <1>2. Ordered(formulas, o) /\ (Len(o.done) = N \/ Ready(formulas, o) = {})
    BY <1>1, OrderRounds
  <1>3. Order(formulas) = o.done
    BY DEF Order
  <1> HIDE DEF o
  <1>4. o.done \in Seq(Targets(formulas))
    BY <1>2 DEF Ordered, Orders
  <1>5. ToSet(o.done) \in SUBSET Targets(formulas)
    BY <1>4, LenProperties DEF ToSet
  <1>6. CASE Len(o.done) = N
    <2>1. Cardinality(ToSet(o.done)) = N
      BY <1>2, <1>6 DEF Ordered
    <2>2. ToSet(o.done) = Targets(formulas)
      BY <1>1, <1>5, <2>1, FS_Subset
    <2>3. QED
      BY <1>2, <1>3, <1>4, <2>2 DEF Ordered
  <1>7. CASE Ready(formulas, o) = {}
    <2>1. \A t \in Targets(formulas) \ ToSet(o.done) : ~ (InnerInputs(formulas, t) \subseteq ToSet(o.done))
      BY <1>7 DEF Ready
    <2> DEFINE rest == Targets(formulas) \ ToSet(o.done)
    <2>2. \A t \in rest : InnerInputs(formulas, t) \cap rest # {}
      BY <2>1 DEF InnerInputs
    <2>3. rest = {}
      BY <2>2 DEF NoLoops
    <2>4. ToSet(o.done) = Targets(formulas)
      BY <1>5, <2>3
    <2>5. QED
      BY <1>2, <1>3, <1>4, <2>4 DEF Ordered
  <1>8. QED
    BY <1>2, <1>6, <1>7

-----------------------------------------------------------------------------
(* The walk that looks for loops *)

\* Each target of a path reads the next.
Chain(formulas, path) ==
    \A i \in Nat : i \in DOMAIN path /\ i + 1 \in DOMAIN path =>
        path[i + 1] \in InnerInputs(formulas, path[i])

Looped(formulas) == \E t \in Targets(formulas) : t \in Descendants(formulas, {t})

\* A target on a path whose end reads it reads itself through the others.
LEMMA PathLooped ==
    ASSUME NEW formulas, Sound(formulas), NEW path \in Seq(Targets(formulas)), Chain(formulas, path),
           NEW k \in DOMAIN path, path[k] \in InnerInputs(formulas, path[Len(path)])
    PROVE  Looped(formulas)
  <1> DEFINE D == Descendants(formulas, {path[k]})
             L == Len(path)
             G == {n \in Nat : L - n >= k => path[L - n] \in D}
  <1>1. L \in Nat /\ DOMAIN path = 1 .. L /\ k \in Nat /\ \A i \in DOMAIN path : path[i] \in Targets(formulas)
    BY LenProperties
  <1>2. D \in SUBSET Targets(formulas) /\ Closed(formulas, {path[k]}, D)
    BY DescendantsClosed
  <1>3. \A t \in Targets(formulas) : InnerInputs(formulas, t) \cap ({path[k]} \cup D) # {} => t \in D
    BY <1>2 DEF Closed, DirectReaders, InnerInputs
  <1> HIDE DEF D
  <1>4. 0 \in G
    BY <1>1, <1>3
  <1>5. ASSUME NEW n \in Nat, n \in G
        PROVE  n + 1 \in G
    <2>1. SUFFICES ASSUME L - (n + 1) >= k PROVE path[L - (n + 1)] \in D
      OBVIOUS
    <2>2. path[L - n] \in D
      BY <1>1, <1>5, <2>1
    <2> DEFINE i == L - (n + 1)
    <2>3. i \in Nat /\ i \in DOMAIN path /\ i + 1 \in DOMAIN path /\ i + 1 = L - n
      BY <1>1, <2>1
    <2> HIDE DEF i
    <2>4. path[i + 1] \in InnerInputs(formulas, path[i])
      BY <2>3 DEF Chain
    <2>5. path[i] \in D
      BY <1>1, <1>3, <2>2, <2>3, <2>4
    <2>6. QED
      BY <2>5 DEF i
  <1> HIDE DEF G
  <1>6. L - k \in G
    BY <1>1, <1>4, <1>5, Induction
  <1>7. path[k] \in D
    BY <1>1, <1>6 DEF G
  <1>8. QED
    BY <1>1, <1>7 DEF Looped, D

\* Of the walk: what it is done with has no loops, and reads nothing it is not
\* done with, as long as no loop is found; a loop that is found is one.
Walked(formulas, walk) ==
    /\ walk \in Walks(formulas)
    /\ \A i, j \in DOMAIN walk.path : walk.path[i] = walk.path[j] => i = j
    /\ walk.visited \cap ToSet(walk.path) = {}
    /\ Chain(formulas, walk.path)
    /\ Cardinality(walk.visited \cup ToSet(walk.path)) = Cardinality(walk.visited) + Len(walk.path)
    /\ walk.found = {} =>
          /\ \A v \in walk.visited : InnerInputs(formulas, v) \subseteq walk.visited
          /\ \A S \in SUBSET walk.visited : S # {} => \E t \in S : InnerInputs(formulas, t) \cap S = {}
    /\ walk.found # {} => Looped(formulas)

Effort(walk) == 2 * Cardinality(walk.visited) + Len(walk.path)

LEMMA WalkDown ==
    ASSUME NEW formulas, Sound(formulas), NEW walk, Walked(formulas, walk), Ahead(formulas, walk) # {}
    PROVE  /\ Walked(formulas, WalkStep(formulas)[walk])
           /\ Effort(WalkStep(formulas)[walk]) = Effort(walk) + 1
  <1> DEFINE x == First(Ahead(formulas, walk))
             path == walk.path
             longer == Append(path, x)
             next == [walk EXCEPT !.path = longer]
  <1>1. walk \in Walks(formulas) /\ path \in Seq(Targets(formulas))
        /\ walk.visited \in SUBSET Targets(formulas)
    BY DEF Walked, Walks
  <1>2. Ahead(formulas, walk) \in SUBSET Targets(formulas)
    BY DEF Ahead, InnerInputs
  <1>3. x \in Ahead(formulas, walk)
    BY <1>2, FirstIn DEF Sound
  <1>4. /\ x \in Targets(formulas) /\ x \notin walk.visited /\ x \notin ToSet(path)
        /\ path # <<>> => x \in InnerInputs(formulas, path[Len(path)])
    BY <1>2, <1>3 DEF Ahead
  <1>5. WalkStep(formulas)[walk] = next
    BY <1>1 DEF WalkStep
  <1> HIDE DEF x
  <1>6. /\ longer \in Seq(Targets(formulas)) /\ Len(path) \in Nat
        /\ DOMAIN path = 1 .. Len(path) /\ DOMAIN longer = 1 .. Len(path) + 1
        /\ Len(longer) = Len(path) + 1
        /\ \A i \in 1 .. Len(path) : longer[i] = path[i]
        /\ longer[Len(path) + 1] = x
        /\ ToSet(longer) = ToSet(path) \cup {x}
        /\ ToSet(path) \in SUBSET Targets(formulas)
    BY <1>1, <1>4, Appended
  <1> HIDE DEF longer
  <1>7. /\ next \in Walks(formulas)
        /\ next.path = longer /\ next.visited = walk.visited /\ next.found = walk.found
    BY <1>1, <1>6 DEF Walks
  <1> HIDE DEF next
  <1>8. \A i, j \in DOMAIN longer : longer[i] = longer[j] => i = j
    <2>1. \A i, j \in DOMAIN path : path[i] = path[j] => i = j
      BY DEF Walked
    <2>2. \A i \in DOMAIN path : path[i] # x
      BY <1>4 DEF ToSet
    <2>3. \A i \in DOMAIN longer : i = Len(path) + 1 \/ i \in 1 .. Len(path)
      BY <1>6
    <2>4. QED
      BY <1>6, <2>1, <2>2, <2>3
  <1>9. Chain(formulas, longer)
    <2>1. SUFFICES ASSUME NEW i \in Nat, i \in DOMAIN longer, i + 1 \in DOMAIN longer
                   PROVE  longer[i + 1] \in InnerInputs(formulas, longer[i])
      BY DEF Chain
    <2>2. CASE i = Len(path)
      <3>1. path # <<>>
        BY <1>6, <2>1, <2>2
      <3>2. QED
        BY <1>4, <1>6, <2>1, <2>2, <3>1
    <2>3. CASE i # Len(path)
      <3>1. i \in DOMAIN path /\ i + 1 \in DOMAIN path
        BY <1>6, <2>1, <2>3
      <3>2. path[i + 1] \in InnerInputs(formulas, path[i])
        BY <3>1 DEF Walked, Chain
      <3>3. QED
        BY <1>6, <3>1, <3>2
    <2>4. QED
      BY <2>2, <2>3
  <1>10. Cardinality(walk.visited \cup ToSet(longer)) = Cardinality(walk.visited \cup ToSet(path)) + 1
    <2>1. IsFiniteSet(walk.visited \cup ToSet(path))
      BY <1>1, <1>6, TargetsFinite, FS_Subset
    <2>2. walk.visited \cup ToSet(longer) = (walk.visited \cup ToSet(path)) \cup {x}
      BY <1>6
    <2>3. x \notin walk.visited \cup ToSet(path)
      BY <1>4
    <2>4. QED
      BY <2>1, <2>2, <2>3, FS_AddElement
  <1>11. Cardinality(walk.visited) \in Nat
    BY <1>1, TargetsFinite, FS_Subset, FS_CardinalityType
  <1>12. walk.visited \cap ToSet(longer) = {}
    BY <1>4, <1>6 DEF Walked
  <1>13. Cardinality(next.visited \cup ToSet(next.path)) = Cardinality(next.visited) + Len(next.path)
    <2>1. Cardinality(walk.visited \cup ToSet(path)) = Cardinality(walk.visited) + Len(path)
      BY DEF Walked
    <2>2. next.visited \cup ToSet(next.path) = walk.visited \cup ToSet(longer)
      BY <1>7
    <2>3. Cardinality(next.visited) = Cardinality(walk.visited) /\ Len(next.path) = Len(path) + 1
      BY <1>6, <1>7
    <2>4. Cardinality(next.visited \cup ToSet(next.path)) = Cardinality(walk.visited) + Len(path) + 1
      BY <1>10, <2>1, <2>2
    <2> HIDE DEF path
    <2>5. QED
      BY <1>6, <1>11, <2>3, <2>4
  <1>14. Walked(formulas, next)
    BY <1>7, <1>8, <1>9, <1>12, <1>13 DEF Walked
  <1>15. Effort(next) = Effort(walk) + 1
    BY <1>6, <1>7, <1>11 DEF Effort
  <1>16. QED
    BY <1>5, <1>14, <1>15

LEMMA WalkUp ==
    ASSUME NEW formulas, Sound(formulas), NEW walk, Walked(formulas, walk),
           Ahead(formulas, walk) = {}, walk.path # <<>>
    PROVE  /\ Walked(formulas, WalkStep(formulas)[walk])
           /\ Effort(WalkStep(formulas)[walk]) = Effort(walk) + 1
  <1> DEFINE path == walk.path
             node == path[Len(path)]
             shorter == SubSeq(path, 1, Len(path) - 1)
             next == [path |-> shorter, visited |-> walk.visited \cup {node},
                      found |-> walk.found \cup LoopsClosed(formulas, path)]
  <1>1. walk \in Walks(formulas) /\ path \in Seq(Targets(formulas))
        /\ walk.visited \in SUBSET Targets(formulas)
        /\ walk.found \in SUBSET SUBSET Targets(formulas)
    BY DEF Walked, Walks
  <1>2. WalkStep(formulas)[walk] = next
    BY <1>1 DEF WalkStep
  <1>3. /\ Len(path) \in Nat \ {0} /\ DOMAIN path = 1 .. Len(path)
        /\ \A i \in DOMAIN path : path[i] \in Targets(formulas)
    BY <1>1, LenProperties, EmptySeq
  <1>4. /\ shorter \in Seq(Targets(formulas)) /\ Len(shorter) = Len(path) - 1
        /\ \A i \in 1 .. Len(path) - 1 : shorter[i] = path[i]
    <2>1. \A i \in 1 .. Len(path) - 1 : path[i] \in Targets(formulas)
      BY <1>3
    <2>2. 1 \in Int /\ Len(path) - 1 \in Int
      BY <1>3
    <2>3. /\ shorter \in Seq(Targets(formulas))
          /\ Len(shorter) = IF 1 <= Len(path) - 1 THEN (Len(path) - 1) - 1 + 1 ELSE 0
          /\ \A i \in 1 .. (Len(path) - 1) - 1 + 1 : shorter[i] = path[1 + i - 1]
      BY <2>1, <2>2, SubSeqProperties
    <2> HIDE DEF shorter
    <2>4. QED
      BY <1>3, <2>3
  <1>5. DOMAIN shorter = 1 .. Len(path) - 1
    BY <1>4, LenProperties
  <1>6. node \in Targets(formulas) /\ node \in ToSet(path) /\ node \notin walk.visited
    <2>1. Len(path) \in DOMAIN path
      BY <1>3
    <2>2. QED
      BY <1>3, <2>1 DEF ToSet, Walked
  <1>7. LoopsClosed(formulas, path) \in SUBSET SUBSET Targets(formulas)
    BY <1>3 DEF LoopsClosed
  <1>8. LoopsClosed(formulas, path) # {} <=> \E k \in DOMAIN path : path[k] \in InnerInputs(formulas, node)
    BY DEF LoopsClosed
  <1> HIDE DEF shorter
  <1>9. \A i, j \in DOMAIN path : path[i] = path[j] => i = j
    BY DEF Walked
  <1>10. /\ next \in Walks(formulas)
         /\ next.path = shorter /\ next.visited = walk.visited \cup {node}
         /\ next.found = walk.found \cup LoopsClosed(formulas, path)
    BY <1>1, <1>4, <1>6, <1>7 DEF Walks
  <1> HIDE DEF next
  <1>11. ToSet(path) = ToSet(shorter) \cup {node} /\ node \notin ToSet(shorter)
    <2>1. \A i \in DOMAIN path : i = Len(path) \/ i \in DOMAIN shorter
      BY <1>3, <1>5
    <2>2. DOMAIN shorter \subseteq DOMAIN path /\ Len(path) \in DOMAIN path /\ Len(path) \notin DOMAIN shorter
      BY <1>3, <1>5
    <2>3. \A i \in DOMAIN shorter : shorter[i] = path[i]
      BY <1>4, <1>5
    <2>4. \A i \in DOMAIN shorter : path[i] # node
      BY <1>9, <2>2
    <2> HIDE DEF path
    <2>5. ToSet(path) = ToSet(shorter) \cup {node}
      BY <2>1, <2>2, <2>3 DEF ToSet
    <2>6. node \notin ToSet(shorter)
      BY <2>3, <2>4 DEF ToSet
    <2>7. QED
      BY <2>5, <2>6
  <1>12. \A i, j \in DOMAIN shorter : shorter[i] = shorter[j] => i = j
    <2>1. \A i \in DOMAIN shorter : i \in DOMAIN path /\ shorter[i] = path[i]
      BY <1>3, <1>4, <1>5
    <2>2. QED
      BY <1>9, <2>1
  <1>13. Chain(formulas, shorter)
    <2>1. SUFFICES ASSUME NEW i \in Nat, i \in DOMAIN shorter, i + 1 \in DOMAIN shorter
                   PROVE  shorter[i + 1] \in InnerInputs(formulas, shorter[i])
      BY DEF Chain
    <2>2. /\ i \in DOMAIN path /\ i + 1 \in DOMAIN path
          /\ shorter[i] = path[i] /\ shorter[i + 1] = path[i + 1]
      BY <1>3, <1>4, <1>5, <2>1
    <2>3. path[i + 1] \in InnerInputs(formulas, path[i])
      BY <2>2 DEF Walked, Chain
    <2>4. QED
      BY <2>2, <2>3
  <1>14. Cardinality(walk.visited \cup {node}) = Cardinality(walk.visited) + 1
         /\ Cardinality(walk.visited) \in Nat
    BY <1>1, <1>6, TargetsFinite, FS_Subset, FS_CardinalityType, FS_AddElement
  <1>15. Cardinality(next.visited \cup ToSet(next.path)) = Cardinality(next.visited) + Len(next.path)
    <2>1. Cardinality(walk.visited \cup ToSet(path)) = Cardinality(walk.visited) + Len(path)
      BY DEF Walked
    <2>2. next.visited \cup ToSet(next.path) = walk.visited \cup ToSet(path)
      BY <1>10, <1>11
    <2>3. Cardinality(next.visited) = Cardinality(walk.visited) + 1 /\ Len(next.path) = Len(path) - 1
      BY <1>4, <1>10, <1>14
    <2>4. Cardinality(next.visited \cup ToSet(next.path)) = Cardinality(walk.visited) + Len(path)
      BY <2>1, <2>2
    <2>5. Len(path) \in Nat
      BY <1>3
    <2> HIDE DEF path
    <2>6. QED
      BY <1>14, <2>3, <2>4, <2>5
  <1>16. next.visited \cap ToSet(next.path) = {}
    BY <1>10, <1>11 DEF Walked
  <1>17. ASSUME next.found = {}
         PROVE  /\ \A v \in next.visited : InnerInputs(formulas, v) \subseteq next.visited
                /\ \A S \in SUBSET next.visited : S # {} => \E t \in S : InnerInputs(formulas, t) \cap S = {}
    <2>1. /\ \A v \in walk.visited : InnerInputs(formulas, v) \subseteq walk.visited
          /\ \A S \in SUBSET walk.visited : S # {} => \E t \in S : InnerInputs(formulas, t) \cap S = {}
      BY <1>10, <1>17 DEF Walked
    <2>2. \A k \in DOMAIN path : path[k] \notin InnerInputs(formulas, node)
      BY <1>8, <1>10, <1>17
    <2>3. InnerInputs(formulas, node) \subseteq walk.visited \cup ToSet(path)
      BY DEF Ahead
    <2>4. InnerInputs(formulas, node) \subseteq walk.visited
      BY <2>2, <2>3 DEF ToSet
    <2> HIDE DEF node, path
    <2>5. ASSUME NEW S \in SUBSET next.visited, S # {}
          PROVE  \E t \in S : InnerInputs(formulas, t) \cap S = {}
      <3>1. CASE S \cap walk.visited = {}
        <4>1. S = {node}
          BY <1>10, <2>5, <3>1
        <4>2. InnerInputs(formulas, node) \cap S = {}
          BY <2>4, <3>1
        <4>3. QED
          BY <4>1, <4>2
      <3>2. CASE S \cap walk.visited # {}
        <4>1. PICK t \in S \cap walk.visited : InnerInputs(formulas, t) \cap (S \cap walk.visited) = {}
          BY <2>1, <3>2
        <4>2. InnerInputs(formulas, t) \subseteq walk.visited
          BY <2>1, <4>1
        <4>3. QED
          BY <4>1, <4>2
      <3>3. QED
        BY <3>1, <3>2
    <2>6. QED
      BY <1>10, <2>1, <2>4, <2>5
  <1>18. ASSUME next.found # {}
         PROVE  Looped(formulas)
    <2>1. CASE walk.found # {}
      BY <2>1 DEF Walked
    <2>2. CASE walk.found = {}
      <3>1. PICK k \in DOMAIN path : path[k] \in InnerInputs(formulas, node)
        BY <1>8, <1>10, <1>18, <2>2
      <3>2. Chain(formulas, path)
        BY DEF Walked
      <3>3. QED
        BY <1>1, <3>1, <3>2, PathLooped
    <2>3. QED
      BY <2>1, <2>2
  <1>19. Walked(formulas, next)
    BY <1>10, <1>12, <1>13, <1>15, <1>16, <1>17, <1>18 DEF Walked
  <1>20. Effort(next) = Effort(walk) + 1
    <2>1. Cardinality(next.visited) = Cardinality(walk.visited) + 1 /\ Len(next.path) = Len(path) - 1
      BY <1>4, <1>10, <1>14
    <2>2. Len(path) \in Nat
      BY <1>3
    <2>3. Effort(next) = 2 * (Cardinality(walk.visited) + 1) + (Len(path) - 1)
      BY <2>1 DEF Effort
    <2>4. Effort(walk) = 2 * Cardinality(walk.visited) + Len(path)
      BY DEF Effort
    <2> HIDE DEF path
    <2>5. QED
      BY <1>14, <2>2, <2>3, <2>4
  <1>21. QED
    BY <1>2, <1>19, <1>20

Finished(formulas, walk) == Ahead(formulas, walk) = {} /\ walk.path = <<>>

LEMMA WalkRounds ==
    ASSUME NEW formulas, Sound(formulas)
    PROVE  LET loop == Repeated(WalkStep(formulas), NotWalked) IN
           \A n \in Nat : Walked(formulas, loop[n]) /\ (Effort(loop[n]) = n \/ Finished(formulas, loop[n]))
  <1> DEFINE loop == Repeated(WalkStep(formulas), NotWalked)
             G == {n \in Nat : /\ Walked(formulas, loop[n])
                               /\ Effort(loop[n]) = n \/ Finished(formulas, loop[n])}
  <1>1. loop[0] = NotWalked /\ \A n \in Nat : loop[n + 1] = WalkStep(formulas)[loop[n]]
    BY RepeatedIs
  <1> HIDE DEF loop
  <1>2. 0 \in G
    <2>1. ToSet(<<>>) = {} /\ Len(<<>>) = 0 /\ DOMAIN <<>> = {} /\ Cardinality({}) = 0
      BY FS_EmptySet DEF ToSet
    <2>2. /\ NotWalked.path = <<>> /\ NotWalked.visited = {} /\ NotWalked.found = {}
          /\ NotWalked \in Walks(formulas)
      BY DEF NotWalked, Walks
    <2>3. Walked(formulas, NotWalked)
      <3>1. Chain(formulas, <<>>)
        BY <2>1 DEF Chain
      <3>2. {} \cup ToSet(<<>>) = {} /\ {} \cap ToSet(<<>>) = {}
        BY <2>1
      <3>3. Cardinality({} \cup ToSet(<<>>)) = Cardinality({}) + Len(<<>>)
        <4>1. Cardinality({} \cup ToSet(<<>>)) = Cardinality({})
          BY <3>2, Zenon
        <4>2. Cardinality({}) + Len(<<>>) = 0
          BY <2>1
        <4>3. Cardinality({}) = 0
          BY <2>1
        <4>4. QED
          BY <4>1, <4>2, <4>3
      <3>4. QED
        BY <2>1, <2>2, <3>1, <3>2, <3>3 DEF Walked
    <2>4. Effort(NotWalked) = 0
      BY <2>1, <2>2 DEF Effort
    <2>5. QED
      BY <1>1, <2>3, <2>4
  <1>3. ASSUME NEW n \in Nat, n \in G
        PROVE  n + 1 \in G
    <2> DEFINE w == loop[n]
    <2>1. Walked(formulas, w) /\ (Effort(w) = n \/ Finished(formulas, w))
      BY <1>3
    <2>2. loop[n + 1] = WalkStep(formulas)[w]
      BY <1>1
    <2> HIDE DEF w
    <2>3. CASE Ahead(formulas, w) # {}
      BY <2>1, <2>2, <2>3, WalkDown DEF Finished
    <2>4. CASE Ahead(formulas, w) = {} /\ w.path # <<>>
      BY <2>1, <2>2, <2>4, WalkUp DEF Finished
    <2>5. CASE Finished(formulas, w)
      <3>1. w \in Walks(formulas)
        BY <2>1 DEF Walked
      <3>2. WalkStep(formulas)[w] = w
        BY <2>5, <3>1 DEF WalkStep, Finished
      <3>3. QED
        BY <2>1, <2>2, <2>5, <3>2
    <2>6. QED
      BY <2>3, <2>4, <2>5 DEF Finished
  <1> HIDE DEF G
  <1>4. \A n \in Nat : n \in G
    BY <1>2, <1>3, Induction
  <1>5. QED
    BY <1>4 DEF G, loop

\* The walk visits every target; what it finds are loops, and where it finds
\* none there are none.
LEMMA CyclesAre ==
    ASSUME NEW formulas, Sound(formulas)
    PROVE  /\ Cycles(formulas) = {} => NoLoops(formulas)
           /\ Cycles(formulas) # {} => Looped(formulas)
  <1> DEFINE N == Cardinality(Targets(formulas))
             w == Repeated(WalkStep(formulas), NotWalked)[2 * N]
  <1>1. N \in Nat /\ IsFiniteSet(Targets(formulas))
    BY TargetsFinite
  <1>2. Walked(formulas, w) /\ (Effort(w) = 2 * N \/ Finished(formulas, w))
    <2>1. 2 * N \in Nat
      BY <1>1
    <2>2. QED
      BY <2>1, WalkRounds
  <1>3. Cycles(formulas) = w.found
    BY DEF Cycles
  <1> HIDE DEF w
  <1>4. w.visited \in SUBSET Targets(formulas) /\ w.path \in Seq(Targets(formulas))
    BY <1>2 DEF Walked, Walks
  <1>5. Targets(formulas) \subseteq w.visited
    <2>1. CASE Finished(formulas, w)
      BY <2>1 DEF Finished, Ahead, ToSet
    <2>2. CASE Effort(w) = 2 * N
      <3>1. w.visited \cup ToSet(w.path) \in SUBSET Targets(formulas)
        BY <1>4, LenProperties DEF ToSet
      <3>2. Cardinality(w.visited \cup ToSet(w.path)) <= N
        BY <1>1, <3>1, FS_Subset
      <3>3. Cardinality(w.visited) \in Nat /\ Len(w.path) \in Nat /\ Cardinality(w.visited) <= N
        BY <1>1, <1>4, LenProperties, FS_Subset, FS_CardinalityType
      <3>4. Cardinality(w.visited) = N
        BY <1>1, <1>2, <2>2, <3>2, <3>3 DEF Walked, Effort
      <3>5. QED
        BY <1>1, <1>4, <3>4, FS_Subset
    <2>3. QED
      BY <1>2, <2>1, <2>2
  <1>6. QED
    BY <1>2, <1>3, <1>4, <1>5 DEF Walked, NoLoops

\* Where there are no loops nothing reads itself.
LEMMA NothingLooped ==
    ASSUME NEW formulas, Sound(formulas), NoLoops(formulas)
    PROVE  ~ Looped(formulas)
  <1> SUFFICES ASSUME NEW t \in Targets(formulas), t \in Descendants(formulas, {t})
               PROVE  FALSE
    BY DEF Looped
  <1> DEFINE D == Descendants(formulas, {t})
             R == {d \in D : Inputs(formulas[d]) \cap ({t} \cup D) # {}}
  <1>1. D \in SUBSET Targets(formulas) /\ Closed(formulas, {t}, D)
    BY DescendantsClosed
  <1> HIDE DEF D
  <1>2. t \in D
    BY DEF D
  <1>3. R \in SUBSET Targets(formulas) /\ Closed(formulas, {t}, R)
    <2>1. DirectReaders(formulas, {t} \cup R) \subseteq DirectReaders(formulas, {t} \cup D)
      BY DEF DirectReaders
    <2>2. DirectReaders(formulas, {t} \cup D) \subseteq R
      BY <1>1 DEF Closed, DirectReaders
    <2> HIDE DEF R
    <2>3. Closed(formulas, {t}, R)
      BY <2>1, <2>2 DEF Closed
    <2>4. QED
      BY <1>1, <2>3 DEF R
  <1>4. D \subseteq R
    <2> HIDE DEF R
    <2>1. QED
      BY <1>3, DescendantsLeast DEF D
  <1>5. \A d \in D : InnerInputs(formulas, d) \cap D # {}
    BY <1>1, <1>2, <1>4 DEF InnerInputs
  <1>6. QED
    BY <1>1, <1>2, <1>5 DEF NoLoops

-----------------------------------------------------------------------------
(* Runs of the order *)

\* The first targets of the order, written down.
RunsUpTo(formulas, affected, start, g, n) ==
    /\ g[0] = start
    /\ \A i \in Nat : i < n => g[i + 1] = Turn(formulas, affected, g[i], Order(formulas)[i + 1])

LEMMA RunsExists ==
    ASSUME NEW formulas, NEW affected, NEW start
    PROVE  \A n \in Nat : \E g : RunsUpTo(formulas, affected, start, g, n)
  <1> DEFINE G == {n \in Nat : \E g : RunsUpTo(formulas, affected, start, g, n)}
  <1>1. 0 \in G
    <2>1. RunsUpTo(formulas, affected, start, [i \in Nat |-> start], 0)
      BY DEF RunsUpTo
    <2>2. QED
      BY <2>1
  <1>2. ASSUME NEW n \in Nat, n \in G
        PROVE  n + 1 \in G
    <2>1. PICK g : RunsUpTo(formulas, affected, start, g, n)
      BY <1>2
    <2> DEFINE h == [i \in Nat |-> IF i <= n
                                     THEN g[i]
                                     ELSE Turn(formulas, affected, g[n], Order(formulas)[n + 1])]
    <2>2. h[0] = start
      BY <2>1 DEF RunsUpTo
    <2>3. ASSUME NEW i \in Nat, i < n + 1
          PROVE  h[i + 1] = Turn(formulas, affected, h[i], Order(formulas)[i + 1])
      <3>1. CASE i < n
        BY <2>1, <3>1 DEF RunsUpTo
      <3>2. CASE i = n
        BY <3>2
      <3>3. QED
        BY <2>3, <3>1, <3>2
    <2> HIDE DEF h
    <2>4. RunsUpTo(formulas, affected, start, h, n + 1)
      BY <2>2, <2>3 DEF RunsUpTo
    <2>5. QED
      BY <2>4
  <1> HIDE DEF G
  <1>3. \A n \in Nat : n \in G
    BY <1>1, <1>2, Induction
  <1>4. QED
    BY <1>3 DEF G

LEMMA RunsAgree ==
    ASSUME NEW formulas, NEW affected, NEW start, NEW g, NEW h, NEW n \in Nat, NEW m \in Nat,
           RunsUpTo(formulas, affected, start, g, n), RunsUpTo(formulas, affected, start, h, m)
    PROVE  \A i \in Nat : i <= n /\ i <= m => g[i] = h[i]
  <1> DEFINE G == {i \in Nat : i <= n /\ i <= m => g[i] = h[i]}
  <1>1. 0 \in G
    BY DEF RunsUpTo
  <1>2. ASSUME NEW i \in Nat, i \in G
        PROVE  i + 1 \in G
    <2>1. CASE i + 1 <= n /\ i + 1 <= m
      <3>1. g[i] = h[i] /\ i < n /\ i < m
        BY <1>2, <2>1
      <3>2. /\ g[i + 1] = Turn(formulas, affected, g[i], Order(formulas)[i + 1])
            /\ h[i + 1] = Turn(formulas, affected, h[i], Order(formulas)[i + 1])
        BY <3>1 DEF RunsUpTo
      <3>3. QED
        BY <3>1, <3>2
    <2>2. QED
      BY <2>1
  <1> HIDE DEF G
  <1>3. \A i \in Nat : i \in G
    BY <1>1, <1>2, Induction
  <1>4. QED
    BY <1>3 DEF G

\* A run goes through the order one target at a time.
LEMMA RunsIs ==
    ASSUME NEW formulas, NEW affected, NEW start
    PROVE  /\ Runs(formulas, affected, start)[0] = start
           /\ \A n \in Nat :
                 Runs(formulas, affected, start)[n + 1] =
                     Turn(formulas, affected, Runs(formulas, affected, start)[n], Order(formulas)[n + 1])
  <1> DEFINE upTo(n) == CHOOSE g : RunsUpTo(formulas, affected, start, g, n)
             f == [n \in Nat |-> upTo(n)[n]]
  <1>1. \A n \in Nat : RunsUpTo(formulas, affected, start, upTo(n), n)
    BY RunsExists
  <1> HIDE DEF upTo
  <1>2. f[0] = start
    BY <1>1 DEF RunsUpTo
  <1>3. ASSUME NEW n \in Nat
        PROVE  f[n + 1] = Turn(formulas, affected, f[n], Order(formulas)[n + 1])
    <2>1. /\ RunsUpTo(formulas, affected, start, upTo(n), n)
          /\ RunsUpTo(formulas, affected, start, upTo(n + 1), n + 1)
      BY <1>1
    <2>2. upTo(n)[n] = upTo(n + 1)[n]
      BY <2>1, RunsAgree
    <2>3. upTo(n + 1)[n + 1] = Turn(formulas, affected, upTo(n + 1)[n], Order(formulas)[n + 1])
      BY <2>1 DEF RunsUpTo
    <2>4. QED
      BY <2>2, <2>3
  <1>4. f = [n \in Nat |-> IF n = 0 THEN start ELSE Turn(formulas, affected, f[n - 1], Order(formulas)[n])]
    <2>1. ASSUME NEW n \in Nat
          PROVE  f[n] = IF n = 0 THEN start ELSE Turn(formulas, affected, f[n - 1], Order(formulas)[n])
      <3>1. CASE n # 0
        <4>1. n - 1 \in Nat /\ (n - 1) + 1 = n
          BY <3>1
        <4> HIDE DEF f
        <4>2. QED
          BY <1>3, <3>1, <4>1
      <3>2. QED
        BY <1>2, <3>1
    <2>2. QED
      BY <2>1
  <1> HIDE DEF f
  <1>5. Runs(formulas, affected, start) =
            [n \in Nat |->
               IF n = 0
                 THEN start
                 ELSE Turn(formulas, affected, Runs(formulas, affected, start)[n - 1], Order(formulas)[n])]
    BY <1>4 DEF Runs
  <1> DEFINE r == Runs(formulas, affected, start)
  <1>6. r = [n \in Nat |-> IF n = 0 THEN start ELSE Turn(formulas, affected, r[n - 1], Order(formulas)[n])]
    BY <1>5
  <1> HIDE DEF r
  <1>7. r[0] = start /\ \A n \in Nat : r[n + 1] = Turn(formulas, affected, r[n], Order(formulas)[n + 1])
    BY <1>6
  <1>8. QED
    BY <1>7 DEF r

-----------------------------------------------------------------------------
(* What a run computes *)

LEMMA WithIs ==
    ASSUME NEW f, NEW g
    PROVE  /\ DOMAIN With(f, g) = DOMAIN f \cup DOMAIN g
           /\ \A x \in DOMAIN f : With(f, g)[x] = f[x]
           /\ \A x \in DOMAIN g \ DOMAIN f : With(f, g)[x] = g[x]
  BY DEF With

LEMMA PutIs ==
    ASSUME NEW f, NEW p, NEW v
    PROVE  /\ DOMAIN Put(f, p, v) = DOMAIN f \cup {p}
           /\ Put(f, p, v)[p] = v
           /\ \A x \in DOMAIN f \ {p} : Put(f, p, v)[x] = f[x]
  BY DEF Put, With

LEMMA OnlyIs ==
    ASSUME NEW f, NEW S
    PROVE  /\ DOMAIN Only(f, S) = DOMAIN f \cap S
           /\ \A x \in DOMAIN f \cap S : Only(f, S)[x] = f[x]
  BY DEF Only

LEMMA PutWith ==
    ASSUME NEW f, NEW g, NEW p, NEW v
    PROVE  Put(With(f, g), p, v) = With(Put(f, p, v), g)
  BY DEF Put, With

\* Two environments have the same of x.
Same(f, g, x) == (x \in DOMAIN f <=> x \in DOMAIN g) /\ (x \in DOMAIN f => f[x] = g[x])

\* A sum depends on what is summed.
LEMMA SameTotal ==
    ASSUME NEW f, NEW g, NEW S, \A x \in S : f[x] = g[x]
    PROVE  Total(f, S) = Total(g, S)
  <1> DEFINE F == [x \in {y \in S : f[y] # 0} |-> f[x]]
             H == [x \in {y \in S : g[y] # 0} |-> g[x]]
  <1>1. F = H
    OBVIOUS
  <1>2. Total(f, S) = FoldFunction(+, 0, F) /\ Total(g, S) = FoldFunction(+, 0, H)
    BY DEF Total
  <1> HIDE DEF F, H
  <1>3. QED
    BY <1>1, <1>2

\* A formula depends on its inputs.
LEMMA SameValue ==
    ASSUME NEW formula, NEW f, NEW g, \A x \in Inputs(formula) : Same(f, g, x)
    PROVE  /\ CanCompute(formula, f) <=> CanCompute(formula, g)
           /\ CanCompute(formula, f) => Evaluate(formula, f) = Evaluate(formula, g)
  <1>1. /\ formula.plus \subseteq Inputs(formula) /\ formula.minus \subseteq Inputs(formula)
        /\ formula.op # "none" => formula.by \in Inputs(formula)
    BY DEF Inputs
  <1>2. ASSUME Inputs(formula) \subseteq DOMAIN f \/ Inputs(formula) \subseteq DOMAIN g
        PROVE  /\ Inputs(formula) \subseteq DOMAIN f /\ Inputs(formula) \subseteq DOMAIN g
               /\ \A x \in Inputs(formula) : f[x] = g[x]
    BY <1>2 DEF Same
  <1>3. CanCompute(formula, f) <=> CanCompute(formula, g)
    BY <1>1, <1>2 DEF CanCompute
  <1>4. ASSUME CanCompute(formula, f)
        PROVE  Evaluate(formula, f) = Evaluate(formula, g)
    <2>1. \A x \in Inputs(formula) : f[x] = g[x]
      BY <1>2, <1>4 DEF CanCompute
    <2>2. /\ Total(f, formula.plus) = Total(g, formula.plus)
          /\ Total(f, formula.minus) = Total(g, formula.minus)
      BY <1>1, <2>1, SameTotal
    <2>3. formula.op # "none" => f[formula.by] = g[formula.by]
      BY <1>1, <2>1
    <2>4. QED
      BY <2>2, <2>3 DEF Evaluate
  <1>5. QED
    BY <1>3, <1>4

\* What Right says of one target.
RightAt(formulas, known, cells, t) ==
    IF CanCompute(formulas[t], known)
    THEN t \in DOMAIN cells /\ cells[t] = Evaluate(formulas[t], known)
    ELSE t \notin DOMAIN cells

LEMMA RightIs ==
    ASSUME NEW formulas, NEW environment, NEW cells
    PROVE  Right(formulas, environment, cells) <=>
               \A t \in Targets(formulas) : RightAt(formulas, With(cells, environment), cells, t)
  BY DEF Right, RightAt

LEMMA SameRight ==
    ASSUME NEW formulas, NEW f, NEW g, NEW c, NEW d, NEW t,
           \A x \in Inputs(formulas[t]) : Same(f, g, x), Same(c, d, t), RightAt(formulas, f, c, t)
    PROVE  RightAt(formulas, g, d, t)
  <1>1. /\ CanCompute(formulas[t], f) <=> CanCompute(formulas[t], g)
        /\ CanCompute(formulas[t], f) => Evaluate(formulas[t], f) = Evaluate(formulas[t], g)
    BY SameValue
  <1>2. QED
    BY <1>1 DEF RightAt, Same

\* Of a run that is n targets into the order: the cells so far over the
\* environment, every target met is right if it is affected, and the rest is as it was.
RunSoFar(formulas, environment, affected, before, run, n) ==
    /\ run = [environment |-> With(run.cells, environment), cells |-> run.cells,
              unavailable |-> run.unavailable]
    /\ \A x : x \notin affected \/ x \notin {Order(formulas)[i] : i \in 1 .. n} => Same(run.cells, before, x)
    /\ \A i \in 1 .. n : Order(formulas)[i] \in affected =>
          RightAt(formulas, run.environment, run.cells, Order(formulas)[i])

LEMMA TurnKeeps ==
    ASSUME NEW formulas, Sound(formulas), NoLoops(formulas), NEW environment,
           NEW affected \in SUBSET Targets(formulas), NEW before, DOMAIN before \cap affected = {},
           NEW n \in Nat, n + 1 \in DOMAIN Order(formulas),
           NEW run, RunSoFar(formulas, environment, affected, before, run, n)
    PROVE  RunSoFar(formulas, environment, affected, before,
                    Turn(formulas, affected, run, Order(formulas)[n + 1]), n + 1)
  <1> DEFINE order == Order(formulas)
             t == order[n + 1]
             next == Turn(formulas, affected, run, t)
             value == Evaluate(formulas[t], run.environment)
  <1>1. /\ \A i, j \in DOMAIN order : order[i] = order[j] => i = j
        /\ \A i \in DOMAIN order : \A x \in InnerInputs(formulas, order[i]) :
              \E j \in DOMAIN order : j < i /\ order[j] = x
        /\ \A i \in 1 .. n + 1 : i \in DOMAIN order /\ order[i] \in Targets(formulas)
    <2>1. order \in Seq(Targets(formulas))
      BY OrderIs
    <2>2. /\ DOMAIN order = 1 .. Len(order) /\ Len(order) \in Nat
          /\ \A i \in DOMAIN order : order[i] \in Targets(formulas)
      BY <2>1, LenProperties
    <2> HIDE DEF order
    <2>3. n + 1 \in DOMAIN order
      BY DEF order
    <2>4. \A i \in 1 .. n + 1 : i \in DOMAIN order /\ order[i] \in Targets(formulas)
      BY <2>2, <2>3
    <2>5. QED
      BY <2>4, OrderIs DEF order
  <1> HIDE DEF order
  <1>2. \A i \in 1 .. n + 1 : t \notin Inputs(formulas[order[i]])
    <2>1. SUFFICES ASSUME NEW i \in 1 .. n + 1, t \in Inputs(formulas[order[i]]) PROVE FALSE
      OBVIOUS
    <2>2. n + 1 \in 1 .. n + 1 /\ t \in Targets(formulas)
      BY <1>1
    <2>3. i \in DOMAIN order /\ t \in InnerInputs(formulas, order[i])
      BY <1>1, <2>1, <2>2 DEF InnerInputs
    <2>4. PICK j \in DOMAIN order : j < i /\ order[j] = order[n + 1]
      BY <1>1, <2>3
    <2>5. j = n + 1
      BY <1>1, <2>2, <2>4
    <2>6. QED
      BY <2>1, <2>4, <2>5
  <1>3. \A i \in 1 .. n : order[i] # t
    <2>1. \A i \in 1 .. n : i \in 1 .. n + 1 /\ i # n + 1
      OBVIOUS
    <2>2. n + 1 \in 1 .. n + 1
      OBVIOUS
    <2>3. QED
      BY <1>1, <2>1, <2>2
  <1>4. {order[i] : i \in 1 .. n + 1} = {order[i] : i \in 1 .. n} \cup {t}
    <2>1. \A i \in 1 .. n + 1 : i \in 1 .. n \/ i = n + 1
      OBVIOUS
    <2>2. \A i \in 1 .. n : i \in 1 .. n + 1
      OBVIOUS
    <2>3. n + 1 \in 1 .. n + 1
      OBVIOUS
    <2>4. QED
      BY <2>1, <2>2, <2>3
  <1> DEFINE met == {order[i] : i \in 1 .. n}
  <1>5. /\ run = [environment |-> With(run.cells, environment), cells |-> run.cells,
                  unavailable |-> run.unavailable]
        /\ \A x : x \notin affected \/ x \notin met => Same(run.cells, before, x)
        /\ \A i \in 1 .. n : order[i] \in affected => RightAt(formulas, run.environment, run.cells, order[i])
    BY DEF RunSoFar, order
  <1>6. CASE t \in affected /\ CanCompute(formulas[t], run.environment)
    <2> DEFINE cells == Put(run.cells, t, value)
               known == Put(run.environment, t, value)
    <2>1. /\ next = [environment |-> known, cells |-> cells, unavailable |-> run.unavailable]
          /\ known = With(cells, environment)
      <3>1. next = [run EXCEPT !.environment = Put(@, t, value), !.cells = Put(@, t, value)]
        BY <1>6 DEF Turn, Compute
      <3>2. run.environment = With(run.cells, environment)
        BY <1>5
      <3>3. known = With(cells, environment)
        BY <3>2, PutWith
      <3> HIDE DEF t, value
      <3>4. next = [environment |-> known, cells |-> cells, unavailable |-> run.unavailable]
        BY <1>5, <3>1
      <3>5. QED
        BY <3>3, <3>4
    <2> HIDE DEF next, value, t
    <2>2. \A x : x # t => Same(run.environment, known, x) /\ Same(run.cells, cells, x)
      BY DEF Put, With, Same
    <2>3. t \in DOMAIN cells /\ cells[t] = value
      BY DEF Put, With
    <2> HIDE DEF cells, known
    <2>4. ASSUME NEW x, x \notin affected \/ x \notin met \cup {t}
          PROVE  Same(cells, before, x)
      <3>1. x # t /\ (x \notin affected \/ x \notin met)
        BY <1>6, <2>4
      <3>2. QED
        BY <1>5, <2>2, <3>1 DEF Same
    <2>5. ASSUME NEW i \in 1 .. n, order[i] \in affected
          PROVE  RightAt(formulas, known, cells, order[i])
      <3>1. order[i] # t /\ t \notin Inputs(formulas[order[i]])
        BY <1>2, <1>3
      <3>2. /\ \A x \in Inputs(formulas[order[i]]) : Same(run.environment, known, x)
            /\ Same(run.cells, cells, order[i])
        BY <2>2, <3>1
      <3>3. QED
        BY <1>5, <2>5, <3>2, SameRight
    <2>6. RightAt(formulas, known, cells, t)
      <3>1. t \notin Inputs(formulas[t])
        BY <1>2 DEF t
      <3>2. \A x \in Inputs(formulas[t]) : Same(run.environment, known, x)
        BY <2>2, <3>1
      <3>3. /\ CanCompute(formulas[t], known)
            /\ Evaluate(formulas[t], known) = value
        BY <1>6, <3>2, SameValue DEF value
      <3>4. QED
        BY <2>3, <3>3 DEF RightAt
    <2>7. \A i \in 1 .. n + 1 : order[i] \in affected => RightAt(formulas, known, cells, order[i])
      <3>1. \A i \in 1 .. n + 1 : i \in 1 .. n \/ i = n + 1
        OBVIOUS
      <3>2. QED
        BY <2>5, <2>6, <3>1 DEF t
    <2>8. /\ next.environment = known /\ next.cells = cells
          /\ next = [environment |-> With(next.cells, environment), cells |-> next.cells,
                     unavailable |-> next.unavailable]
      BY <2>1
    <2>9. \A x : x \notin affected \/ x \notin {order[i] : i \in 1 .. n + 1} => Same(next.cells, before, x)
      BY <1>4, <2>4, <2>8
    <2>10. QED
      BY <2>7, <2>8, <2>9 DEF RunSoFar, order, next, t
  <1>7. CASE t \in affected /\ ~ CanCompute(formulas[t], run.environment)
    <2>1. next = [run EXCEPT !.unavailable = @ \cup {t}]
      BY <1>7 DEF Turn, Compute
    <2>2. /\ next.environment = run.environment /\ next.cells = run.cells
          /\ next = [environment |-> With(next.cells, environment), cells |-> next.cells,
                     unavailable |-> next.unavailable]
      <3> HIDE DEF next, t
      <3> DEFINE e == With(run.cells, environment)
                 c == run.cells
                 u == run.unavailable
      <3>0. run = [environment |-> e, cells |-> c, unavailable |-> u]
        BY <1>5
      <3> HIDE DEF e, c, u
      <3>a. next = [environment |-> e, cells |-> c, unavailable |-> u \cup {t}]
        BY <2>1, <3>0
      <3>1. next = [environment |-> With(run.cells, environment), cells |-> run.cells,
                    unavailable |-> run.unavailable \cup {t}]
        BY <3>a DEF e, c, u
      <3>2. run.environment = With(run.cells, environment)
        BY <1>5
      <3>3. QED
        BY <3>1, <3>2
    <2>3. t \notin met
      BY <1>3
    <2>4. t \notin DOMAIN run.cells
      BY <1>5, <1>7, <2>3 DEF Same
    <2>5. RightAt(formulas, run.environment, run.cells, t)
      BY <1>7, <2>4 DEF RightAt
    <2> HIDE DEF next
    <2>6. \A i \in 1 .. n + 1 : order[i] \in affected => RightAt(formulas, run.environment, run.cells, order[i])
      <3>1. \A i \in 1 .. n + 1 : i \in 1 .. n \/ i = n + 1
        OBVIOUS
      <3>2. QED
        BY <1>5, <2>5, <3>1
    <2>7. \A x : x \notin affected \/ x \notin {order[i] : i \in 1 .. n + 1} => Same(next.cells, before, x)
      BY <1>4, <1>5, <2>2
    <2>8. QED
      BY <2>2, <2>6, <2>7 DEF RunSoFar, order, next
  <1>8. CASE t \notin affected
    <2>1. next = run
      BY <1>8 DEF Turn
    <2>2. \A i \in 1 .. n + 1 : order[i] \in affected => RightAt(formulas, run.environment, run.cells, order[i])
      <3>1. \A i \in 1 .. n + 1 : i \in 1 .. n \/ i = n + 1
        OBVIOUS
      <3>2. QED
        BY <1>5, <1>8, <3>1
    <2>3. \A x : x \notin affected \/ x \notin {order[i] : i \in 1 .. n + 1} => Same(run.cells, before, x)
      BY <1>4, <1>5, <1>8
    <2> HIDE DEF next
    <2>4. QED
      BY <1>5, <2>1, <2>2, <2>3 DEF RunSoFar, order, next
  <1>9. QED
    BY <1>6, <1>7, <1>8

LEMMA RunRight ==
    ASSUME NEW formulas, Sound(formulas), NoLoops(formulas), NEW environment,
           NEW affected \in SUBSET Targets(formulas), NEW before, DOMAIN before \cap affected = {},
           NEW unavailable, NEW start,
           start = [environment |-> With(before, environment), cells |-> before, unavailable |-> unavailable]
    PROVE  LET cells == Run(formulas, affected, start).cells IN
           /\ \A x : x \notin affected => Same(cells, before, x)
           /\ \A t \in affected : RightAt(formulas, With(cells, environment), cells, t)
  <1> DEFINE runs == Runs(formulas, affected, start)
             order == Order(formulas)
             G == {n \in Nat : n <= Len(order) =>
                      RunSoFar(formulas, environment, affected, before, runs[n], n)}
  <1>1. runs[0] = start /\ \A n \in Nat : runs[n + 1] = Turn(formulas, affected, runs[n], order[n + 1])
    BY RunsIs
  <1>2. Len(order) \in Nat /\ DOMAIN order = 1 .. Len(order) /\ ToSet(order) = Targets(formulas)
    BY OrderIs, LenProperties
  <1>3. Run(formulas, affected, start) = runs[Len(order)]
    BY DEF Run
  <1> HIDE DEF runs
  <1>4. RunSoFar(formulas, environment, affected, before, start, 0)
    <2>1. 1 .. 0 = {}
      OBVIOUS
    <2>2. /\ start.environment = With(before, environment) /\ start.cells = before
          /\ start.unavailable = unavailable
      OBVIOUS
    <2>3. start = [environment |-> With(start.cells, environment), cells |-> start.cells,
                   unavailable |-> start.unavailable]
      BY <2>2
    <2>4. \A x : Same(start.cells, before, x)
      BY <2>2 DEF Same
    <2>5. QED
      BY <2>1, <2>3, <2>4 DEF RunSoFar
  <1>5. 0 \in G
    BY <1>1, <1>4
  <1>6. ASSUME NEW n \in Nat, n \in G
        PROVE  n + 1 \in G
    <2>1. SUFFICES ASSUME n + 1 <= Len(order)
                   PROVE  RunSoFar(formulas, environment, affected, before, runs[n + 1], n + 1)
      OBVIOUS
    <2> DEFINE run == runs[n]
    <2>2. RunSoFar(formulas, environment, affected, before, run, n)
      BY <1>2, <1>6, <2>1
    <2>3. n + 1 \in DOMAIN Order(formulas)
      BY <1>2, <2>1
    <2>4. runs[n + 1] = Turn(formulas, affected, run, Order(formulas)[n + 1])
      BY <1>1
    <2> HIDE DEF run
    <2>5. QED
      BY <2>2, <2>3, <2>4, TurnKeeps
  <1> HIDE DEF G
  <1>7. Len(order) \in G
    BY <1>2, <1>5, <1>6, Induction
  <1> DEFINE last == Run(formulas, affected, start)
  <1>8. RunSoFar(formulas, environment, affected, before, last, Len(order))
    BY <1>2, <1>3, <1>7 DEF G
  <1> HIDE DEF last
  <1>9. last.environment = With(last.cells, environment)
    BY <1>8 DEF RunSoFar
  <1>10. \A x : x \notin affected => Same(last.cells, before, x)
    BY <1>8 DEF RunSoFar
  <1>11. ASSUME NEW t \in affected
         PROVE  RightAt(formulas, With(last.cells, environment), last.cells, t)
    <2>1. PICK i \in 1 .. Len(order) : order[i] = t
      BY <1>2 DEF ToSet
    <2>2. QED
      BY <1>8, <1>9, <2>1 DEF RunSoFar
  <1>12. QED
    BY <1>10, <1>11 DEF last

Supplied(environment) == environment = [x \in DOMAIN environment |-> environment[x]]

\* A full calculation is right.
LEMMA CalculateIs ==
    ASSUME NEW formulas, Sound(formulas), NoLoops(formulas), NEW environment, Supplied(environment)
    PROVE  LET cells == Calculate(formulas, environment).cells IN
           DOMAIN cells \subseteq Targets(formulas) /\ Right(formulas, environment, cells)
  <1> DEFINE start == [environment |-> environment, cells |-> Nothing, unavailable |-> {}]
             cells == Run(formulas, Targets(formulas), start).cells
  <1>1. Calculate(formulas, environment).cells = cells
    BY DEF Calculate, ModelOf
  <1>2. DOMAIN Nothing = {}
    BY DEF Nothing
  <1>3. With(Nothing, environment) = environment
    <2>1. With(Nothing, environment) = [x \in DOMAIN environment |-> environment[x]]
      BY <1>2 DEF With
    <2>2. QED
      BY <2>1 DEF Supplied
  <1>4. start = [environment |-> With(Nothing, environment), cells |-> Nothing, unavailable |-> {}]
    BY <1>3
  <1> HIDE DEF start
  <1>5. /\ \A x : x \notin Targets(formulas) => Same(cells, Nothing, x)
        /\ \A t \in Targets(formulas) : RightAt(formulas, With(cells, environment), cells, t)
    BY <1>2, <1>4, RunRight
  <1> HIDE DEF cells
  <1>6. DOMAIN cells \subseteq Targets(formulas)
    BY <1>2, <1>5 DEF Same
  <1>7. QED
    BY <1>1, <1>5, <1>6, RightIs

\* A partial one is right where the one before it was, over what has not changed.
LEMMA RecalculateIs ==
    ASSUME NEW formulas, Sound(formulas), NoLoops(formulas), NEW environment, NEW former, NEW held, NEW changed,
           DOMAIN held.cells \subseteq Targets(formulas), Right(formulas, former, held.cells),
           \A x : x \notin changed => Same(former, environment, x)
    PROVE  LET cells == Recalculate(formulas, held, environment, changed).cells IN
           /\ DOMAIN cells \subseteq Targets(formulas)
           /\ Right(formulas, environment, cells)
           /\ \A x : x \notin Descendants(formulas, changed) => Same(cells, held.cells, x)
  <1> DEFINE affected == Descendants(formulas, changed)
             kept == Only(held.cells, Targets(formulas) \ affected)
             start == [environment |-> With(kept, environment), cells |-> kept,
                       unavailable |-> held.unavailable \ affected]
             cells == Run(formulas, affected, start).cells
  <1>1. Recalculate(formulas, held, environment, changed).cells = cells
    BY DEF Recalculate, ModelOf
  <1>2. affected \in SUBSET Targets(formulas) /\ Closed(formulas, changed, affected)
    BY DescendantsClosed
  <1>3. DOMAIN kept \cap affected = {}
    BY DEF Only
  <1>4. \A x : x \notin affected => Same(kept, held.cells, x)
    BY DEF Only, Same
  <1> HIDE DEF affected, kept
  <1>5. /\ \A x : x \notin affected => Same(cells, kept, x)
        /\ \A t \in affected : RightAt(formulas, With(cells, environment), cells, t)
    BY <1>2, <1>3, RunRight
  <1> HIDE DEF cells
  <1>6. \A x : x \notin affected => Same(cells, held.cells, x)
    BY <1>4, <1>5 DEF Same
  <1>7. DOMAIN cells \subseteq Targets(formulas)
    BY <1>2, <1>6 DEF Same
  <1>8. ASSUME NEW t \in Targets(formulas), t \notin affected
        PROVE  RightAt(formulas, With(cells, environment), cells, t)
    <2>1. Inputs(formulas[t]) \cap (changed \cup affected) = {}
      BY <1>2, <1>8 DEF Closed, DirectReaders
    <2>2. ASSUME NEW x \in Inputs(formulas[t])
          PROVE  Same(With(held.cells, former), With(cells, environment), x)
      <3>1. Same(former, environment, x) /\ Same(cells, held.cells, x)
        BY <1>6, <2>1
      <3>2. QED
        BY <3>1 DEF With, Same
    <2>3. RightAt(formulas, With(held.cells, former), held.cells, t)
      BY RightIs
    <2>4. Same(held.cells, cells, t)
      BY <1>6, <1>8 DEF Same
    <2>5. QED
      BY <2>2, <2>3, <2>4, SameRight
  <1>9. Right(formulas, environment, cells)
    BY <1>5, <1>8, RightIs
  <1>10. QED
    BY <1>1, <1>6, <1>7, <1>9 DEF affected

\* Without loops there is one way to be right.
LEMMA OneRight ==
    ASSUME NEW formulas, NoLoops(formulas), NEW environment, NEW c, NEW d,
           DOMAIN c \subseteq Targets(formulas), DOMAIN d \subseteq Targets(formulas),
           Right(formulas, environment, c), Right(formulas, environment, d)
    PROVE  \A x : Same(c, d, x)
  <1> DEFINE S == {t \in Targets(formulas) : ~ Same(c, d, t)}
  <1>1. SUFFICES ASSUME S # {} PROVE FALSE
    BY DEF Same
  <1>2. PICK t \in S : InnerInputs(formulas, t) \cap S = {}
    BY <1>1 DEF NoLoops
  <1>3. ASSUME NEW x \in Inputs(formulas[t])
        PROVE  Same(With(c, environment), With(d, environment), x)
    <2>1. Same(c, d, x)
      BY <1>2 DEF InnerInputs, Same
    <2>2. QED
      BY <2>1 DEF With, Same
  <1>4. /\ RightAt(formulas, With(c, environment), c, t)
        /\ RightAt(formulas, With(d, environment), d, t)
    BY <1>2, RightIs
  <1>5. /\ CanCompute(formulas[t], With(c, environment)) <=> CanCompute(formulas[t], With(d, environment))
        /\ CanCompute(formulas[t], With(c, environment)) =>
              Evaluate(formulas[t], With(c, environment)) = Evaluate(formulas[t], With(d, environment))
    BY <1>3, SameValue
  <1>6. Same(c, d, t)
    BY <1>4, <1>5 DEF RightAt, Same
  <1>7. QED
    BY <1>2, <1>6

-----------------------------------------------------------------------------
(* The specification *)

\* A loop-free chart has a model that is right over what it was calculated from.
ModelInv ==
    /\ chart \in Charts
    /\ model # NoModel =>
          /\ Cycles(Formulas) = {}
          /\ DOMAIN model.cells \subseteq Targets(Formulas)
          /\ Right(Formulas, basis, model.cells)

LEMMA FormulasSound ==
    ASSUME chart \in Charts
    PROVE  Sound(Formulas)
  <1>1. DOMAIN chart = Subtotals /\ DOMAIN Measures \subseteq ToSet(Alphabet)
    BY RecalculationAssumption
  <1>2. Subtotals \subseteq ToSet(Alphabet)
    BY FormulasAssumption
  <1>3. DOMAIN With(chart, Measures) = DOMAIN chart \cup DOMAIN Measures
    BY WithIs
  <1>4. QED
    BY <1>1, <1>2, <1>3 DEF Sound, Targets, Formulas

LEMMA EnvironmentSupplied == Supplied(Environment)
  BY DEF Supplied, Environment, Put, With

LEMMA PutSupplied ==
    ASSUME NEW f, NEW p, NEW v
    PROVE  Supplied(Put(f, p, v))
  BY DEF Supplied, Put, With

LEMMA OnlySame ==
    ASSUME NEW f, NEW g, NEW x
    PROVE  Only(f, {x}) = Only(g, {x}) <=> Same(f, g, x)
  <1>1. ASSUME Only(f, {x}) = Only(g, {x})
        PROVE  Same(f, g, x)
    <2>1. DOMAIN Only(f, {x}) = DOMAIN f \cap {x} /\ DOMAIN Only(g, {x}) = DOMAIN g \cap {x}
      BY DEF Only
    <2>2. x \in DOMAIN f => Only(f, {x})[x] = f[x]
      BY DEF Only
    <2>3. x \in DOMAIN g => Only(g, {x})[x] = g[x]
      BY DEF Only
    <2>4. QED
      BY <1>1, <2>1, <2>2, <2>3 DEF Same
  <1>2. ASSUME Same(f, g, x)
        PROVE  Only(f, {x}) = Only(g, {x})
    <2>1. DOMAIN f \cap {x} = DOMAIN g \cap {x} /\ \A y \in DOMAIN f \cap {x} : f[y] = g[y]
      BY <1>2 DEF Same
    <2>2. QED
      BY <2>1 DEF Only
  <1>3. QED
    BY <1>1, <1>2

LEMMA ChangedIs ==
    ASSUME NEW x, x \notin Changed
    PROVE  Same(basis, Environment, x)
  <1>1. CASE x \in DOMAIN Environment \cup DOMAIN basis
    <2>1. Only(Environment, {x}) = Only(basis, {x})
      BY <1>1 DEF Changed
    <2>2. QED
      BY <2>1, OnlySame DEF Same
  <1>2. CASE x \notin DOMAIN Environment \cup DOMAIN basis
    BY <1>2 DEF Same
  <1>3. QED
    BY <1>1, <1>2

LEMMA CalculateAllRight ==
    ASSUME chart \in Charts, CalculateAll
    PROVE  /\ DOMAIN model'.cells \subseteq Targets(Formulas)
           /\ Right(Formulas, basis', model'.cells)
  <1>1. Sound(Formulas) /\ NoLoops(Formulas)
    BY FormulasSound, CyclesAre DEF CalculateAll
  <1>2. model' = Calculate(Formulas, Environment) /\ basis' = Environment
    BY DEF CalculateAll
  <1>3. QED
    BY <1>1, <1>2, EnvironmentSupplied, CalculateIs

LEMMA RecalculateAfterRight ==
    ASSUME ModelInv, NEW more, RecalculateAfter(more)
    PROVE  /\ DOMAIN model'.cells \subseteq Targets(Formulas)
           /\ Right(Formulas, basis', model'.cells)
  <1>1. model # NoModel /\ chart \in Charts
    BY DEF RecalculateAfter, ModelInv
  <1>2. Sound(Formulas) /\ NoLoops(Formulas)
    BY <1>1, FormulasSound, CyclesAre DEF ModelInv
  <1>3. DOMAIN model.cells \subseteq Targets(Formulas) /\ Right(Formulas, basis, model.cells)
    BY <1>1 DEF ModelInv
  <1>4. \A x : x \notin Changed \cup more => Same(basis, Environment, x)
    BY ChangedIs
  <1>5. model' = Recalculate(Formulas, model, Environment, Changed \cup more) /\ basis' = Environment
    BY DEF RecalculateAfter
  <1>6. QED
    BY <1>2, <1>3, <1>4, <1>5, RecalculateIs

LEMMA ModelInvStep ==
    ASSUME ModelInv, [Next]_vars
    PROVE  ModelInv'
  <1>1. CASE CalculateAll
    <2>1. chart' = chart /\ Formulas' = Formulas /\ Cycles(Formulas) = {}
      BY <1>1 DEF CalculateAll, Formulas
    <2>2. DOMAIN model'.cells \subseteq Targets(Formulas) /\ Right(Formulas, basis', model'.cells)
      BY <1>1, CalculateAllRight DEF ModelInv
    <2>3. QED
      BY <2>1, <2>2 DEF ModelInv
  <1>2. ASSUME NEW more, RecalculateAfter(more)
        PROVE  ModelInv'
    <2>1. chart' = chart /\ Formulas' = Formulas /\ Cycles(Formulas) = {}
      BY <1>2 DEF RecalculateAfter, Formulas, ModelInv
    <2>2. DOMAIN model'.cells \subseteq Targets(Formulas) /\ Right(Formulas, basis', model'.cells)
      BY <1>2, RecalculateAfterRight
    <2>3. QED
      BY <2>1, <2>2 DEF ModelInv
  <1>3. CASE UNCHANGED <<chart, model, basis>>
    BY <1>3 DEF ModelInv, Formulas, NoModel
  <1>4. QED
    BY <1>1, <1>2, <1>3 DEF Next, vars, MapLine, SetRate, PreviewRate

\* Every model is right over what it was calculated from, and there is none of
\* formulas with a loop.
THEOREM ModelInvariant == Spec => []ModelInv
  <1>1. Init => ModelInv
    BY DEF Init, ModelInv
  <1>2. QED
    BY <1>1, ModelInvStep, PTL DEF Spec

\* A set of formulas is refused before anything is calculated exactly if some
\* target reads itself through others, although the walk goes down to each
\* target once; what is not refused has an order with every target, after what
\* it reads.
THEOREM LoopsRefused == Spec => []RefusesExactlyLoops
  <1>1. ASSUME ModelInv
        PROVE  RefusesExactlyLoops
    <2> DEFINE loops == {t \in Targets(Formulas) : t \in Descendants(Formulas, {t})}
               order == Order(Formulas)
    <2>1. Sound(Formulas)
      BY <1>1, FormulasSound DEF ModelInv
    <2>2. Looped(Formulas) <=> loops # {}
      BY DEF Looped
    <2>3. Cycles(Formulas) = {} <=> loops = {}
      BY <2>1, <2>2, CyclesAre, NothingLooped
    <2>4. ASSUME loops = {}
          PROVE  /\ ToSet(order) = Targets(Formulas)
                 /\ \A i, j \in DOMAIN order :
                       order[j] \in InnerInputs(Formulas, order[i]) => j < i
      <3>1. NoLoops(Formulas)
        BY <2>1, <2>3, <2>4, CyclesAre
      <3>2. /\ ToSet(order) = Targets(Formulas)
            /\ \A i, j \in DOMAIN order : order[i] = order[j] => i = j
            /\ \A i \in DOMAIN order : \A x \in InnerInputs(Formulas, order[i]) :
                  \E j \in DOMAIN order : j < i /\ order[j] = x
        BY <2>1, <3>1, OrderIs
      <3> HIDE DEF order
      <3>3. QED
        BY <3>2
    <2>5. QED
      BY <2>3, <2>4 DEF RefusesExactlyLoops
  <1>2. QED
    BY <1>1, ModelInvariant, PTL

\* The promise is the same where it is made.
LEMMA FullTotal ==
    ASSUME NEW f, NEW S
    PROVE  Full!Total(f, S) = Total(f, S)
  BY DEF Full!Total, Full!FoldFunction, Full!FoldFunctionOnSet, Full!MapThenFoldSet,
         Total, FoldFunction, FoldFunctionOnSet, MapThenFoldSet

LEMMA FullRight ==
    ASSUME NEW formulas, NEW environment, NEW cells
    PROVE  Full!Right(formulas, environment, cells) <=> Right(formulas, environment, cells)
  <1>1. \A f, g : Full!With(f, g) = With(f, g)
    BY DEF Full!With, With
  <1>2. \A formula, f : Full!CanCompute(formula, f) <=> CanCompute(formula, f)
    BY DEF Full!CanCompute, CanCompute, Full!Inputs, Inputs
  <1>3. \A formula, f : Full!Evaluate(formula, f) = Evaluate(formula, f)
    BY FullTotal DEF Full!Evaluate, Evaluate
  <1>4. Full!Targets(formulas) = Targets(formulas)
    BY DEF Full!Targets, Targets
  <1>5. QED
    BY <1>1, <1>2, <1>3, <1>4 DEF Full!Right, Right

\* A partial recalculation is a full one, however many are made one upon the
\* other: the cells always implement what a calculation promises.
THEOREM PartialIsFull == Spec => EveryModelIsAFullOne
  <1>1. Init => Full!Init
    BY DEF Init, Full!Init, NoModel, Nothing, Full!Nothing
  <1>2. ASSUME ModelInv, [Next]_vars
        PROVE  [Full!Next]_<<Formulas, basis, model.cells>>
    <2>1. CASE CalculateAll
      <3>1. Formulas' = Formulas
        BY <2>1 DEF CalculateAll, Formulas
      <3>2. Right(Formulas', basis', model'.cells)
        BY <1>2, <2>1, <3>1, CalculateAllRight DEF ModelInv
      <3>3. QED
        BY <3>1, <3>2, FullRight DEF Full!Next
    <2>2. ASSUME NEW more, RecalculateAfter(more)
          PROVE  [Full!Next]_<<Formulas, basis, model.cells>>
      <3>1. Formulas' = Formulas
        BY <2>2 DEF RecalculateAfter, Formulas
      <3>2. Right(Formulas', basis', model'.cells)
        BY <1>2, <2>2, <3>1, RecalculateAfterRight
      <3>3. QED
        BY <3>1, <3>2, FullRight DEF Full!Next
    <2>3. CASE UNCHANGED <<chart, model, basis>>
      BY <2>3 DEF Formulas
    <2>4. QED
      BY <1>2, <2>1, <2>2, <2>3 DEF Next, vars, MapLine, SetRate, PreviewRate
  <1>3. QED
    BY <1>1, <1>2, ModelInvariant, PTL DEF Spec, EveryModelIsAFullOne, Full!Spec

\* What is moved on a copy, looked for among the descendants of the driver, is
\* what two full calculations differ in.
LEMMA MovedIs ==
    ASSUME NEW formulas, Sound(formulas), NoLoops(formulas), NEW environment, Supplied(environment),
           NEW code, NEW proposed
    PROVE  LET before == Calculate(formulas, environment).cells
               after == Calculate(formulas, Put(environment, code, proposed)).cells
           IN  Moved(formulas, environment, code, proposed) =
                   {<<t, Only(before, {t}), Only(after, {t})>> :
                       t \in {u \in Targets(formulas) : Only(before, {u}) # Only(after, {u})}}
  <1> DEFINE changed == Put(environment, code, proposed)
             first == Calculate(formulas, environment)
             before == first.cells
             after == Calculate(formulas, changed).cells
             copy == Recalculate(formulas, first, changed, {code}).cells
             reached == Descendants(formulas, {code})
  <1>1. DOMAIN before \subseteq Targets(formulas) /\ Right(formulas, environment, before)
    BY CalculateIs
  <1>2. DOMAIN after \subseteq Targets(formulas) /\ Right(formulas, changed, after)
    BY PutSupplied, CalculateIs
  <1>3. \A x : x \notin {code} => Same(environment, changed, x)
    BY DEF Put, With, Same
  <1> HIDE DEF changed
  <1>4. /\ DOMAIN copy \subseteq Targets(formulas)
        /\ Right(formulas, changed, copy)
        /\ \A x : x \notin reached => Same(copy, before, x)
    <2> HIDE DEF first
    <2>1. QED
      BY <1>1, <1>3, RecalculateIs
  <1>5. Moved(formulas, environment, code, proposed) =
            {<<t, Only(before, {t}), Only(copy, {t})>> :
                t \in {u \in reached : Only(before, {u}) # Only(copy, {u})}}
    BY DEF Moved, changed
  <1>6. reached \subseteq Targets(formulas)
    BY DescendantsClosed
  <1> HIDE DEF first, after, copy, reached
  <1>7. \A x : Same(copy, after, x)
    BY <1>2, <1>4, OneRight
  <1>8. \A x : Only(copy, {x}) = Only(after, {x})
    BY <1>7, OnlySame
  <1>9. \A x : x \notin reached => Only(before, {x}) = Only(after, {x})
    <2>1. \A x : x \notin reached => Only(before, {x}) = Only(copy, {x})
      BY <1>4, OnlySame
    <2>2. QED
      BY <1>8, <2>1
  <1>10. {u \in reached : Only(before, {u}) # Only(copy, {u})} =
         {u \in Targets(formulas) : Only(before, {u}) # Only(after, {u})}
    BY <1>6, <1>8, <1>9
  <1>11. QED
    BY <1>5, <1>8, <1>10 DEF first, after, changed

\* The previewed impact is the difference of two full calculations of the
\* present inputs, the driver as it is and as proposed, for as long as it is shown.
THEOREM PreviewsAreWhatSavingDoes == Spec => []PreviewIsWhatSavingDoes
  <1>1. Init => PreviewIsWhatSavingDoes
    BY DEF Init, PreviewIsWhatSavingDoes, NoPreview
  <1>2. ASSUME ModelInv, PreviewIsWhatSavingDoes, [Next]_vars
        PROVE  PreviewIsWhatSavingDoes'
    <2>1. ASSUME NEW r, PreviewRate(r)
          PROVE  PreviewIsWhatSavingDoes'
      <3>1. Sound(Formulas) /\ NoLoops(Formulas)
        BY <1>2, <2>1, FormulasSound, CyclesAre DEF ModelInv, PreviewRate
      <3>2. Formulas' = Formulas /\ Environment' = Environment
        BY <2>1 DEF PreviewRate, Formulas, Environment, Lines
      <3>3. preview'.proposed = {r} /\ preview'.moved = Moved(Formulas, Environment, Driver, r)
        BY <2>1 DEF PreviewRate
      <3> DEFINE e == Environment
                 f == Formulas
                 before == Calculate(f, e).cells
                 after == Calculate(f, Put(e, Driver, r)).cells
      <3>4. Moved(f, e, Driver, r) =
               {<<t, Only(before, {t}), Only(after, {t})>> :
                   t \in {u \in Targets(f) : Only(before, {u}) # Only(after, {u})}}
        <4> HIDE DEF e, f
        <4>1. Sound(f) /\ NoLoops(f) /\ Supplied(e)
          BY <3>1, EnvironmentSupplied DEF e, f
        <4>2. \A code, proposed : Moved(f, e, code, proposed) =
                 {<<t, Only(Calculate(f, e).cells, {t}), Only(Calculate(f, Put(e, code, proposed)).cells, {t})>> :
                     t \in {u \in Targets(f) : Only(Calculate(f, e).cells, {u})
                                             # Only(Calculate(f, Put(e, code, proposed)).cells, {u})}}
          BY <4>1, MovedIs
        <4>3. QED
          BY <4>2, Zenon
      <3>5. QED
        BY <3>2, <3>3, <3>4 DEF PreviewIsWhatSavingDoes
    <2>2. CASE preview' = NoPreview
      BY <2>2 DEF PreviewIsWhatSavingDoes, NoPreview
    <2>3. CASE UNCHANGED vars
      <3>1. Formulas' = Formulas /\ Lines' = Lines /\ preview' = preview
        BY <2>3 DEF vars, Formulas, Lines
      <3>2. Environment' = Environment
        BY <2>3, <3>1 DEF vars, Environment
      <3>3. QED
        BY <1>2, <3>1, <3>2 DEF PreviewIsWhatSavingDoes
    <2>4. QED
      BY <1>2, <2>1, <2>2, <2>3
         DEF Next, MapLine, SetRate, CalculateAll, RecalculateAfter
  <1>3. QED
    BY <1>1, <1>2, ModelInvariant, PTL DEF Spec

-----------------------------------------------------------------------------
(* What the statements derive *)

\* The first lines filled in, written down.
FillsUpTo(c, printed, g, n) ==
    /\ g[0] = printed
    /\ \A i \in Nat : i < n => g[i + 1] = Fill(c, g[i])

LEMMA FillsExists ==
    ASSUME NEW c, NEW printed
    PROVE  \A n \in Nat : \E g : FillsUpTo(c, printed, g, n)
  <1> DEFINE G == {n \in Nat : \E g : FillsUpTo(c, printed, g, n)}
  <1>1. 0 \in G
    <2>1. FillsUpTo(c, printed, [i \in Nat |-> printed], 0)
      BY DEF FillsUpTo
    <2>2. QED
      BY <2>1
  <1>2. ASSUME NEW n \in Nat, n \in G
        PROVE  n + 1 \in G
    <2>1. PICK g : FillsUpTo(c, printed, g, n)
      BY <1>2
    <2> DEFINE h == [i \in Nat |-> IF i <= n THEN g[i] ELSE Fill(c, g[n])]
    <2>2. h[0] = printed
      BY <2>1 DEF FillsUpTo
    <2>3. ASSUME NEW i \in Nat, i < n + 1
          PROVE  h[i + 1] = Fill(c, h[i])
      <3>1. CASE i < n
        BY <2>1, <3>1 DEF FillsUpTo
      <3>2. CASE i = n
        BY <3>2
      <3>3. QED
        BY <2>3, <3>1, <3>2
    <2> HIDE DEF h
    <2>4. FillsUpTo(c, printed, h, n + 1)
      BY <2>2, <2>3 DEF FillsUpTo
    <2>5. QED
      BY <2>4
  <1> HIDE DEF G
  <1>3. \A n \in Nat : n \in G
    BY <1>1, <1>2, Induction
  <1>4. QED
    BY <1>3 DEF G

LEMMA FillsAgree ==
    ASSUME NEW c, NEW printed, NEW g, NEW h, NEW n \in Nat, NEW m \in Nat,
           FillsUpTo(c, printed, g, n), FillsUpTo(c, printed, h, m)
    PROVE  \A i \in Nat : i <= n /\ i <= m => g[i] = h[i]
  <1> DEFINE G == {i \in Nat : i <= n /\ i <= m => g[i] = h[i]}
  <1>1. 0 \in G
    BY DEF FillsUpTo
  <1>2. ASSUME NEW i \in Nat, i \in G
        PROVE  i + 1 \in G
    <2>1. CASE i + 1 <= n /\ i + 1 <= m
      <3>1. g[i] = h[i] /\ i < n /\ i < m
        BY <1>2, <2>1
      <3>2. g[i + 1] = Fill(c, g[i]) /\ h[i + 1] = Fill(c, h[i])
        BY <3>1 DEF FillsUpTo
      <3>3. QED
        BY <3>1, <3>2
    <2>2. QED
      BY <2>1
  <1> HIDE DEF G
  <1>3. \A i \in Nat : i \in G
    BY <1>1, <1>2, Induction
  <1>4. QED
    BY <1>3 DEF G

\* The lines are filled in one at a time.
LEMMA FillsIs ==
    ASSUME NEW c, NEW printed
    PROVE  /\ Fills(c, printed)[0] = printed
           /\ \A n \in Nat : Fills(c, printed)[n + 1] = Fill(c, Fills(c, printed)[n])
  <1> DEFINE upTo(n) == CHOOSE g : FillsUpTo(c, printed, g, n)
             f == [n \in Nat |-> upTo(n)[n]]
  <1>1. \A n \in Nat : FillsUpTo(c, printed, upTo(n), n)
    BY FillsExists
  <1> HIDE DEF upTo
  <1>2. f[0] = printed
    BY <1>1 DEF FillsUpTo
  <1>3. ASSUME NEW n \in Nat
        PROVE  f[n + 1] = Fill(c, f[n])
    <2>1. FillsUpTo(c, printed, upTo(n), n) /\ FillsUpTo(c, printed, upTo(n + 1), n + 1)
      BY <1>1
    <2>2. upTo(n)[n] = upTo(n + 1)[n]
      BY <2>1, FillsAgree
    <2>3. upTo(n + 1)[n + 1] = Fill(c, upTo(n + 1)[n])
      BY <2>1 DEF FillsUpTo
    <2>4. QED
      BY <2>2, <2>3
  <1>4. f = [n \in Nat |-> IF n = 0 THEN printed ELSE Fill(c, f[n - 1])]
    <2>1. ASSUME NEW n \in Nat
          PROVE  f[n] = IF n = 0 THEN printed ELSE Fill(c, f[n - 1])
      <3>1. CASE n # 0
        <4>1. n - 1 \in Nat /\ (n - 1) + 1 = n
          BY <3>1
        <4> HIDE DEF f
        <4>2. QED
          BY <1>3, <3>1, <4>1
      <3>2. QED
        BY <1>2, <3>1
    <2>2. QED
      BY <2>1
  <1> HIDE DEF f
  <1>5. Fills(c, printed) = [n \in Nat |-> IF n = 0 THEN printed ELSE Fill(c, Fills(c, printed)[n - 1])]
    BY <1>4 DEF Fills
  <1> DEFINE r == Fills(c, printed)
  <1>6. r = [n \in Nat |-> IF n = 0 THEN printed ELSE Fill(c, r[n - 1])]
    BY <1>5
  <1> HIDE DEF r
  <1>7. r[0] = printed /\ \A n \in Nat : r[n + 1] = Fill(c, r[n])
    BY <1>6
  <1>8. QED
    BY <1>7 DEF r

\* What the assumption says of one chart.
LEMMA ChartIs ==
    ASSUME NEW c \in Charts
    PROVE  /\ DOMAIN c = Subtotals /\ Sound(c)
           /\ DOMAIN c \cap Optional = {}
           /\ \A t \in DOMAIN c : Inputs(c[t]) = Terms(c[t]) /\ c[t].op = "none" /\ Terms(c[t]) # {}
  BY RecalculationAssumption, FormulasAssumption DEF Sound, Targets, Inputs, Terms

\* A line that is filled in is not among the terms of one that was derived
\* before it, or could have been.
LEMMA DerivesKept ==
    ASSUME NEW formula, NEW lines, NEW t, t \notin DOMAIN lines, t \notin Optional, NEW v,
           Derives(formula, lines)
    PROVE  Derives(formula, Put(lines, t, v)) /\ Derived(formula, Put(lines, t, v)) = Derived(formula, lines)
  <1> DEFINE next == Put(lines, t, v)
  <1>1. /\ DOMAIN next = DOMAIN lines \cup {t}
        /\ \A x \in DOMAIN lines : next[x] = lines[x]
    BY DEF Put, With
  <1> HIDE DEF next
  <1>2. t \notin Terms(formula)
    BY DEF Derives
  <1>3. Derives(formula, next)
    BY <1>1 DEF Derives
  <1>4. /\ formula.plus \cap DOMAIN next = formula.plus \cap DOMAIN lines
        /\ formula.minus \cap DOMAIN next = formula.minus \cap DOMAIN lines
    BY <1>1, <1>2 DEF Terms
  <1>5. /\ Total(next, formula.plus \cap DOMAIN lines) = Total(lines, formula.plus \cap DOMAIN lines)
        /\ Total(next, formula.minus \cap DOMAIN lines) = Total(lines, formula.minus \cap DOMAIN lines)
    BY <1>1, SameTotal
  <1>6. Derived(formula, next) = Derived(formula, lines)
    BY <1>4, <1>5 DEF Derived
  <1>7. QED
    BY <1>3, <1>6 DEF next

\* What was printed, and subtotals that are what their terms give.
Filled(c, printed, lines) ==
    /\ \A x \in DOMAIN printed : x \in DOMAIN lines /\ lines[x] = printed[x]
    /\ DOMAIN lines \subseteq DOMAIN printed \cup DOMAIN c
    /\ \A t \in DOMAIN lines \ DOMAIN printed :
          Derives(c[t], lines) /\ lines[t] = Derived(c[t], lines)

LEMMA FillKeeps ==
    ASSUME NEW c \in Charts, NEW printed, NEW lines, Filled(c, printed, lines)
    PROVE  /\ Filled(c, printed, Fill(c, lines))
           /\ IF Derivable(c, lines) = {} THEN Fill(c, lines) = lines
              ELSE \E t \in DOMAIN c \ DOMAIN lines : DOMAIN Fill(c, lines) = DOMAIN lines \cup {t}
  <1>1. CASE Derivable(c, lines) = {}
    BY <1>1 DEF Fill
  <1>2. CASE Derivable(c, lines) # {}
    <2> DEFINE able == Derivable(c, lines)
               t == First(able)
               v == Derived(c[t], lines)
               next == Put(lines, t, v)
    <2>1. able \in SUBSET ToSet(Alphabet)
      BY ChartIs DEF Derivable, Sound, Targets
    <2>2. t \in able
      BY <1>2, <2>1, FirstIn
    <2>3. Fill(c, lines) = next
      BY <1>2 DEF Fill
    <2> HIDE DEF t
    <2>4. t \in DOMAIN c /\ t \notin DOMAIN lines /\ t \notin Optional /\ Derives(c[t], lines)
      BY <2>2, ChartIs DEF Derivable
    <2> HIDE DEF able
    <2>5. /\ DOMAIN next = DOMAIN lines \cup {t} /\ next[t] = v
          /\ \A x \in DOMAIN lines : next[x] = lines[x]
      BY <2>4 DEF Put, With
    <2>6. \A formula : Derives(formula, lines) =>
              Derives(formula, next) /\ Derived(formula, next) = Derived(formula, lines)
      BY <2>4, DerivesKept
    <2> HIDE DEF next
    <2>7. Derives(c[t], next) /\ next[t] = Derived(c[t], next)
      BY <2>4, <2>5, <2>6
    <2> HIDE DEF v
    <2>8. \A u \in DOMAIN next \ DOMAIN printed : Derives(c[u], next) /\ next[u] = Derived(c[u], next)
      <3>1. ASSUME NEW u \in DOMAIN lines \ DOMAIN printed
            PROVE  Derives(c[u], next) /\ next[u] = Derived(c[u], next)
        <4>1. Derives(c[u], lines) /\ lines[u] = Derived(c[u], lines)
          BY <3>1 DEF Filled
        <4>2. QED
          BY <2>5, <2>6, <4>1
      <3>2. QED
        BY <2>5, <2>7, <3>1
    <2>9. /\ \A x \in DOMAIN printed : x \in DOMAIN next /\ next[x] = printed[x]
          /\ DOMAIN next \subseteq DOMAIN printed \cup DOMAIN c
      BY <2>4, <2>5 DEF Filled
    <2>10. Filled(c, printed, next)
      BY <2>8, <2>9 DEF Filled
    <2>11. QED
      BY <1>2, <2>3, <2>4, <2>5, <2>10
  <1>3. QED
    BY <1>1, <1>2

\* Filling in comes to its end: nothing more can be derived.
LEMMA FillDerivableIs ==
    ASSUME NEW c \in Charts, NEW printed
    PROVE  /\ Filled(c, printed, FillDerivable(c, printed))
           /\ Derivable(c, FillDerivable(c, printed)) = {}
  <1> DEFINE N == Cardinality(DOMAIN c)
             lines == Fills(c, printed)
             known(n) == DOMAIN c \cap DOMAIN lines[n]
             G == {n \in Nat : /\ Filled(c, printed, lines[n])
                               /\ n <= Cardinality(known(n)) \/ Derivable(c, lines[n]) = {}}
  <1>1. lines[0] = printed /\ \A n \in Nat : lines[n + 1] = Fill(c, lines[n])
    BY FillsIs
  <1>2. IsFiniteSet(DOMAIN c) /\ N \in Nat
    BY ChartIs, TargetsFinite DEF Targets
  <1>3. FillDerivable(c, printed) = lines[N]
    BY DEF FillDerivable
  <1> HIDE DEF lines
  <1>4. \A n \in Nat : IsFiniteSet(known(n)) /\ Cardinality(known(n)) \in Nat /\ Cardinality(known(n)) <= N
    BY <1>2, FS_Subset, FS_CardinalityType
  <1>5. 0 \in G
    <2>1. Filled(c, printed, printed)
      BY DEF Filled
    <2>2. 0 <= Cardinality(known(0))
      BY <1>4
    <2>3. QED
      BY <1>1, <2>1, <2>2
  <1>6. ASSUME NEW n \in Nat, n \in G
        PROVE  n + 1 \in G
    <2> DEFINE here == lines[n]
               there == lines[n + 1]
    <2>1. Filled(c, printed, here) /\ (n <= Cardinality(known(n)) \/ Derivable(c, here) = {})
      BY <1>6
    <2>2. there = Fill(c, here)
      BY <1>1
    <2> HIDE DEF here, there
    <2>3. Filled(c, printed, there)
      BY <2>1, <2>2, FillKeeps
    <2>4. CASE Derivable(c, here) = {}
      <3>1. there = here
        BY <2>1, <2>2, <2>4, FillKeeps
      <3>2. QED
        BY <2>3, <2>4, <3>1 DEF here, there
    <2>5. CASE Derivable(c, here) # {}
      <3>1. PICK t \in DOMAIN c \ DOMAIN here : DOMAIN there = DOMAIN here \cup {t}
        <4>1. IF Derivable(c, here) = {} THEN Fill(c, here) = here
              ELSE \E t \in DOMAIN c \ DOMAIN here : DOMAIN Fill(c, here) = DOMAIN here \cup {t}
          BY <2>1, FillKeeps
        <4>2. QED
          BY <2>2, <2>5, <4>1
      <3>2. known(n + 1) = known(n) \cup {t} /\ t \notin known(n)
        BY <3>1 DEF here, there
      <3>3. Cardinality(known(n + 1)) = Cardinality(known(n)) + 1
        <4> HIDE DEF known
        <4>1. QED
          BY <1>4, <3>2, FS_AddElement
      <3>4. n <= Cardinality(known(n)) /\ Cardinality(known(n)) \in Nat
        BY <1>4, <2>1, <2>5
      <3>5. n + 1 <= Cardinality(known(n + 1))
        <4> HIDE DEF known
        <4>1. QED
          BY <3>3, <3>4
      <3>6. QED
        BY <2>3, <3>5 DEF there
    <2>6. QED
      BY <2>4, <2>5
  <1> HIDE DEF G
  <1>7. N \in G
    BY <1>2, <1>5, <1>6, Induction
  <1>8. ASSUME N <= Cardinality(known(N))
        PROVE  Derivable(c, lines[N]) = {}
    <2>1. Cardinality(known(N)) = N
      <3> HIDE DEF known
      <3>1. QED
        BY <1>2, <1>4, <1>8
    <2>2. known(N) = DOMAIN c
      BY <1>2, <2>1, FS_Subset
    <2>3. QED
      BY <2>2 DEF Derivable
  <1>9. QED
    BY <1>3, <1>7, <1>8 DEF G

-----------------------------------------------------------------------------
(* What the formulas are fed with *)

\* The first references supplied, written down.
SuppliesUpTo(c, inputs, g, n) ==
    /\ g[0] = inputs
    /\ \A i \in Nat : i < n => g[i + 1] = Supply(c, g[i], Alphabet[i + 1])

LEMMA SuppliesExists ==
    ASSUME NEW c, NEW inputs
    PROVE  \A n \in Nat : \E g : SuppliesUpTo(c, inputs, g, n)
  <1> DEFINE G == {n \in Nat : \E g : SuppliesUpTo(c, inputs, g, n)}
  <1>1. 0 \in G
    <2>1. SuppliesUpTo(c, inputs, [i \in Nat |-> inputs], 0)
      BY DEF SuppliesUpTo
    <2>2. QED
      BY <2>1
  <1>2. ASSUME NEW n \in Nat, n \in G
        PROVE  n + 1 \in G
    <2>1. PICK g : SuppliesUpTo(c, inputs, g, n)
      BY <1>2
    <2> DEFINE h == [i \in Nat |-> IF i <= n THEN g[i] ELSE Supply(c, g[n], Alphabet[n + 1])]
    <2>2. h[0] = inputs
      BY <2>1 DEF SuppliesUpTo
    <2>3. ASSUME NEW i \in Nat, i < n + 1
          PROVE  h[i + 1] = Supply(c, h[i], Alphabet[i + 1])
      <3>1. CASE i < n
        BY <2>1, <3>1 DEF SuppliesUpTo
      <3>2. CASE i = n
        BY <3>2
      <3>3. QED
        BY <2>3, <3>1, <3>2
    <2> HIDE DEF h
    <2>4. SuppliesUpTo(c, inputs, h, n + 1)
      BY <2>2, <2>3 DEF SuppliesUpTo
    <2>5. QED
      BY <2>4
  <1> HIDE DEF G
  <1>3. \A n \in Nat : n \in G
    BY <1>1, <1>2, Induction
  <1>4. QED
    BY <1>3 DEF G

LEMMA SuppliesAgree ==
    ASSUME NEW c, NEW inputs, NEW g, NEW h, NEW n \in Nat, NEW m \in Nat,
           SuppliesUpTo(c, inputs, g, n), SuppliesUpTo(c, inputs, h, m)
    PROVE  \A i \in Nat : i <= n /\ i <= m => g[i] = h[i]
  <1> DEFINE G == {i \in Nat : i <= n /\ i <= m => g[i] = h[i]}
  <1>1. 0 \in G
    BY DEF SuppliesUpTo
  <1>2. ASSUME NEW i \in Nat, i \in G
        PROVE  i + 1 \in G
    <2>1. CASE i + 1 <= n /\ i + 1 <= m
      <3>1. g[i] = h[i] /\ i < n /\ i < m
        BY <1>2, <2>1
      <3>2. g[i + 1] = Supply(c, g[i], Alphabet[i + 1]) /\ h[i + 1] = Supply(c, h[i], Alphabet[i + 1])
        BY <3>1 DEF SuppliesUpTo
      <3>3. QED
        BY <3>1, <3>2
    <2>2. QED
      BY <2>1
  <1> HIDE DEF G
  <1>3. \A i \in Nat : i \in G
    BY <1>1, <1>2, Induction
  <1>4. QED
    BY <1>3 DEF G

\* The references are supplied one at a time.
LEMMA SuppliesIs ==
    ASSUME NEW c, NEW inputs
    PROVE  /\ Supplies(c, inputs)[0] = inputs
           /\ \A n \in Nat : Supplies(c, inputs)[n + 1] = Supply(c, Supplies(c, inputs)[n], Alphabet[n + 1])
  <1> DEFINE upTo(n) == CHOOSE g : SuppliesUpTo(c, inputs, g, n)
             f == [n \in Nat |-> upTo(n)[n]]
  <1>1. \A n \in Nat : SuppliesUpTo(c, inputs, upTo(n), n)
    BY SuppliesExists
  <1> HIDE DEF upTo
  <1>2. f[0] = inputs
    BY <1>1 DEF SuppliesUpTo
  <1>3. ASSUME NEW n \in Nat
        PROVE  f[n + 1] = Supply(c, f[n], Alphabet[n + 1])
    <2>1. SuppliesUpTo(c, inputs, upTo(n), n) /\ SuppliesUpTo(c, inputs, upTo(n + 1), n + 1)
      BY <1>1
    <2>2. upTo(n)[n] = upTo(n + 1)[n]
      BY <2>1, SuppliesAgree
    <2>3. upTo(n + 1)[n + 1] = Supply(c, upTo(n + 1)[n], Alphabet[n + 1])
      BY <2>1 DEF SuppliesUpTo
    <2>4. QED
      BY <2>2, <2>3
  <1>4. f = [n \in Nat |-> IF n = 0 THEN inputs ELSE Supply(c, f[n - 1], Alphabet[n])]
    <2>1. ASSUME NEW n \in Nat
          PROVE  f[n] = IF n = 0 THEN inputs ELSE Supply(c, f[n - 1], Alphabet[n])
      <3>1. CASE n # 0
        <4>1. n - 1 \in Nat /\ (n - 1) + 1 = n
          BY <3>1
        <4> HIDE DEF f
        <4>2. QED
          BY <1>3, <3>1, <4>1
      <3>2. QED
        BY <1>2, <3>1
    <2>2. QED
      BY <2>1
  <1> HIDE DEF f
  <1>5. Supplies(c, inputs) =
            [n \in Nat |->
               IF n = 0 THEN inputs ELSE Supply(c, Supplies(c, inputs)[n - 1], Alphabet[n])]
    BY <1>4 DEF Supplies
  <1> DEFINE r == Supplies(c, inputs)
  <1>6. r = [n \in Nat |-> IF n = 0 THEN inputs ELSE Supply(c, r[n - 1], Alphabet[n])]
    BY <1>5
  <1> HIDE DEF r
  <1>7. r[0] = inputs /\ \A n \in Nat : r[n + 1] = Supply(c, r[n], Alphabet[n + 1])
    BY <1>6
  <1>8. QED
    BY <1>7 DEF r

\* At most one member of a set is two.
LEMMA OneMember ==
    ASSUME NEW S, IsFiniteSet(S), Cardinality(S) <= 1, NEW x \in S, NEW y \in S
    PROVE  x = y
  <1> SUFFICES ASSUME x # y PROVE FALSE
    OBVIOUS
  <1>1. IsFiniteSet({x}) /\ Cardinality({x}) = 1
    BY FS_Singleton
  <1>2. Cardinality({x} \cup {y}) = Cardinality({x}) + 1
    BY <1>1, FS_AddElement
  <1>3. Cardinality({x} \cup {y}) <= Cardinality(S) /\ Cardinality(S) \in Nat
    BY FS_Subset, FS_CardinalityType
  <1>4. QED
    BY <1>1, <1>2, <1>3

\* An optional line is a term of one subtotal.
LEMMA OneSubtotal ==
    ASSUME NEW c \in Charts, NEW a \in Optional, NEW t \in DOMAIN c, NEW u \in DOMAIN c,
           a \in Terms(c[t]), a \in Terms(c[u])
    PROVE  t = u
  <1> DEFINE S == {s \in Subtotals : a \in Terms(c[s])}
  <1>1. Cardinality(S) <= 1
    BY RecalculationAssumption
  <1>2. S \subseteq Targets(c) /\ IsFiniteSet(Targets(c)) /\ t \in S /\ u \in S
    BY ChartIs, TargetsFinite DEF Targets
  <1>3. IsFiniteSet(S)
    BY <1>2, FS_Subset
  <1> HIDE DEF S
  <1>4. QED
    BY <1>1, <1>2, <1>3, OneMember

\* What was given, and nil for lines that may be left out of a subtotal of
\* which a term was given.
Fed(c, inputs, environment) ==
    /\ Supplied(environment)
    /\ \A x \in DOMAIN inputs : x \in DOMAIN environment /\ environment[x] = inputs[x]
    /\ \A x \in DOMAIN environment \ DOMAIN inputs :
          /\ x \in Optional /\ environment[x] = 0
          /\ \E t \in DOMAIN c : x \in Terms(c[t]) /\ Terms(c[t]) \cap DOMAIN inputs # {}

LEMMA SupplyKeeps ==
    ASSUME NEW c \in Charts, NEW inputs, NEW environment, Fed(c, inputs, environment), NEW a
    PROVE  Fed(c, inputs, Supply(c, environment, a))
  <1>1. CASE ~ (a \in Optional \ DOMAIN environment /\ SiblingPresent(c, a, environment))
    BY <1>1 DEF Supply
  <1>2. CASE a \in Optional \ DOMAIN environment /\ SiblingPresent(c, a, environment)
    <2> DEFINE next == Put(environment, a, 0)
    <2>1. Supply(c, environment, a) = next
      BY <1>2 DEF Supply
    <2>2. /\ DOMAIN next = DOMAIN environment \cup {a} /\ next[a] = 0
          /\ \A x \in DOMAIN environment : next[x] = environment[x]
      BY <1>2 DEF Put, With
    <2>3. Supplied(next)
      BY PutSupplied
    <2> HIDE DEF next
    <2>4. PICK t \in DOMAIN c : a \in Terms(c[t]) /\ (Terms(c[t]) \ {a}) \cap DOMAIN environment # {}
      BY <1>2 DEF SiblingPresent
    <2>5. PICK b \in Terms(c[t]) : b \in DOMAIN environment
      BY <2>4
    <2>6. Terms(c[t]) \cap DOMAIN inputs # {}
      <3>1. CASE b \notin DOMAIN inputs
        <4>1. PICK u \in DOMAIN c : b \in Terms(c[u]) /\ Terms(c[u]) \cap DOMAIN inputs # {}
          BY <2>5, <3>1 DEF Fed
        <4>2. b \in Optional
          BY <2>5, <3>1 DEF Fed
        <4>3. u = t
          BY <2>5, <4>1, <4>2, OneSubtotal
        <4>4. QED
          BY <4>1, <4>3
      <3>2. QED
        BY <2>5, <3>1
    <2>7. \A x \in DOMAIN inputs : x \in DOMAIN next /\ next[x] = inputs[x]
      BY <2>2 DEF Fed
    <2>8. \A x \in DOMAIN next \ DOMAIN inputs :
             /\ x \in Optional /\ next[x] = 0
             /\ \E s \in DOMAIN c : x \in Terms(c[s]) /\ Terms(c[s]) \cap DOMAIN inputs # {}
      <3>1. ASSUME NEW x \in DOMAIN environment \ DOMAIN inputs
            PROVE  /\ x \in Optional /\ next[x] = 0
                   /\ \E s \in DOMAIN c : x \in Terms(c[s]) /\ Terms(c[s]) \cap DOMAIN inputs # {}
        BY <2>2 DEF Fed
      <3>2. /\ a \in Optional /\ next[a] = 0
            /\ \E s \in DOMAIN c : a \in Terms(c[s]) /\ Terms(c[s]) \cap DOMAIN inputs # {}
        BY <1>2, <2>2, <2>4, <2>6
      <3>3. QED
        BY <2>2, <3>1, <3>2
    <2>9. QED
      BY <2>1, <2>3, <2>7, <2>8 DEF Fed
  <1>3. QED
    BY <1>1, <1>2

LEMMA LedgerEnvironmentIs ==
    ASSUME NEW c \in Charts, NEW printed
    PROVE  Fed(c, AsInputs(c, printed), LedgerEnvironment(c, printed))
  <1> DEFINE inputs == AsInputs(c, printed)
             fed == Supplies(c, inputs)
             G == {n \in Nat : Fed(c, inputs, fed[n])}
  <1>1. fed[0] = inputs /\ \A n \in Nat : fed[n + 1] = Supply(c, fed[n], Alphabet[n + 1])
    BY SuppliesIs
  <1>2. LedgerEnvironment(c, printed) = fed[Len(Alphabet)]
    BY DEF LedgerEnvironment
  <1>3. Supplied(inputs)
    BY DEF AsInputs, Only, Supplied
  <1> HIDE DEF fed, inputs
  <1>4. 0 \in G
    BY <1>1, <1>3 DEF Fed
  <1>5. ASSUME NEW n \in Nat, n \in G
        PROVE  n + 1 \in G
    BY <1>1, <1>5, SupplyKeeps
  <1>6. Len(Alphabet) \in Nat
    BY FormulasAssumption, LenProperties
  <1> HIDE DEF G
  <1>7. Len(Alphabet) \in G
    BY <1>4, <1>5, <1>6, Induction
  <1>8. QED
    BY <1>2, <1>7 DEF G, inputs

-----------------------------------------------------------------------------
(* Two ways to one figure *)

LEMMA SubsetNoLoops ==
    ASSUME NEW f, NEW g, NoLoops(g), DOMAIN f \subseteq DOMAIN g, \A t \in DOMAIN f : f[t] = g[t]
    PROVE  NoLoops(f)
  <1> SUFFICES ASSUME NEW S \in SUBSET DOMAIN f, S # {}
               PROVE  \E t \in S : InnerInputs(f, t) \cap S = {}
    BY DEF NoLoops, Targets
  <1>1. PICK t \in S : InnerInputs(g, t) \cap S = {}
    BY DEF NoLoops, Targets
  <1>2. InnerInputs(f, t) \subseteq InnerInputs(g, t)
    BY DEF InnerInputs, Targets
  <1>3. QED
    BY <1>1, <1>2

\* Whatever the formulas compute rests on a printed line: nil lines are
\* supplied only where a printed one is their sibling.
LEMMA ReportRests ==
    ASSUME NEW c \in Charts, NoLoops(c), NEW printed
    PROVE  DOMAIN Report(c, printed).cells \subseteq DOMAIN printed \cup Descendants(c, DOMAIN printed)
  <1> DEFINE cells == Report(c, printed).cells
             inputs == AsInputs(c, printed)
             environment == LedgerEnvironment(c, printed)
             F == ComputableSubset(c, environment)
             known == With(cells, environment)
             given == DOMAIN printed
             reached == Descendants(c, given)
             S == DOMAIN cells \ (given \cup reached)
  <1>1. Fed(c, inputs, environment)
    BY LedgerEnvironmentIs
  <1>2. DOMAIN F \subseteq DOMAIN c /\ \A t \in DOMAIN F : F[t] = c[t]
    BY DEF ComputableSubset, Targets
  <1>3. cells = Calculate(F, environment).cells
    BY DEF Report
  <1>4. DOMAIN inputs \subseteq given
    BY DEF AsInputs, Only
  <1>5. DirectReaders(c, given \cup reached) \subseteq reached
    BY ChartIs, DescendantsClosed DEF Closed
  <1> HIDE DEF cells, inputs, environment, F, given, reached
  <1>6. Sound(F) /\ NoLoops(F)
    BY <1>2, ChartIs, SubsetNoLoops DEF Sound, Targets
  <1>7. DOMAIN cells \subseteq DOMAIN F /\ Right(F, environment, cells)
    BY <1>1, <1>3, <1>6, CalculateIs DEF Fed, Targets
  <1>8. SUFFICES ASSUME S # {} PROVE FALSE
    BY DEF cells, given, reached
  <1>9. PICK t \in S : InnerInputs(F, t) \cap S = {}
    BY <1>6, <1>7, <1>8 DEF NoLoops, Targets
  <1>10. /\ t \in DOMAIN cells /\ t \in DOMAIN F /\ t \in DOMAIN c /\ F[t] = c[t] /\ t \notin reached
         /\ Inputs(c[t]) = Terms(c[t]) /\ Terms(c[t]) # {}
    BY <1>2, <1>7, <1>9, ChartIs
  <1>11. \A x \in Terms(c[t]) : x \in DOMAIN cells \/ x \in DOMAIN environment
    <2>1. CanCompute(c[t], known)
      BY <1>7, <1>10, RightIs DEF RightAt, Targets
    <2>2. DOMAIN known = DOMAIN cells \cup DOMAIN environment
      BY WithIs
    <2> HIDE DEF known
    <2>3. QED
      BY <1>10, <2>1, <2>2 DEF CanCompute
  <1>12. \A x \in Terms(c[t]) : x \notin given \cup reached
    BY <1>5, <1>10 DEF DirectReaders, Targets
  <1>13. PICK x \in Terms(c[t]) : TRUE
    BY <1>10
  <1>14. x \notin DOMAIN cells
    <2>1. x \in DOMAIN cells => x \in S /\ x \in InnerInputs(F, t)
      BY <1>7, <1>10, <1>12, <1>13 DEF InnerInputs, Targets
    <2>2. QED
      BY <1>9, <2>1
  <1>15. PICK u \in DOMAIN c : x \in Optional /\ x \in Terms(c[u]) /\ Terms(c[u]) \cap DOMAIN inputs # {}
    BY <1>1, <1>4, <1>11, <1>12, <1>13, <1>14 DEF Fed
  <1>16. u = t
    BY <1>10, <1>13, <1>15, OneSubtotal
  <1>17. QED
    BY <1>4, <1>12, <1>15, <1>16

\* One statement among those the formulas read: what is read from it, what it
\* carries over from another, and what rests on another.
OneOf(c, printed, local, own, carried, elsewhere) ==
    /\ DOMAIN printed \subseteq ToSet(Alphabet)
    /\ \A x \in own : /\ x \in DOMAIN printed <=> x \in DOMAIN local
                      /\ x \in DOMAIN local => local[x] = printed[x]
    /\ \A t \in DOMAIN c \ (carried \cup elsewhere) : \A x \in Terms(c[t]) \cap ToSet(Alphabet) :
          x \in own /\ x \notin elsewhere

\* What the formulas compute from it, the statement has.
LEMMA ReportAgrees ==
    ASSUME NEW c \in Charts, NoLoops(c), NEW printed, NEW local, NEW own, NEW carried, NEW elsewhere,
           OneOf(c, printed, local, own, carried, elsewhere),
           Discrepancies(c, local, FillDerivable(c, local)) = {},
           \A t \in carried \cap DOMAIN Report(c, printed).cells :
               SameFigure(Report(c, printed).cells, FillDerivable(c, local), t)
    PROVE  \A t \in DOMAIN Report(c, printed).cells \ (carried \cup elsewhere) :
               SameFigure(Report(c, printed).cells, FillDerivable(c, local), t)
  <1> DEFINE cells == Report(c, printed).cells
             lines == FillDerivable(c, local)
             inputs == AsInputs(c, printed)
             environment == LedgerEnvironment(c, printed)
             F == ComputableSubset(c, environment)
             known == With(cells, environment)
             Agrees(t) == t \in DOMAIN lines /\ lines[t] = cells[t]
             S == {t \in DOMAIN cells \ (carried \cup elsewhere) : ~ Agrees(t)}
  <1>1. Fed(c, inputs, environment)
    BY LedgerEnvironmentIs
  <1>2. Filled(c, local, lines) /\ Derivable(c, lines) = {}
    BY FillDerivableIs
  <1>3. DOMAIN F \subseteq DOMAIN c /\ \A t \in DOMAIN F : F[t] = c[t]
    BY DEF ComputableSubset, Targets
  <1>4. cells = Calculate(F, environment).cells
    BY DEF Report
  <1>5. \A t \in DOMAIN c \cap DOMAIN local :
           Derives(c[t], lines) => Derived(c[t], lines) = local[t]
    BY DEF Discrepancies
  <1>6. /\ DOMAIN inputs \subseteq DOMAIN printed
        /\ \A x \in DOMAIN inputs : inputs[x] = printed[x]
        /\ \A x \in DOMAIN printed \ DOMAIN inputs : x \in DOMAIN c
    BY DEF AsInputs, Only
  <1>7. \A t \in carried \cap DOMAIN cells : Agrees(t)
    BY DEF SameFigure
  <1> HIDE DEF cells, lines, inputs, environment, F
  <1>9. Sound(F) /\ NoLoops(F)
    BY <1>3, ChartIs, SubsetNoLoops DEF Sound, Targets
  <1>10. DOMAIN cells \subseteq DOMAIN F /\ Right(F, environment, cells)
    BY <1>1, <1>4, <1>9, CalculateIs DEF Fed, Targets
  <1>11. SUFFICES ASSUME S # {} PROVE FALSE
    BY DEF cells, lines, SameFigure
  <1>12. PICK t \in S : InnerInputs(F, t) \cap S = {}
    BY <1>9, <1>10, <1>11 DEF NoLoops, Targets
  <1>13. /\ t \in DOMAIN cells /\ t \in DOMAIN F /\ t \in DOMAIN c \ (carried \cup elsewhere) /\ F[t] = c[t]
         /\ Inputs(c[t]) = Terms(c[t]) /\ c[t].op = "none" /\ Terms(c[t]) # {}
    BY <1>3, <1>10, <1>12, ChartIs
  <1>14. CanCompute(c[t], known) /\ cells[t] = Evaluate(c[t], known)
    BY <1>10, <1>13, RightIs DEF RightAt, Targets
  <1>15. /\ DOMAIN known = DOMAIN cells \cup DOMAIN environment
         /\ \A x \in DOMAIN cells : known[x] = cells[x]
         /\ \A x \in DOMAIN environment \ DOMAIN cells : known[x] = environment[x]
    BY WithIs
  <1> HIDE DEF known
  <1>k. Terms(c[t]) \subseteq ToSet(Alphabet)
    <2>1. DOMAIN cells \subseteq ToSet(Alphabet)
      BY <1>9, <1>10 DEF Sound, Targets
    <2>2. DOMAIN environment \subseteq ToSet(Alphabet)
      BY <1>1, <1>6, FormulasAssumption DEF Fed, OneOf
    <2>3. QED
      BY <1>13, <1>14, <1>15, <2>1, <2>2 DEF CanCompute
  <1>o. \A x \in Terms(c[t]) :
           /\ x \in own /\ x \notin elsewhere
           /\ x \in DOMAIN printed <=> x \in DOMAIN local
           /\ x \in DOMAIN local => local[x] = printed[x]
    BY <1>13, <1>k DEF OneOf
  \* A term is one of the statement's lines, or a nil that none of them is.
  <1>16. \A x \in Terms(c[t]) :
            \/ x \in DOMAIN lines /\ lines[x] = known[x]
            \/ /\ x \notin DOMAIN lines /\ known[x] = 0 /\ x \in Optional
               /\ \E u \in DOMAIN c : x \in Terms(c[u]) /\ Terms(c[u]) \cap DOMAIN inputs # {}
    <2> TAKE x \in Terms(c[t])
    <2>1. x \in DOMAIN known
      BY <1>13, <1>14 DEF CanCompute
    <2>2. CASE x \in DOMAIN cells
      <3>1. x \in InnerInputs(F, t)
        BY <1>10, <1>13, <2>2 DEF InnerInputs, Targets
      <3>2. Agrees(x)
        BY <1>7, <1>12, <1>o, <2>2, <3>1
      <3>3. QED
        BY <1>15, <2>2, <3>2
    <2>3. CASE x \in DOMAIN inputs /\ x \notin DOMAIN cells
      <3>1. x \in DOMAIN printed /\ known[x] = printed[x]
        BY <1>1, <1>6, <1>15, <2>3 DEF Fed
      <3>2. x \in DOMAIN local /\ local[x] = known[x]
        BY <1>o, <3>1
      <3>3. QED
        BY <1>2, <3>2 DEF Filled
    <2>4. CASE x \notin DOMAIN inputs /\ x \notin DOMAIN cells
      <3>1. x \in DOMAIN environment \ DOMAIN inputs /\ known[x] = environment[x]
        BY <1>15, <2>1, <2>4
      <3>2. /\ x \in Optional /\ known[x] = 0
            /\ \E u \in DOMAIN c : x \in Terms(c[u]) /\ Terms(c[u]) \cap DOMAIN inputs # {}
        BY <1>1, <3>1 DEF Fed
      <3>3. x \notin DOMAIN c
        BY <3>2, ChartIs
      <3>4. x \notin DOMAIN local
        BY <1>6, <1>o, <2>4, <3>3
      <3>5. x \notin DOMAIN lines
        BY <1>2, <3>3, <3>4 DEF Filled
      <3>6. QED
        BY <3>2, <3>5
    <2>5. QED
      BY <2>2, <2>3, <2>4
  <1>17. PICK y \in Terms(c[t]) : y \in DOMAIN lines
    <2>1. PICK x \in Terms(c[t]) : TRUE
      BY <1>13
    <2>2. CASE x \notin DOMAIN lines
      <3>1. PICK u \in DOMAIN c : x \in Optional /\ x \in Terms(c[u]) /\ Terms(c[u]) \cap DOMAIN inputs # {}
        BY <1>16, <2>2
      <3>2. u = t
        BY <1>13, <3>1, OneSubtotal
      <3>3. PICK y \in Terms(c[t]) : y \in DOMAIN inputs
        BY <3>1, <3>2
      <3>4. y \in DOMAIN local
        BY <1>6, <1>o, <3>3
      <3>5. QED
        BY <1>2, <3>3, <3>4 DEF Filled
    <2>3. QED
      BY <2>2
  <1>18. Derives(c[t], lines)
    BY <1>16, <1>17 DEF Derives
  <1>19. cells[t] = Derived(c[t], lines)
    <2>1. ASSUME NEW P \in SUBSET Terms(c[t])
          PROVE  Total(known, P) = Total(lines, P \cap DOMAIN lines)
      <3> DEFINE A == [x \in {z \in P : known[z] # 0} |-> known[x]]
                 B == [x \in {z \in P \cap DOMAIN lines : lines[z] # 0} |-> lines[x]]
      <3>1. A = B
        BY <1>16
      <3>2. /\ Total(known, P) = FoldFunction(+, 0, A)
            /\ Total(lines, P \cap DOMAIN lines) = FoldFunction(+, 0, B)
        BY DEF Total
      <3> HIDE DEF A, B
      <3>3. QED
        BY <3>1, <3>2
    <2>2. c[t].plus \in SUBSET Terms(c[t]) /\ c[t].minus \in SUBSET Terms(c[t])
      BY DEF Terms
    <2>3. /\ Total(known, c[t].plus) = Total(lines, c[t].plus \cap DOMAIN lines)
          /\ Total(known, c[t].minus) = Total(lines, c[t].minus \cap DOMAIN lines)
      BY <2>1, <2>2
    <2>4. cells[t] = Total(known, c[t].plus) - Total(known, c[t].minus)
      BY <1>13, <1>14 DEF Evaluate
    <2>5. QED
      BY <2>3, <2>4 DEF Derived
  <1>20. t \in DOMAIN lines
    BY <1>2, <1>13, <1>18 DEF Derivable
  <1>21. lines[t] = cells[t]
    <2>1. CASE t \in DOMAIN local
      BY <1>2, <1>5, <1>13, <1>18, <1>19, <2>1 DEF Filled
    <2>2. CASE t \notin DOMAIN local
      BY <1>2, <1>19, <1>20, <2>2 DEF Filled
    <2>3. QED
      BY <2>1, <2>2
  <1>22. QED
    BY <1>12, <1>20, <1>21

\* What is read from a statement is what it prints.
LEMMA StatementIsOneOf ==
    ASSUME chart \in Charts, NEW s \in Statements
    PROVE  OneOf(chart, Lines, reported[s], ReadFrom(s), CarriedOver(s), RestElsewhere(s))
  <1> DEFINE cut == Only(chart, Subtotals \ CarriedOver(s))
             others == ToSet(Alphabet) \ ReadFrom(s)
             rest == Descendants(cut, others)
  <1>1. DOMAIN Lines \subseteq ToSet(Alphabet)
    BY RecalculationAssumption DEF Lines
  <1>2. \A x \in ReadFrom(s) : /\ x \in DOMAIN Lines <=> x \in DOMAIN reported[s]
                               /\ x \in DOMAIN reported[s] => Lines[x] = reported[s][x]
    BY DEF Lines, ReadFrom
  <1>3. DOMAIN chart = Subtotals
    BY ChartIs
  <1>4. DOMAIN cut = Subtotals \ CarriedOver(s) /\ \A t \in DOMAIN cut : cut[t] = chart[t]
    BY <1>3 DEF Only
  <1> HIDE DEF cut, others
  <1>5. Sound(cut)
    BY <1>4, FormulasAssumption DEF Sound, Targets
  <1>6. DirectReaders(cut, others \cup rest) \subseteq rest
    BY <1>5, DescendantsClosed DEF Closed
  <1>7. RestElsewhere(s) = rest
    BY DEF RestElsewhere, cut, others
  <1> HIDE DEF rest
  <1>8. ASSUME NEW t \in Subtotals \ (CarriedOver(s) \cup rest), NEW x \in Terms(chart[t]) \cap ToSet(Alphabet)
        PROVE  x \in ReadFrom(s) /\ x \notin rest
    <2>1. t \in DOMAIN cut /\ x \in Inputs(cut[t])
      BY <1>4 DEF Inputs, Terms
    <2>2. x \notin others \cup rest
      BY <1>6, <1>8, <2>1 DEF DirectReaders, Targets
    <2>3. QED
      BY <2>2 DEF others
  <1>9. QED
    BY <1>1, <1>2, <1>3, <1>7, <1>8 DEF OneOf

\* Where a statement's printed subtotals agree with their terms and what it
\* carries over is what was computed, what the formulas compute from it is
\* what it has: nil lines are supplied for the formulas and skipped by the
\* statements, and neither makes a figure of nothing.
THEOREM StatementsAgree == Spec => []FormulasAgreeWithStatements
  <1>1. ASSUME ModelInv
        PROVE  FormulasAgreeWithStatements
    <2> DEFINE cells == Report(chart, Lines).cells
               Even(s) == /\ Discrepancies(chart, reported[s], FillDerivable(chart, reported[s])) = {}
                          /\ \A t \in CarriedOver(s) \cap DOMAIN cells :
                                SameFigure(cells, FillDerivable(chart, reported[s]), t)
    <2> SUFFICES ASSUME Cycles(Formulas) = {}
                 PROVE  /\ DOMAIN cells \subseteq DOMAIN Lines \cup Descendants(chart, DOMAIN Lines)
                        /\ \A s \in Statements :
                              Even(s) => \A t \in DOMAIN cells \ (CarriedOver(s) \cup RestElsewhere(s)) :
                                            SameFigure(cells, FillDerivable(chart, reported[s]), t)
      BY DEF FormulasAgreeWithStatements
    <2>1. chart \in Charts
      BY <1>1 DEF ModelInv
    <2>2. NoLoops(Formulas)
      BY <2>1, FormulasSound, CyclesAre
    <2>3. DOMAIN chart \subseteq DOMAIN Formulas /\ \A t \in DOMAIN chart : chart[t] = Formulas[t]
      BY DEF Formulas, With
    <2>4. NoLoops(chart)
      BY <2>2, <2>3, SubsetNoLoops
    <2>5. DOMAIN cells \subseteq DOMAIN Lines \cup Descendants(chart, DOMAIN Lines)
      BY <2>1, <2>4, ReportRests
    <2>6. ASSUME NEW s \in Statements, Even(s)
          PROVE  \A t \in DOMAIN cells \ (CarriedOver(s) \cup RestElsewhere(s)) :
                    SameFigure(cells, FillDerivable(chart, reported[s]), t)
      <3>1. OneOf(chart, Lines, reported[s], ReadFrom(s), CarriedOver(s), RestElsewhere(s))
        BY <2>1, StatementIsOneOf
      <3> DEFINE printed == Lines
                 local == reported[s]
                 carried == CarriedOver(s)
                 elsewhere == RestElsewhere(s)
      <3>2. /\ Discrepancies(chart, local, FillDerivable(chart, local)) = {}
            /\ \A t \in carried \cap DOMAIN Report(chart, printed).cells :
                  SameFigure(Report(chart, printed).cells, FillDerivable(chart, local), t)
            /\ OneOf(chart, printed, local, ReadFrom(s), carried, elsewhere)
        BY <2>6, <3>1
      <3> HIDE DEF printed, local, carried, elsewhere
      <3>3. \A t \in DOMAIN Report(chart, printed).cells \ (carried \cup elsewhere) :
               SameFigure(Report(chart, printed).cells, FillDerivable(chart, local), t)
        BY <2>1, <2>4, <3>2, ReportAgrees
      <3>4. QED
        BY <3>3 DEF printed, local, carried, elsewhere
    <2>7. QED
      BY <2>5, <2>6
  <1>2. QED
    BY <1>1, ModelInvariant, PTL

==============================================================================
