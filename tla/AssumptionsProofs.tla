------------------------- MODULE AssumptionsProofs --------------------------
(***************************************************************************)
(* What the assumption register guarantees for every number of scenarios,  *)
(* drivers, years and people, whatever is required and measured.           *)
(***************************************************************************)
EXTENDS Assumptions, FiniteSetTheorems, WellFoundedInduction, TLAPS

-----------------------------------------------------------------------------
(* Lineages *)

\* The scenarios form a tree: everything but the base varies a scenario of the
\* set that does not, over any number of steps, vary it.
Tree(set) ==
    /\ set.parent \in [Held(set) -> Held(set) \cup {NoScenario}]
    /\ Held(set) \subseteq Scenarios /\ IsFiniteSet(Held(set))
    /\ Base \in Held(set)
    /\ \A s \in Held(set) : set.parent[s] = NoScenario <=> s = Base
    /\ \A s \in Held(set) \ {Base} : s \notin Lineage(set, set.parent[s])

LEMMA LineageIs ==
    ASSUME NEW set, Tree(set), NEW s \in Held(set)
    PROVE  \A t : t \in Lineage(set, s) <=>
              t \in Held(set) /\ \A S \in SUBSET Held(set) : s \in S /\ Closed(set, S) => t \in S
  <1>1. CASE set.parent[s] = NoScenario
    <2>1. Lineage(set, s) = {s}
      BY <1>1 DEF Lineage
    <2>2. {s} \in SUBSET Held(set) /\ Closed(set, {s})
      BY <1>1 DEF Closed
    <2>3. QED
      BY <2>1, <2>2
  <1>2. CASE set.parent[s] # NoScenario
    <2>1. Lineage(set, s) =
             {t \in Held(set) : \A S \in SUBSET (Held(set) \ {t}) : s \in S => ~Closed(set, S)}
      BY <1>2 DEF Lineage
    <2>2. ASSUME NEW t \in Held(set)
          PROVE  (\A S \in SUBSET (Held(set) \ {t}) : s \in S => ~Closed(set, S)) <=>
                 (\A S \in SUBSET Held(set) : s \in S /\ Closed(set, S) => t \in S)
      OBVIOUS
    <2>3. QED
      BY <2>1, <2>2
  <1>3. QED
    BY <1>1, <1>2

LEMMA LineageClosed ==
    ASSUME NEW set, Tree(set), NEW s \in Held(set)
    PROVE  /\ s \in Lineage(set, s) /\ Lineage(set, s) \subseteq Held(set)
           /\ Closed(set, Lineage(set, s))
  <1>1. s \in Lineage(set, s) /\ Lineage(set, s) \subseteq Held(set)
    BY LineageIs
  <1>2. ASSUME NEW t \in Lineage(set, s), set.parent[t] # NoScenario
        PROVE  set.parent[t] \in Lineage(set, s)
    <2>1. t \in Held(set) /\ set.parent[t] \in Held(set)
      BY <1>1, <1>2 DEF Tree
    <2>2. ASSUME NEW S \in SUBSET Held(set), s \in S, Closed(set, S)
          PROVE  set.parent[t] \in S
      BY <1>2, <2>2, LineageIs DEF Closed
    <2>3. QED
      BY <2>1, <2>2, LineageIs
  <1>3. QED
    BY <1>1, <1>2 DEF Closed

LEMMA LineageLeast ==
    ASSUME NEW set, Tree(set), NEW s \in Held(set),
           NEW S \in SUBSET Held(set), s \in S, Closed(set, S)
    PROVE  Lineage(set, s) \subseteq S
  BY LineageIs

LEMMA LineageTransitive ==
    ASSUME NEW set, Tree(set), NEW s \in Held(set), NEW t \in Lineage(set, s)
    PROVE  Lineage(set, t) \subseteq Lineage(set, s)
  <1>1. t \in Held(set)
    BY LineageClosed
  <1>2. QED
    BY <1>1, LineageClosed, LineageLeast

LEMMA LineageStep ==
    ASSUME NEW set, Tree(set), NEW s \in Held(set) \ {Base}
    PROVE  /\ set.parent[s] \in Held(set)
           /\ Lineage(set, s) = {s} \cup Lineage(set, set.parent[s])
  <1> DEFINE p == set.parent[s]
  <1>1. p \in Held(set)
    BY DEF Tree
  <1>2. p \in Lineage(set, s)
    BY <1>1, LineageClosed, RegisterAssumption DEF Closed, Tree
  <1>3. Lineage(set, p) \subseteq Lineage(set, s)
    BY <1>2, LineageTransitive
  <1>4. Lineage(set, s) \subseteq {s} \cup Lineage(set, p)
    <2>1. p \in Lineage(set, p) /\ Lineage(set, p) \subseteq Held(set) /\ Closed(set, Lineage(set, p))
      BY <1>1, LineageClosed
    <2>2. Closed(set, {s} \cup Lineage(set, p))
      BY <2>1 DEF Closed
    <2>3. QED
      BY <2>1, <2>2, LineageLeast
  <1>5. QED
    BY <1>1, <1>3, <1>4, LineageClosed

\* Two scenarios that vary one another are one.
LEMMA LineageOrder ==
    ASSUME NEW set, Tree(set), NEW s \in Held(set), NEW t \in Lineage(set, s),
           s \in Lineage(set, t)
    PROVE  s = t
  <1>1. SUFFICES ASSUME s # t PROVE FALSE
    OBVIOUS
  <1>2. CASE s = Base
    <2>1. Lineage(set, s) = {s}
      BY <1>2 DEF Tree, Lineage
    <2>2. QED
      BY <1>1, <2>1
  <1>3. CASE s # Base
    <2>1. set.parent[s] \in Held(set) /\ t \in Lineage(set, set.parent[s])
      BY <1>1, <1>3, LineageStep
    <2>2. s \in Lineage(set, set.parent[s])
      BY <2>1, LineageTransitive
    <2>3. QED
      BY <1>3, <2>2 DEF Tree
  <1>4. QED
    BY <1>2, <1>3

\* Of two scenarios a scenario varies, one varies the other.
LEMMA LineageChain ==
    ASSUME NEW set, Tree(set), NEW s \in Held(set),
           NEW t \in Lineage(set, s), NEW u \in Lineage(set, s)
    PROVE  t \in Lineage(set, u) \/ u \in Lineage(set, t)
  <1> DEFINE S == {x \in Lineage(set, s) : \A y \in Lineage(set, s) :
                      x \in Lineage(set, y) \/ y \in Lineage(set, x)}
  <1>1. /\ s \in Lineage(set, s) /\ Lineage(set, s) \subseteq Held(set)
        /\ Closed(set, Lineage(set, s))
    BY LineageClosed
  <1>2. s \in S /\ S \in SUBSET Held(set)
    BY <1>1
  <1>3. ASSUME NEW x \in S, set.parent[x] # NoScenario
        PROVE  set.parent[x] \in S
    <2>1. x \in Held(set) \ {Base} /\ set.parent[x] \in Lineage(set, s)
      BY <1>1, <1>3 DEF Closed, Tree
    <2>2. Lineage(set, x) = {x} \cup Lineage(set, set.parent[x])
      BY <2>1, LineageStep
    <2>3. ASSUME NEW y \in Lineage(set, s)
          PROVE  set.parent[x] \in Lineage(set, y) \/ y \in Lineage(set, set.parent[x])
      <3>1. CASE x \in Lineage(set, y)
        <4>1. y \in Held(set)
          BY <1>1
        <4>2. Closed(set, Lineage(set, y))
          BY <4>1, LineageClosed
        <4>3. QED
          BY <1>3, <3>1, <4>2 DEF Closed
      <3>2. CASE y \in Lineage(set, x) /\ y # x
        BY <2>2, <3>2
      <3>3. x = y => x \in Lineage(set, y)
        BY <1>1, LineageClosed
      <3>4. QED
        BY <3>1, <3>2, <3>3
    <2>4. QED
      BY <2>1, <2>3
  <1>4. Closed(set, S)
    BY <1>3 DEF Closed
  <1>5. Lineage(set, s) \subseteq S
    BY <1>2, <1>4, LineageLeast
  <1>6. QED
    BY <1>5

\* A new scenario leaves every lineage what it was.
LEMMA LineageGrows ==
    ASSUME NEW set, Tree(set), NEW s \in Scenarios \ Held(set), NEW p \in Held(set),
           NEW new, new.parent = [x \in Held(set) \cup {s} |-> IF x = s THEN p ELSE set.parent[x]]
    PROVE  /\ Tree(new)
           /\ \A t \in Held(set) : Lineage(new, t) = Lineage(set, t)
  <1>1. /\ Held(new) = Held(set) \cup {s}
        /\ \A t \in Held(set) : new.parent[t] = set.parent[t]
        /\ new.parent[s] = p /\ s \notin Held(set)
    BY DEF Held
  <1>2. NoScenario \notin Held(set) /\ NoScenario # p /\ s # Base /\ s # NoScenario
    BY RegisterAssumption DEF Tree
  <1>3. ASSUME NEW S \in SUBSET Held(set)
        PROVE  Closed(new, S) <=> Closed(set, S)
    BY <1>1 DEF Closed
  <1>4. ASSUME NEW t \in Held(set)
        PROVE  Lineage(new, t) = Lineage(set, t)
    <2>1. CASE set.parent[t] = NoScenario
      BY <1>1, <2>1 DEF Lineage
    <2>2. CASE set.parent[t] # NoScenario
      <3>1. /\ Lineage(set, t) =
                 {x \in Held(set) : \A S \in SUBSET (Held(set) \ {x}) : t \in S => ~Closed(set, S)}
            /\ Lineage(new, t) =
                 {x \in Held(new) : \A S \in SUBSET (Held(new) \ {x}) : t \in S => ~Closed(new, S)}
        BY <1>1, <2>2 DEF Lineage
      <3>2. ASSUME NEW x \in Lineage(new, t)
            PROVE  x \in Lineage(set, t)
        <4>1. Closed(new, Held(set)) /\ t \in Held(set)
          BY <1>1 DEF Closed, Tree
        <4>2. x # s
          BY <1>1, <3>1, <3>2, <4>1
        <4>3. QED
          BY <1>1, <1>3, <3>1, <3>2, <4>2
      <3>3. ASSUME NEW x \in Lineage(set, t)
            PROVE  x \in Lineage(new, t)
        <4>1. x \in Held(set)
          BY <3>1
        <4>2. ASSUME NEW S \in SUBSET (Held(new) \ {x}), t \in S, Closed(new, S)
              PROVE  FALSE
          <5>1. S \cap Held(set) \in SUBSET (Held(set) \ {x}) /\ t \in S \cap Held(set)
            BY <1>1, <4>2
          <5>2. Closed(set, S \cap Held(set))
            BY <1>1, <4>2 DEF Closed, Tree
          <5>3. QED
            BY <3>1, <3>3, <5>1, <5>2
        <4>3. QED
          BY <1>1, <3>1, <4>1, <4>2
      <3>4. QED
        BY <3>2, <3>3
    <2>3. QED
      BY <2>1, <2>2
  <1>5. Tree(new)
    <2>1. new.parent \in [Held(new) -> Held(new) \cup {NoScenario}]
      BY <1>1 DEF Tree, Held
    <2>2. IsFiniteSet(Held(new))
      BY <1>1, FS_AddElement DEF Tree
    <2>3. Held(new) \subseteq Scenarios /\ Base \in Held(new)
      BY <1>1 DEF Tree
    <2>4. \A t \in Held(new) : new.parent[t] = NoScenario <=> t = Base
      BY <1>1, <1>2 DEF Tree
    <2>5. ASSUME NEW t \in Held(new) \ {Base}
          PROVE  t \notin Lineage(new, new.parent[t])
      <3>1. CASE t = s
        BY <1>1, <1>4, <3>1, LineageClosed
      <3>2. CASE t # s
        <4>1. t \in Held(set) \ {Base} /\ set.parent[t] \in Held(set)
          BY <1>1, <3>2 DEF Tree
        <4>2. QED
          BY <1>1, <1>4, <4>1 DEF Tree
      <3>3. QED
        BY <3>1, <3>2
    <2>6. QED
      BY <2>1, <2>2, <2>3, <2>4, <2>5 DEF Tree
  <1>6. QED
    BY <1>4, <1>5

-----------------------------------------------------------------------------
(* The record a scenario resolves *)

\* The records of a set: each of a scenario of the set, no two put by one
\* change.
Records(set) ==
    /\ set.assumptions \subseteq Assumption /\ set.version \in Nat
    /\ \A a \in set.assumptions : a.scenario \in Held(set) /\ a.at <= set.version
    /\ \A a, b \in set.assumptions : a.at = b.at => a = b

\* A set of natural numbers that is not empty has a least member.
LEMMA LeastNatural ==
    ASSUME NEW T \in SUBSET Nat, T # {}
    PROVE  \E n \in T : \A k \in T : n <= k
  <1> DEFINE R == OpToRel(<, Nat)
  <1>1. PICK n \in T : \A k \in T : ~ (<<k, n>> \in R)
    BY NatLessThanWellFounded, WFMin
  <1>2. ASSUME NEW k \in T
        PROVE  n <= k
    <2>1. k < n => <<k, n>> \in R
      BY DEF OpToRel
    <2> HIDE DEF R
    <2>2. QED
      BY <1>1, <2>1
  <1>3. QED
    BY <1>2

\* resolve keeps one record per driver.
LEMMA FirstMetOne ==
    ASSUME NEW set, Tree(set), Records(set), NEW found \in SUBSET set.assumptions,
           NEW a \in FirstMet(set, found), NEW b \in FirstMet(set, found)
    PROVE  a = b
  <1>1. /\ a \in set.assumptions /\ b \in set.assumptions
        /\ MetBefore(set, a, b) /\ MetBefore(set, b, a)
    BY DEF FirstMet
  <1>2. /\ a.scenario \in Held(set) /\ b.scenario \in Held(set)
        /\ a.at \in Nat /\ b.at \in Nat
    BY <1>1 DEF Records, Assumption
  <1>3. a.scenario = b.scenario
    BY <1>1, <1>2, LineageOrder DEF MetBefore
  <1>4. a.at = b.at
    BY <1>1, <1>2, <1>3 DEF MetBefore
  <1>5. QED
    BY <1>1, <1>4 DEF Records

\* The nearest of the scenarios that hold a record of the driver answers, with
\* the record that was put first.
LEMMA FirstMetSome ==
    ASSUME NEW set, Tree(set), Records(set), NEW s \in Held(set), NEW c,
           NEW found \in SUBSET Visible(set, s, c), found # {}
    PROVE  FirstMet(set, found) # {}
  <1> DEFINE Depth(a) == Cardinality(Lineage(set, a.scenario))
             T == {n \in Nat : \E a \in found : n = Cardinality(Held(set)) - Depth(a)}
  <1>1. ASSUME NEW a \in found
        PROVE  /\ a.scenario \in Lineage(set, s) /\ a.scenario \in Held(set)
               /\ a \in set.assumptions /\ a.at \in Nat
               /\ IsFiniteSet(Lineage(set, a.scenario))
               /\ Depth(a) \in Nat /\ Cardinality(Held(set)) - Depth(a) \in Nat
    <2>1. /\ a.scenario \in Lineage(set, s) /\ a.scenario \in Held(set)
          /\ a \in set.assumptions /\ a.at \in Nat
      BY DEF Visible, Records, Assumption
    <2>2. Lineage(set, a.scenario) \in SUBSET Held(set) /\ IsFiniteSet(Held(set))
      BY <2>1, LineageClosed DEF Tree
    <2>3. /\ IsFiniteSet(Lineage(set, a.scenario))
          /\ Cardinality(Lineage(set, a.scenario)) <= Cardinality(Held(set))
      BY <2>2, FS_Subset
    <2>4. Cardinality(Held(set)) \in Nat /\ Cardinality(Lineage(set, a.scenario)) \in Nat
      BY <2>2, <2>3, FS_CardinalityType
    <2>5. QED
      BY <2>1, <2>3, <2>4
  <1>2. T \in SUBSET Nat /\ T # {}
    BY <1>1
  <1>3. PICK n \in T : \A k \in T : n <= k
    BY <1>2, LeastNatural
  <1>4. PICK a \in found : n = Cardinality(Held(set)) - Depth(a)
    BY <1>3
  <1>5. ASSUME NEW b \in found, b.scenario # a.scenario
        PROVE  b.scenario \in Lineage(set, a.scenario)
    <2>1. SUFFICES ASSUME a.scenario \in Lineage(set, b.scenario) PROVE FALSE
      BY <1>1, LineageChain
    <2>2. b.scenario \notin Lineage(set, a.scenario)
      BY <1>1, <1>5, <2>1, LineageOrder
    <2>3. Lineage(set, a.scenario) \in SUBSET Lineage(set, b.scenario)
      BY <1>1, <2>1, LineageTransitive
    <2>4. b.scenario \in Lineage(set, b.scenario)
      BY <1>1, LineageClosed
    <2>5. Depth(a) <= Depth(b) /\ Depth(a) # Depth(b)
      BY <1>1, <2>2, <2>3, <2>4, FS_Subset
    <2>6. Cardinality(Held(set)) \in Nat
      BY FS_CardinalityType DEF Tree
    <2>7. Cardinality(Held(set)) - Depth(b) \in T
      BY <1>1
    <2>8. Depth(a) \in Nat /\ Depth(b) \in Nat
      BY <1>1
    <2> HIDE DEF Depth, T
    <2>9. QED
      BY <1>3, <1>4, <2>5, <2>6, <2>7, <2>8
  <1> DEFINE U == {k \in Nat : \E b \in found : b.scenario = a.scenario /\ k = b.at}
  <1>6. U \in SUBSET Nat /\ U # {}
    BY <1>1
  <1>7. PICK m \in U : \A k \in U : m <= k
    BY <1>6, LeastNatural
  <1>8. PICK first \in found : first.scenario = a.scenario /\ m = first.at
    BY <1>7
  <1>9. ASSUME NEW b \in found
        PROVE  MetBefore(set, first, b)
    <2>1. CASE b.scenario = a.scenario
      <3>1. b.at \in U
        BY <1>1, <2>1
      <3>2. QED
        BY <1>7, <1>8, <2>1, <3>1 DEF MetBefore
    <2>2. CASE b.scenario # a.scenario
      BY <1>5, <1>8, <2>2 DEF MetBefore
    <2>3. QED
      BY <2>1, <2>2
  <1>10. QED
    BY <1>9 DEF FirstMet

Specific(set, s, c, p) == {a \in Visible(set, s, c) : p \in a.periods}
General(set, s, c) == {a \in Visible(set, s, c) : a.periods = {}}

LEMMA ResolveIs ==
    ASSUME NEW set, Tree(set), Records(set), NEW s \in Held(set), NEW c, NEW p
    PROVE  /\ Resolve(set, s, c, p) =
                 IF Specific(set, s, c, p) # {} THEN FirstMet(set, Specific(set, s, c, p))
                                                ELSE FirstMet(set, General(set, s, c))
           /\ \A a \in Resolve(set, s, c, p) :
                 /\ a \in Visible(set, s, c) /\ a \in set.assumptions /\ a.code = c
                 /\ a.periods # {} <=> p \in a.periods
                 /\ Resolve(set, s, c, p) = {a}
           /\ Resolve(set, s, c, p) = {} =>
                 Specific(set, s, c, p) = {} /\ General(set, s, c) = {}
  <1>1. /\ Specific(set, s, c, p) \in SUBSET Visible(set, s, c)
        /\ General(set, s, c) \in SUBSET Visible(set, s, c)
        /\ Visible(set, s, c) \in SUBSET set.assumptions
        /\ \A a \in Visible(set, s, c) : a.code = c
    BY DEF Specific, General, Visible
  <1>2. Resolve(set, s, c, p) =
           IF Specific(set, s, c, p) # {} THEN FirstMet(set, Specific(set, s, c, p))
                                          ELSE FirstMet(set, General(set, s, c))
    BY DEF Resolve, Specific, General
  <1>3. PICK found \in SUBSET Visible(set, s, c) :
           /\ Resolve(set, s, c, p) = FirstMet(set, found)
           /\ found = Specific(set, s, c, p) \/ found = General(set, s, c)
    BY <1>1, <1>2
  <1>4. ASSUME NEW a \in Resolve(set, s, c, p)
        PROVE  /\ a \in Visible(set, s, c) /\ a \in set.assumptions /\ a.code = c
               /\ a.periods # {} <=> p \in a.periods
               /\ Resolve(set, s, c, p) = {a}
    <2>1. a \in found
      BY <1>3 DEF FirstMet
    <2>2. a.periods # {} <=> p \in a.periods
      BY <1>3, <2>1 DEF Specific, General
    <2>3. found \in SUBSET set.assumptions
      BY <1>1
    <2>4. \A b \in FirstMet(set, found) : b = a
      BY <1>3, <2>3, FirstMetOne
    <2>5. QED
      BY <1>1, <1>3, <2>1, <2>2, <2>4
  <1>5. ASSUME Resolve(set, s, c, p) = {}
        PROVE  Specific(set, s, c, p) = {} /\ General(set, s, c) = {}
    BY <1>1, <1>2, <1>5, FirstMetSome
  <1>6. QED
    BY <1>2, <1>4, <1>5

-----------------------------------------------------------------------------
(* What the forecast reads *)

LEMMA LeastYear ==
    ASSUME NEW T \in SUBSET Nat, T # {}
    PROVE  Min(T) \in T
  BY LeastNatural DEF Min

\* The register of the engine gives back the record the scenario resolves for
\* the year, whether it was put for that year or for every year.
LEMMA ReadsTheAnswer ==
    ASSUME NEW set, Tree(set), Records(set), NEW s \in Held(set), NEW c, NEW p \in Periods,
           NEW a \in Resolve(set, s, c, p), a.status \notin BlocksCalculation
    PROVE  ForecastReads(set, s, c, p) = {a}
  <1>1. Resolve(set, s, c, p) = {a}
    BY ResolveIs
  <1>2. CASE c = TaxRate
    BY <1>1, <1>2 DEF ForecastReads, RateFor
  <1>3. CASE c # TaxRate
    <2>1. /\ Periods \subseteq Nat /\ EveryYear \notin Periods
          /\ \A sc : Registering(set, s, c, sc) \subseteq Periods
      BY RegisterAssumption DEF Registering
    <2>2. ASSUME NEW q \in Registering(set, s, c, p)
          PROVE  q = p /\ a.periods # {}
      <3>1. PICK b \in Resolve(set, s, c, q) : Scope(b, q) = p
        BY <2>2 DEF Registering
      <3>2. b.periods # {} /\ q = p
        BY <2>1, <3>1 DEF Scope
      <3>3. QED
        BY <1>1, <3>1, <3>2
    <2>3. CASE a.periods # {}
      <3>1. Scope(a, p) = p
        BY <2>3 DEF Scope
      <3>2. Registering(set, s, c, p) = {p}
        BY <2>2, <3>1 DEF Registering
      <3>3. Min({p}) = p
        BY <2>1, LeastYear
      <3>4. Registered(set, s, c, p) = {a}
        BY <1>1, <1>3, <3>2, <3>3 DEF Registered
      <3>5. QED
        BY <1>3, <3>4 DEF ForecastReads, EngineReads
    <2>4. CASE a.periods = {}
      <3>1. Registered(set, s, c, p) = {}
        BY <2>2, <2>4 DEF Registered
      <3>2. p \in Registering(set, s, c, EveryYear)
        BY <2>4 DEF Registering, Scope
      <3> DEFINE m == Min(Registering(set, s, c, EveryYear))
      <3>3. m \in Registering(set, s, c, EveryYear)
        BY <2>1, <3>2, LeastYear
      <3> HIDE DEF m
      <3>4. PICK b \in Resolve(set, s, c, m) : Scope(b, m) = EveryYear /\ m \in Periods
        BY <3>3 DEF Registering
      <3>5. b.periods = {}
        BY <2>1, <3>4 DEF Scope
      <3>6. Specific(set, s, c, m) = {} /\ Specific(set, s, c, p) = {}
        BY <2>4, <3>4, <3>5, ResolveIs DEF FirstMet, Specific
      <3>7. Resolve(set, s, c, m) = {a}
        BY <1>1, <3>6, ResolveIs
      <3>8. Registered(set, s, c, EveryYear) = {a}
        BY <1>3, <3>2, <3>7 DEF Registered, m
      <3>9. QED
        BY <1>3, <3>1, <3>8 DEF ForecastReads, EngineReads
    <2>5. QED
      BY <2>3, <2>4
  <1>4. QED
    BY <1>2, <1>3

\* A driver the scenario has no answer for is not in it.
LEMMA ReadsNothing ==
    ASSUME NEW set, Tree(set), Records(set), NEW s \in Held(set), NEW c, NEW p \in Periods,
           Resolve(set, s, c, p) = {}
    PROVE  ForecastReads(set, s, c, p) = {}
  <1>1. CASE c = TaxRate
    BY <1>1 DEF ForecastReads, RateFor
  <1>2. CASE c # TaxRate
    <2>1. /\ Periods \subseteq Nat /\ EveryYear \notin Periods
      BY RegisterAssumption
    <2>2. General(set, s, c) = {}
      BY ResolveIs
    <2>3. ASSUME NEW q \in Periods, NEW b \in Resolve(set, s, c, q)
          PROVE  b.periods # {}
      BY <2>2, ResolveIs DEF General
    <2>4. Registering(set, s, c, EveryYear) = {}
      BY <2>1, <2>3 DEF Registering, Scope
    <2>5. Registering(set, s, c, p) = {}
      BY <2>3 DEF Registering, Scope
    <2>6. QED
      BY <1>2, <2>4, <2>5 DEF ForecastReads, EngineReads, Registered
  <1>3. QED
    BY <1>1, <1>2

-----------------------------------------------------------------------------
(* The invariant *)

\* Every record shows what its source must show; what was reviewed was stored
\* as reviewed, at its present value and source.
Reviewing ==
    \A a \in register.assumptions :
        /\ EvidenceHolds(a)
        /\ a.status \in NeedsReviewer => Judged(a) \in reviewed /\ a.reviewer # NoOne

RegisterInv ==
    /\ register = [parent |-> register.parent, assumptions |-> register.assumptions,
                   version |-> register.version]
    /\ Tree(register) /\ Records(register)
    /\ Reviewing
    /\ OverridesKeepLineage
    /\ impact \in [of : Scenarios \cup {NoScenario}, code : Codes \cup {""}]

LEMMA LineageOfParents ==
    ASSUME NEW set, NEW new, new.parent = set.parent
    PROVE  /\ Held(new) = Held(set)
           /\ \A s : Lineage(new, s) = Lineage(set, s)
           /\ Tree(set) => Tree(new)
  <1>1. Held(new) = Held(set)
    BY DEF Held
  <1>2. \A S : Closed(new, S) <=> Closed(set, S)
    BY DEF Closed
  <1>3. \A s : Lineage(new, s) = Lineage(set, s)
    BY <1>1, <1>2 DEF Lineage
  <1>4. QED
    BY <1>1, <1>3 DEF Tree

\* What a change that puts the record a makes of the register.
Put(a) ==
    LET new == [a EXCEPT !.at = register.version + 1]
    IN  /\ register' = [parent |-> register.parent,
                        assumptions |-> register'.assumptions,
                        version |-> register.version + 1]
        /\ new \in Assumption /\ new.at = register.version + 1
        /\ new.scenario = a.scenario /\ new.code = a.code /\ new.source = a.source
        /\ new.overrides = a.overrides /\ new.status = a.status /\ new.reviewer = a.reviewer
        /\ (EvidenceHolds(new) <=> EvidenceHolds(a)) /\ Judged(new) = Judged(a)
        /\ register'.assumptions \subseteq register.assumptions \cup {new}
        /\ new \in register'.assumptions
        /\ \A b \in register.assumptions \ register'.assumptions :
              b.scenario = new.scenario /\ b.code = new.code
        /\ reviewed \subseteq reviewed'
        /\ a.status = "Reviewed" => Judged(new) \in reviewed'
        /\ impact' = impact

LEMMA PutIs ==
    ASSUME RegisterInv, NEW a \in Assumption, Save(WithAssumption(register, a))
    PROVE  Put(a)
  <1> DEFINE new == [a EXCEPT !.at = register.version + 1]
             kept == {b \in register.assumptions : ~(/\ b.scenario = a.scenario
                                                     /\ b.code = a.code
                                                     /\ b.periods = a.periods)}
  <1>1. register' = [parent |-> register.parent, assumptions |-> kept \cup {new},
                     version |-> register.version + 1]
    BY DEF Save, WithAssumption, RegisterInv
  <1>2. register.version + 1 \in Nat
    <2>1. Records(register)
      BY DEF RegisterInv
    <2>2. QED
      BY <2>1 DEF Records
  <1>3. /\ new \in Assumption /\ new.at = register.version + 1
        /\ new.scenario = a.scenario /\ new.code = a.code /\ new.source = a.source
        /\ new.overrides = a.overrides /\ new.status = a.status /\ new.reviewer = a.reviewer
        /\ new.periods = a.periods /\ new.value = a.value /\ new.evidence = a.evidence
    BY <1>2 DEF Assumption
  <1>4. (EvidenceHolds(new) <=> EvidenceHolds(a)) /\ Judged(new) = Judged(a)
    BY <1>3 DEF EvidenceHolds, Judged
  <1>5. /\ reviewed' = reviewed \cup {Judged(b) : b \in {d \in register'.assumptions : d.status = "Reviewed"}}
        /\ impact' = impact
    BY DEF Save
  <1>6. register'.assumptions = kept \cup {new}
    BY <1>1
  <1>7. a.status = "Reviewed" => Judged(new) \in reviewed'
    BY <1>3, <1>5, <1>6
  <1> HIDE DEF new
  <1>8. QED
    BY <1>1, <1>3, <1>4, <1>5, <1>6, <1>7 DEF Put, new

\* A put keeps the invariant when the record may stand as it is: it shows what
\* its source must, it was reviewed if it says so, and what it overrides is
\* above it.
LEMMA PutKeeps ==
    ASSUME RegisterInv, NEW a \in Assumption, Save(WithAssumption(register, a)),
           a.scenario \in Held(register), EvidenceHolds(a),
           a.status \in NeedsReviewer => a.reviewer # NoOne,
           a.status = "Approved" => Judged(a) \in reviewed,
           a.source = "ScenarioOverride" =>
              /\ a.overrides \in Lineage(register, a.scenario) \ {a.scenario}
              /\ \E b \in Own(register, a.overrides) : b.code = a.code
    PROVE  RegisterInv'
  <1> DEFINE new == [a EXCEPT !.at = register.version + 1]
             old == register.assumptions
             now == register'.assumptions
  <1>1. Put(a)
    BY PutIs
  <1>2. /\ register' = [parent |-> register.parent, assumptions |-> now,
                        version |-> register.version + 1]
        /\ new \in Assumption /\ new.at = register.version + 1
        /\ new.scenario = a.scenario /\ new.code = a.code /\ new.source = a.source
        /\ new.overrides = a.overrides /\ new.status = a.status /\ new.reviewer = a.reviewer
        /\ (EvidenceHolds(new) <=> EvidenceHolds(a)) /\ Judged(new) = Judged(a)
        /\ now \subseteq old \cup {new} /\ new \in now
        /\ \A b \in old \ now : b.scenario = new.scenario /\ b.code = new.code
        /\ reviewed \subseteq reviewed'
        /\ a.status = "Reviewed" => Judged(new) \in reviewed'
        /\ impact' = impact
    BY <1>1 DEF Put
  <1> HIDE DEF new
  <1>3. register'.parent = register.parent /\ register'.version = register.version + 1
    BY <1>2
  <1>4. Tree(register) /\ Records(register) /\ Reviewing /\ OverridesKeepLineage
    BY DEF RegisterInv
  <1>5. /\ Tree(register') /\ Held(register') = Held(register)
        /\ \A s : Lineage(register', s) = Lineage(register, s)
    BY <1>3, <1>4, LineageOfParents
  <1>6. Records(register')
    <2>1. \A b \in old : b.at \in Nat /\ b.at <= register.version /\ b.scenario \in Held(register)
      BY <1>4 DEF Records, Assumption
    <2>2. register.version \in Nat
      BY <1>4 DEF Records
    <2>3. \A b \in now : b.scenario \in Held(register') /\ b.at <= register'.version /\ b \in Assumption
      BY <1>2, <1>3, <1>4, <1>5, <2>1, <2>2 DEF Records
    <2>4. \A b, d \in now : b.at = d.at => b = d
      BY <1>2, <1>4, <2>1, <2>2 DEF Records
    <2>5. QED
      BY <1>3, <2>2, <2>3, <2>4 DEF Records
  <1>7. Reviewing'
    <2>1. ASSUME NEW b \in now
          PROVE  /\ EvidenceHolds(b)
                 /\ b.status \in NeedsReviewer => Judged(b) \in reviewed' /\ b.reviewer # NoOne
      <3>1. CASE b = new
        BY <1>2, <3>1 DEF NeedsReviewer
      <3>2. CASE b \in old
        BY <1>2, <1>4, <3>2 DEF Reviewing
      <3>3. QED
        BY <1>2, <3>1, <3>2
    <2>2. QED
      BY <2>1 DEF Reviewing
  <1>8. ASSUME NEW s, NEW c, \E b \in Own(register, s) : b.code = c
        PROVE  \E b \in Own(register', s) : b.code = c
    <2>1. PICK b \in old : b.scenario = s /\ b.code = c
      BY <1>8 DEF Own
    <2>2. CASE b \in now
      BY <2>1, <2>2 DEF Own
    <2>3. CASE b \notin now
      BY <1>2, <2>1, <2>3 DEF Own
    <2>4. QED
      BY <2>2, <2>3
  <1>9. OverridesKeepLineage'
    <2>1. ASSUME NEW b \in now, b.source = "ScenarioOverride"
          PROVE  /\ b.overrides \in Lineage(register, b.scenario) \ {b.scenario}
                 /\ \E d \in Own(register, b.overrides) : d.code = b.code
      <3>1. CASE b = new
        BY <1>2, <2>1, <3>1
      <3>2. CASE b \in old
        BY <1>4, <2>1, <3>2 DEF OverridesKeepLineage
      <3>3. QED
        BY <1>2, <3>1, <3>2
    <2>2. QED
      BY <1>5, <1>8, <2>1 DEF OverridesKeepLineage
  <1>10. QED
    BY <1>2, <1>3, <1>5, <1>6, <1>7, <1>9 DEF RegisterInv

LEMMA AddScenarioKeeps ==
    ASSUME RegisterInv, NEW s \in Scenarios, NEW parent \in Scenarios, AddScenario(s, parent)
    PROVE  /\ RegisterInv'
           /\ register'.assumptions = register.assumptions
           /\ \A t \in Held(register) : Lineage(register', t) = Lineage(register, t)
  <1> DEFINE tree == [x \in Held(register) \cup {s} |-> IF x = s THEN parent ELSE register.parent[x]]
  <1>1. /\ s \notin Held(register) /\ parent \in Held(register)
        /\ Save(WithScenario(register, s, parent))
    BY DEF AddScenario
  <1>2. Tree(register) /\ Records(register) /\ Reviewing /\ OverridesKeepLineage
    BY DEF RegisterInv
  <1>3. register' = [parent |-> tree, assumptions |-> register.assumptions,
                     version |-> register.version + 1]
    BY <1>1 DEF Save, WithScenario, RegisterInv, Held
  <1>4. reviewed \subseteq reviewed' /\ impact' = impact
    BY <1>1 DEF Save
  <1>5. register'.parent = tree /\ register'.assumptions = register.assumptions
        /\ register'.version = register.version + 1
    BY <1>3
  <1>6. Tree(register') /\ \A t \in Held(register) : Lineage(register', t) = Lineage(register, t)
    BY <1>1, <1>2, <1>5, LineageGrows
  <1>7. Held(register) \subseteq Held(register')
    BY <1>5 DEF Held
  <1>8. Records(register')
    BY <1>2, <1>5, <1>7 DEF Records, Assumption
  <1>9. Reviewing'
    BY <1>2, <1>4, <1>5 DEF Reviewing
  <1>10. OverridesKeepLineage'
    BY <1>2, <1>5, <1>6 DEF OverridesKeepLineage, Own, Records
  <1>11. QED
    BY <1>3, <1>4, <1>5, <1>6, <1>8, <1>9, <1>10 DEF RegisterInv

\* Every other change puts one record that may stand.
LEMMA PutAssumptionKeeps ==
    ASSUME RegisterInv, NEW s \in Scenarios, NEW c \in Codes, NEW entry \in Entered,
           NEW owner \in People, PutAssumption(s, c, entry, owner)
    PROVE  \E a \in Assumption : Save(WithAssumption(register, a)) /\ RegisterInv'
  <1> DEFINE a == [scenario |-> s, code |-> c, periods |-> entry.periods, value |-> entry.value,
                   source |-> entry.source, evidence |-> entry.evidence, overrides |-> NoScenario,
                   owner |-> owner, reviewer |-> NoOne, status |-> "Draft", at |-> 0]
  <1>1. /\ entry.periods \in SUBSET Periods /\ entry.value \in Values
        /\ entry.source \in SourceTypes \ {"ScenarioOverride"} /\ entry.evidence \in Evidence
    BY AssumptionsAssumption
  <1>2. a \in Assumption
    BY <1>1 DEF Assumption, Statuses
  <1>3. s \in Held(register) /\ EvidenceHolds(a) /\ Save(WithAssumption(register, a))
    BY DEF PutAssumption
  <1>4. /\ a.scenario = s /\ a.status = "Draft" /\ a.source # "ScenarioOverride"
    BY <1>1
  <1> HIDE DEF a
  <1>5. RegisterInv'
    BY <1>2, <1>3, <1>4, PutKeeps DEF NeedsReviewer
  <1>6. QED
    BY <1>2, <1>3, <1>5

LEMMA AcceptKeeps ==
    ASSUME RegisterInv, NEW s \in Scenarios, NEW c \in Codes, NEW owner \in People,
           AcceptProposal(s, c, owner)
    PROVE  \E a \in Assumption : Save(WithAssumption(register, a)) /\ RegisterInv'
  <1>1. PICK value \in Measured[c] :
           Save(WithAssumption(register,
             [scenario |-> s, code |-> c, periods |-> {}, value |-> value,
              source |-> "HistoricalDriver", evidence |-> {"measured_over"},
              overrides |-> NoScenario, owner |-> owner, reviewer |-> NoOne,
              status |-> "Draft", at |-> 0]))
    BY DEF AcceptProposal
  <1> DEFINE a == [scenario |-> s, code |-> c, periods |-> {}, value |-> value,
                   source |-> "HistoricalDriver", evidence |-> {"measured_over"},
                   overrides |-> NoScenario, owner |-> owner, reviewer |-> NoOne,
                   status |-> "Draft", at |-> 0]
  <1>2. value \in Values
    BY AssumptionsAssumption
  <1>3. a \in Assumption /\ EvidenceHolds(a)
    BY <1>2 DEF Assumption, Statuses, SourceTypes, Evidence, EvidenceHolds
  <1>4. s \in Held(register) /\ Save(WithAssumption(register, a))
    BY <1>1 DEF AcceptProposal
  <1>5. a.scenario = s /\ a.status = "Draft" /\ a.source # "ScenarioOverride"
    OBVIOUS
  <1> HIDE DEF a
  <1>6. RegisterInv'
    BY <1>3, <1>4, <1>5, PutKeeps DEF NeedsReviewer
  <1>7. QED
    BY <1>3, <1>4, <1>6

LEMMA AnsweredAnyYear ==
    ASSUME NEW set, NEW s, NEW c, NEW a \in ResolveAnyYear(set, s, c)
    PROVE  a \in set.assumptions /\ a.code = c /\ a.scenario \in Lineage(set, s)
  BY DEF ResolveAnyYear, FirstMet, Visible

LEMMA OverrideKeeps ==
    ASSUME RegisterInv, NEW s \in Scenarios, NEW c \in Codes, NEW value \in OverrideValues,
           NEW periods \in {e.periods : e \in Entered}, NEW owner \in People,
           Override(s, c, value, periods, owner)
    PROVE  \E a \in Assumption : Save(WithAssumption(register, a)) /\ RegisterInv'
  <1>1. PICK source \in Inherited(register, s, c) :
           Save(WithAssumption(register, OverrideOf(source, s, value, periods, owner)))
    BY DEF Override
  <1> DEFINE a == OverrideOf(source, s, value, periods, owner)
  <1>2. /\ Tree(register) /\ Records(register)
        /\ s \in Held(register) \ {Base}
    BY DEF RegisterInv, Override
  <1>3. /\ source \in register.assumptions /\ source.code = c
        /\ source.scenario \in Lineage(register, register.parent[s])
    BY AnsweredAnyYear DEF Inherited
  <1>4. source \in Assumption /\ periods \in SUBSET Periods /\ value \in Values
    BY <1>2, <1>3, AssumptionsAssumption DEF Records
  <1>5. /\ a \in Assumption
        /\ a.scenario = s /\ a.code = c /\ a.source = "ScenarioOverride"
        /\ a.overrides = source.scenario /\ a.status = "Draft"
    BY <1>3, <1>4 DEF OverrideOf, Assumption, SourceTypes, Statuses
  <1>6. source.scenario \in Scenarios /\ NoScenario \notin Scenarios
    BY <1>4, RegisterAssumption DEF Assumption
  <1>7. source.scenario \in Lineage(register, s) \ {s}
    BY <1>2, <1>3, LineageStep DEF Tree
  <1>8. \E b \in Own(register, source.scenario) : b.code = c
    BY <1>3 DEF Own
  <1> HIDE DEF a
  <1>9. EvidenceHolds(a)
    BY <1>5, <1>6 DEF EvidenceHolds
  <1>10. Save(WithAssumption(register, a))
    BY <1>1 DEF a
  <1>11. RegisterInv'
    BY <1>2, <1>5, <1>7, <1>8, <1>9, <1>10, PutKeeps DEF NeedsReviewer
  <1>12. QED
    BY <1>5, <1>10, <1>11

LEMMA ChangeStatusKeeps ==
    ASSUME RegisterInv, NEW s \in Scenarios, NEW c \in Codes, NEW to \in Statuses,
           NEW reviewer \in People \cup {NoOne}, ChangeStatus(s, c, to, reviewer)
    PROVE  \E a \in Assumption : Save(WithAssumption(register, a)) /\ RegisterInv'
  <1>1. PICK b \in ResolveAnyYear(register, s, c) :
           /\ b.scenario = s /\ MayMove(b, to, reviewer)
           /\ Save(WithAssumption(register, Moved(b, to, reviewer)))
    BY DEF ChangeStatus
  <1> DEFINE a == Moved(b, to, reviewer)
  <1>2. b \in register.assumptions
    BY AnsweredAnyYear
  <1>3. b \in Assumption /\ b.scenario \in Held(register)
    BY <1>2 DEF RegisterInv, Records
  <1>4. /\ a \in Assumption
        /\ a.scenario = b.scenario /\ a.code = b.code /\ a.periods = b.periods
        /\ a.value = b.value /\ a.source = b.source /\ a.evidence = b.evidence
        /\ a.overrides = b.overrides /\ a.status = to
        /\ a.reviewer = IF reviewer = NoOne THEN b.reviewer ELSE reviewer
    BY <1>3 DEF Moved, Assumption
  <1> HIDE DEF a
  <1>5. /\ EvidenceHolds(b)
        /\ b.status \in NeedsReviewer => Judged(b) \in reviewed /\ b.reviewer # NoOne
    BY <1>2 DEF RegisterInv, Reviewing
  <1>6. EvidenceHolds(a) /\ Judged(a) = Judged(b)
    BY <1>4, <1>5 DEF EvidenceHolds, Judged
  <1>7. to \in NeedsReviewer => a.reviewer # NoOne
    BY <1>1, <1>4 DEF MayMove
  <1>8. to = "Approved" => b.status = "Reviewed"
    BY <1>1, <1>3 DEF MayMove, LegalTransitions, Assumption, Statuses
  <1>9. a.source = "ScenarioOverride" =>
           /\ a.overrides \in Lineage(register, a.scenario) \ {a.scenario}
           /\ \E d \in Own(register, a.overrides) : d.code = a.code
    BY <1>2, <1>4 DEF RegisterInv, OverridesKeepLineage
  <1>10. Save(WithAssumption(register, a))
    BY <1>1 DEF a
  <1>11. RegisterInv'
    BY <1>3, <1>4, <1>5, <1>6, <1>7, <1>8, <1>9, <1>10, PutKeeps DEF NeedsReviewer
  <1>12. QED
    BY <1>4, <1>10, <1>11

\* The steps, told apart by what they do to the register.
LEMMA StepsKeep ==
    ASSUME RegisterInv, Next
    PROVE  /\ RegisterInv'
           /\ \/ register' = register
              \/ \E s, parent \in Scenarios : AddScenario(s, parent)
              \/ \E a \in Assumption : Save(WithAssumption(register, a))
  <1>1. ASSUME NEW s \in Scenarios, NEW parent \in Scenarios, AddScenario(s, parent)
        PROVE  RegisterInv'
    BY <1>1, AddScenarioKeeps
  <1>2. ASSUME \E s \in Scenarios, c \in Codes, owner \in People :
                  \/ \E entry \in Entered : PutAssumption(s, c, entry, owner)
                  \/ \E value \in OverrideValues, periods \in {e.periods : e \in Entered} :
                        Override(s, c, value, periods, owner)
                  \/ AcceptProposal(s, c, owner)
        PROVE  RegisterInv' /\ \E a \in Assumption : Save(WithAssumption(register, a))
    BY <1>2, PutAssumptionKeeps, OverrideKeeps, AcceptKeeps
  <1>3. ASSUME \E s \in Scenarios, c \in Codes, to \in Statuses, reviewer \in People \cup {NoOne} :
                  ChangeStatus(s, c, to, reviewer)
        PROVE  RegisterInv' /\ \E a \in Assumption : Save(WithAssumption(register, a))
    BY <1>3, ChangeStatusKeeps
  <1>4. ASSUME register' = register, reviewed' = reviewed,
               impact' \in [of : Scenarios \cup {NoScenario}, code : Codes \cup {""}]
        PROVE  RegisterInv'
    <2>1. Reviewing' /\ OverridesKeepLineage'
      BY <1>4 DEF RegisterInv, Reviewing, OverridesKeepLineage
    <2>2. QED
      BY <1>4, <2>1 DEF RegisterInv
  <1>5. ASSUME NEW s \in Scenarios,
               (\E c \in Codes : PreviewAssumption(s, c)) \/ ShowAssumptions(s)
        PROVE  register' = register /\ RegisterInv'
    <2>1. /\ register' = register /\ reviewed' = reviewed
          /\ \E c \in Codes \cup {""}, o \in Scenarios \cup {NoScenario} : impact' = [of |-> o, code |-> c]
      BY <1>5 DEF PreviewAssumption, ShowAssumptions, NoImpact
    <2>2. impact' \in [of : Scenarios \cup {NoScenario}, code : Codes \cup {""}]
      <3>1. PICK c \in Codes \cup {""}, o \in Scenarios \cup {NoScenario} :
               impact' = [of |-> o, code |-> c]
        BY <2>1
      <3>2. [of |-> o, code |-> c] \in [of : Scenarios \cup {NoScenario}, code : Codes \cup {""}]
        OBVIOUS
      <3>3. QED
        BY <3>1, <3>2
    <2>3. QED
      BY <1>4, <2>1, <2>2
  <1>6. QED
    BY <1>1, <1>2, <1>3, <1>5 DEF Next

LEMMA RegisterInvariant == Spec => []RegisterInv
  <1>1. Init => RegisterInv
    <2> SUFFICES ASSUME Init PROVE RegisterInv
      OBVIOUS
    <2>1. /\ register = [parent |-> [s \in {Base} |-> NoScenario], assumptions |-> {}, version |-> 1]
          /\ impact = [of |-> NoScenario, code |-> ""]
      BY DEF Init, Fresh, NoImpact
    <2>2. Held(register) = {Base} /\ register.parent[Base] = NoScenario
      BY <2>1 DEF Held
    <2>3. Tree(register)
      BY <2>1, <2>2, FS_Singleton, RegisterAssumption DEF Tree
    <2>4. Records(register)
      BY <2>1 DEF Records
    <2>5. Reviewing /\ OverridesKeepLineage
      BY <2>1 DEF Reviewing, OverridesKeepLineage
    <2>6. QED
      BY <2>1, <2>3, <2>4, <2>5 DEF RegisterInv
  <1>2. RegisterInv /\ [Next]_vars => RegisterInv'
    <2> SUFFICES ASSUME RegisterInv, [Next]_vars PROVE RegisterInv'
      OBVIOUS
    <2>1. CASE Next
      BY <2>1, StepsKeep
    <2>2. CASE UNCHANGED vars
      <3>1. register' = register /\ reviewed' = reviewed /\ impact' = impact
        BY <2>2 DEF vars
      <3>2. Reviewing' /\ OverridesKeepLineage'
        BY <3>1 DEF RegisterInv, Reviewing, OverridesKeepLineage
      <3>3. QED
        BY <3>1, <3>2 DEF RegisterInv
    <2>3. QED
      BY <2>1, <2>2
  <1>3. QED
    BY <1>1, <1>2, PTL DEF Spec

-----------------------------------------------------------------------------
(* What follows *)

\* The lineage of every override can be followed (assumptions/scenarios.py,
\* override and with_assumption).
THEOREM LineageCanBeFollowed == Spec => []OverridesKeepLineage
  <1>1. RegisterInv => OverridesKeepLineage
    BY DEF RegisterInv
  <1>2. QED
    BY <1>1, RegisterInvariant, PTL

\* The register keeps its type.
THEOREM RegisterTypeCorrect == Spec => []TypeOK
  <1>1. RegisterInv => TypeOK
    BY DEF RegisterInv, Tree, Records, TypeOK
  <1>2. QED
    BY <1>1, RegisterInvariant, PTL

\* An approved record was reviewed at its present value and source
\* (assumptions/workflow.py, transition).
THEOREM ApprovedWasEverReviewed == Spec => []ApprovedWasReviewed
  <1>1. RegisterInv => ApprovedWasReviewed
    BY DEF RegisterInv, Reviewing, ApprovedWasReviewed, NeedsReviewer
  <1>2. QED
    BY <1>1, RegisterInvariant, PTL

\* A forecast that may calculate reads, for each required driver and year, the
\* one record the scenario resolves, reviewed as it stands: the order of lookup
\* of the engine's register (forecast/build.py, _register) agrees with resolve
\* once the gate (assumptions/workflow.py) is open.
THEOREM ForecastReadsTheReviewed == Spec => []ForecastReadsReviewedAnswers
  <1>1. ASSUME RegisterInv, NEW s \in Held(register), MayCalculate(register, s),
               NEW choice \in Required, NEW p \in Periods
        PROVE  \E c \in choice : \E a \in Resolve(register, s, c, p) :
                  /\ ForecastReads(register, s, c, p) = {a}
                  /\ \A d \in choice \ {c} : ForecastReads(register, s, d, p) = {}
                  /\ Judged(a) \in reviewed
                  /\ a.reviewer # NoOne
                  /\ EvidenceHolds(a)
    <2> DEFINE supplied == Supplied(register, s, choice, p)
               k == <<choice, p>>
    <2>1. Tree(register) /\ Records(register) /\ Reviewing
      BY <1>1 DEF RegisterInv
    <2>2. k \in Required \X Periods /\ k[1] = choice /\ k[2] = p
      OBVIOUS
    <2>3. supplied # {} /\ ~(Cardinality(supplied) > 1)
      BY <1>1, <2>2 DEF MayCalculate, Missing, Ambiguous
    <2>4. supplied \in SUBSET choice /\ IsFiniteSet(choice)
      BY RegisterAssumption DEF Supplied
    <2> HIDE DEF supplied
    <2>5. PICK c : supplied = {c}
      <3>1. IsFiniteSet(supplied)
        BY <2>4, FS_Subset
      <3>2. Cardinality(supplied) \in Nat /\ Cardinality(supplied) # 0
        BY <2>3, <3>1, FS_CardinalityType, FS_EmptySet
      <3>3. Cardinality(supplied) = 1
        BY <2>3, <3>2
      <3>4. QED
        BY <3>1, <3>3, FS_Singleton
    <2>6. /\ c \in choice /\ Resolve(register, s, c, p) # {}
          /\ \A d \in choice \ {c} : Resolve(register, s, d, p) = {}
      BY <2>5 DEF supplied, Supplied
    <2>7. PICK a \in Resolve(register, s, c, p) : TRUE
      BY <2>6
    <2>8. a.status \notin BlocksCalculation
      BY <1>1, <2>2, <2>5, <2>6, <2>7 DEF MayCalculate, Unresolved, supplied
    <2>9. a \in register.assumptions
      BY <2>1, <2>7, ResolveIs
    <2>10. a.status \in NeedsReviewer
      BY <2>1, <2>8, <2>9 DEF Records, Assumption, Statuses, BlocksCalculation, NeedsReviewer
    <2>11. ForecastReads(register, s, c, p) = {a}
      BY <2>1, <2>7, <2>8, ReadsTheAnswer
    <2>12. \A d \in choice \ {c} : ForecastReads(register, s, d, p) = {}
      BY <2>1, <2>6, ReadsNothing
    <2>13. QED
      BY <2>1, <2>6, <2>7, <2>9, <2>10, <2>11, <2>12 DEF Reviewing
  <1>2. RegisterInv => ForecastReadsReviewedAnswers
    BY <1>1 DEF ForecastReadsReviewedAnswers
  <1>3. QED
    BY <1>2, RegisterInvariant, PTL

LEMMA SameResolve ==
    ASSUME NEW set, NEW new, Tree(set), Records(set),
           \A t \in Held(set) : Lineage(new, t) = Lineage(set, t),
           NEW s \in Held(set), NEW c, NEW p, Visible(new, s, c) = Visible(set, s, c)
    PROVE  Resolve(new, s, c, p) = Resolve(set, s, c, p)
  <1>1. ASSUME NEW a \in set.assumptions, NEW b
        PROVE  MetBefore(new, a, b) <=> MetBefore(set, a, b)
    BY DEF MetBefore, Records
  <1>2. ASSUME NEW found \in SUBSET Visible(set, s, c)
        PROVE  FirstMet(new, found) = FirstMet(set, found)
    BY <1>1 DEF FirstMet, Visible
  <1>3. /\ Specific(new, s, c, p) = Specific(set, s, c, p)
        /\ General(new, s, c) = General(set, s, c)
        /\ Specific(set, s, c, p) \in SUBSET Visible(set, s, c)
        /\ General(set, s, c) \in SUBSET Visible(set, s, c)
    BY DEF Specific, General
  <1>4. /\ Resolve(new, s, c, p) =
              IF Specific(new, s, c, p) # {} THEN FirstMet(new, Specific(new, s, c, p))
                                             ELSE FirstMet(new, General(new, s, c))
        /\ Resolve(set, s, c, p) =
              IF Specific(set, s, c, p) # {} THEN FirstMet(set, Specific(set, s, c, p))
                                             ELSE FirstMet(set, General(set, s, c))
    BY DEF Resolve, Specific, General
  <1>5. QED
    BY <1>2, <1>3, <1>4

\* What a scenario resolves moves only with a record of that driver put into
\* its own lineage (assumptions/scenarios.py, with_assumption and resolve).
THEOREM VariantsDoNotDisturb == Spec => AnswersMoveInTheirBranch
  <1> DEFINE Moves ==
        register' # register => \A s \in Held(register), c \in Codes, p \in Periods :
          Resolve(register', s, c, p) # Resolve(register, s, c, p) =>
              \E a \in register'.assumptions \ register.assumptions :
                 a.code = c /\ a.scenario \in Lineage(register, s)
  <1>1. RegisterInv /\ [Next]_vars => Moves
    <2> SUFFICES ASSUME RegisterInv, [Next]_vars, register' # register,
                        NEW s \in Held(register), NEW c \in Codes, NEW p \in Periods,
                        Resolve(register', s, c, p) # Resolve(register, s, c, p)
                 PROVE  \E a \in register'.assumptions \ register.assumptions :
                           a.code = c /\ a.scenario \in Lineage(register, s)
      OBVIOUS
    <2>1. Tree(register) /\ Records(register)
      BY DEF RegisterInv
    <2>2. \/ \E t, parent \in Scenarios : AddScenario(t, parent)
          \/ \E a \in Assumption : Save(WithAssumption(register, a))
      BY StepsKeep DEF vars
    <2>3. ASSUME NEW t \in Scenarios, NEW parent \in Scenarios, AddScenario(t, parent)
          PROVE  FALSE
      <3>1. /\ register'.assumptions = register.assumptions
            /\ \A x \in Held(register) : Lineage(register', x) = Lineage(register, x)
        BY <2>3, AddScenarioKeeps
      <3>2. Visible(register', s, c) = Visible(register, s, c)
        BY <3>1 DEF Visible
      <3>3. QED
        BY <2>1, <3>1, <3>2, SameResolve
    <2>4. ASSUME NEW a \in Assumption, Save(WithAssumption(register, a))
          PROVE  \E b \in register'.assumptions \ register.assumptions :
                    b.code = c /\ b.scenario \in Lineage(register, s)
      <3> DEFINE new == [a EXCEPT !.at = register.version + 1]
                 now == register'.assumptions
      <3>1. Put(a)
        BY <2>4, PutIs
      <3>2. /\ register' = [parent |-> register.parent, assumptions |-> now,
                            version |-> register.version + 1]
            /\ new.at = register.version + 1
            /\ now \subseteq register.assumptions \cup {new} /\ new \in now
            /\ \A b \in register.assumptions \ now : b.scenario = new.scenario /\ b.code = new.code
        BY <3>1 DEF Put
      <3> HIDE DEF new
      <3>3. register'.parent = register.parent
        BY <3>2
      <3>4. \A x : Lineage(register', x) = Lineage(register, x)
        BY <3>3, LineageOfParents
      <3>5. new \notin register.assumptions
        BY <2>1, <3>2 DEF Records, Assumption
      <3>6. new.code = c /\ new.scenario \in Lineage(register, s)
        <4>1. SUFFICES ASSUME ~(new.code = c /\ new.scenario \in Lineage(register, s))
                       PROVE  FALSE
          OBVIOUS
        <4>2. Visible(register', s, c) = Visible(register, s, c)
          BY <3>2, <3>4, <4>1 DEF Visible
        <4>3. QED
          BY <2>1, <3>4, <4>2, SameResolve
      <3>7. QED
        BY <3>2, <3>5, <3>6
    <2>5. QED
      BY <2>2, <2>3, <2>4
  <1>2. QED
    BY <1>1, RegisterInvariant, PTL DEF Spec, AnswersMoveInTheirBranch

=============================================================================
