---------------------------- MODULE AccessProofs ----------------------------
(***************************************************************************)
(* What the limiter and the guard guarantee for every number of addresses, *)
(* sign-ins and tabs, every window and lifetime, and wherever the process  *)
(* restarts.                                                               *)
(***************************************************************************)
EXTENDS Access, SequenceTheorems, WellFoundedInduction, TLAPS

-----------------------------------------------------------------------------
(* Popping from the left *)

\* A set of natural numbers that is not empty has a least member.
LEMMA LeastNatural ==
    ASSUME NEW T \in SUBSET Nat, T # {}
    PROVE  \E n \in T : \A k \in T : n <= k
  <1> DEFINE R == OpToRel(<, Nat)
  <1>1. PICK n \in T : \A k \in T : ~ (<<k, n>> \in R)
    BY NatLessThanWellFounded, WFMin
  <1>2. ASSUME NEW k \in T
        PROVE  n <= k
    <2>1. k < n => <<k, n>> \in R
      BY DEF OpToRel
    <2>2. ~ (k < n)
      BY <1>1, <2>1
    <2> HIDE DEF R
    <2>3. QED
      BY <2>2
  <1>3. QED
    BY <1>2

\* The loop of RateLimit.check ends, and what it ends with is the rest of the
\* sequence from its first member outside S on.
LEMMA PopLeftProperties ==
    ASSUME NEW D, NEW s \in Seq(D), NEW S
    PROVE  \E n \in 0 .. Len(s) :
              /\ PopLeft(s, S) = SubSeq(s, n + 1, Len(s))
              /\ \A i \in 1 .. n : s[i] \in S
              /\ n < Len(s) => s[n + 1] \notin S
  <1> DEFINE T == {n \in Nat : n <= Len(s) /\ (n < Len(s) => s[n + 1] \notin S)}
             Popped(n) == /\ \A i \in 1 .. n : s[i] \in S
                          /\ n < Len(s) => s[n + 1] \notin S
  <1>1. Len(s) \in T
    BY LenProperties
  <1>2. PICK n \in T : \A k \in T : n <= k
    BY <1>1, LeastNatural
  <1>3. n \in 0 .. Len(s) /\ Popped(n)
    <2>1. ASSUME NEW i \in 1 .. n PROVE s[i] \in S
      <3>1. i - 1 \in Nat /\ i - 1 < n /\ i - 1 < Len(s) /\ (i - 1) + 1 = i
        BY <1>2, LenProperties
      <3>2. i - 1 \notin T
        BY <3>1, <1>2
      <3>3. QED
        BY <3>1, <3>2, LenProperties
    <2>2. QED
      BY <1>2, <2>1, LenProperties
  <1>4. Popped(CHOOSE k \in 0 .. Len(s) : Popped(k)) /\ (CHOOSE k \in 0 .. Len(s) : Popped(k)) \in 0 .. Len(s)
    BY <1>3
  <1>5. PopLeft(s, S) = SubSeq(s, (CHOOSE k \in 0 .. Len(s) : Popped(k)) + 1, Len(s))
    BY DEF PopLeft
  <1>6. QED
    BY <1>4, <1>5

-----------------------------------------------------------------------------
(* The limiter *)

Horizon == Seconds(Window)
Ticks == 0 .. Horizon
Ages == 0 .. Horizon - 1

LEMMA HorizonIsPositive == Horizon \in Nat /\ Horizon > 0
  BY AccessAssumption DEF Horizon, Seconds

LEMMA AllowedIsPositive == Allowed \in Nat /\ Allowed > 0
  BY AccessAssumption

\* The attempts recorded are the admitted ones: those that are over come
\* first, and the others count for what their age leaves of the window.
Matches(recorded, ages) ==
    LET over == Len(recorded) - Len(ages)
    IN  /\ over >= 0
        /\ \A i \in 1 .. over : recorded[i] = 0
        /\ \A i \in 1 .. Len(ages) : recorded[over + i] = Horizon - ages[i]

\* The oldest comes first.
OldestFirst(ages) == \A i, j \in 1 .. Len(ages) : i <= j => ages[j] <= ages[i]

\* What counts of the recorded attempts is as many as were admitted.
LEMMA CountedAreAdmitted ==
    ASSUME NEW recorded \in Seq(Ticks), NEW ages \in Seq(Ages), Matches(recorded, ages)
    PROVE  PopLeft(recorded, {0}) = SubSeq(recorded, Len(recorded) - Len(ages) + 1, Len(recorded))
  <1> DEFINE over == Len(recorded) - Len(ages)
  <1>1. PICK n \in 0 .. Len(recorded) :
            /\ PopLeft(recorded, {0}) = SubSeq(recorded, n + 1, Len(recorded))
            /\ \A i \in 1 .. n : recorded[i] \in {0}
            /\ n < Len(recorded) => recorded[n + 1] \notin {0}
    BY PopLeftProperties
  <1>2. Len(recorded) \in Nat /\ Len(ages) \in Nat /\ over \in 0 .. Len(recorded)
    BY LenProperties DEF Matches
  <1>3. \A i \in 1 .. over : recorded[i] = 0
    BY DEF Matches
  <1>4. ASSUME NEW i \in 1 .. Len(ages)
        PROVE  recorded[over + i] # 0
    <2>1. ages[i] \in Ages
      BY ElementOfSeq
    <2>2. recorded[over + i] = Horizon - ages[i]
      BY DEF Matches
    <2>3. QED
      BY <2>1, <2>2, HorizonIsPositive DEF Ages
  <1>5. ~ (n < over)
    BY <1>1, <1>2, <1>3
  <1>6. ~ (over < n)
    <2>1. over < n => over + 1 \in 1 .. n /\ 1 \in 1 .. Len(ages)
      BY <1>2
    <2>2. QED
      BY <1>1, <1>4, <2>1
  <1>7. n = over
    BY <1>2, <1>5, <1>6
  <1>8. QED
    BY <1>1, <1>7

\* Recording another attempt keeps the two in step: what is over is popped,
\* and the new one has the whole window before it.
LEMMA AdmittingMatches ==
    ASSUME NEW recorded \in Seq(Ticks), NEW ages \in Seq(Ages),
           Matches(recorded, ages), OldestFirst(ages)
    PROVE  LET live == PopLeft(recorded, {0})
           IN  /\ live \in Seq(Ticks)
               /\ Len(live) = Len(ages)
               /\ Matches(live, ages)
               /\ Append(live, Horizon) \in Seq(Ticks)
               /\ Append(ages, 0) \in Seq(Ages)
               /\ Len(Append(live, Horizon)) = Len(ages) + 1
               /\ Matches(Append(live, Horizon), Append(ages, 0))
               /\ OldestFirst(Append(ages, 0))
  <1> DEFINE over == Len(recorded) - Len(ages)
             live == PopLeft(recorded, {0})
  <1>1. Len(recorded) \in Nat /\ Len(ages) \in Nat /\ over \in 0 .. Len(recorded)
    BY LenProperties DEF Matches
  <1>2. live = SubSeq(recorded, over + 1, Len(recorded))
    BY CountedAreAdmitted
  <1>3. \A i \in over + 1 .. Len(recorded) : recorded[i] \in Ticks
    BY <1>1, ElementOfSeq
  <1>4. /\ live \in Seq(Ticks)
        /\ Len(live) = Len(ages)
        /\ \A i \in 1 .. Len(ages) : live[i] = recorded[over + i]
    <2> HIDE DEF live
    <2>1. /\ SubSeq(recorded, over + 1, Len(recorded)) \in Seq(Ticks)
          /\ Len(SubSeq(recorded, over + 1, Len(recorded))) =
                 IF over + 1 <= Len(recorded) THEN Len(recorded) - (over + 1) + 1 ELSE 0
          /\ \A i \in 1 .. Len(recorded) - (over + 1) + 1 :
                 SubSeq(recorded, over + 1, Len(recorded))[i] = recorded[over + 1 + i - 1]
      BY <1>1, <1>3, SubSeqProperties
    <2>2. Len(recorded) - (over + 1) + 1 = Len(ages)
      BY <1>1
    <2>3. \A i \in 1 .. Len(ages) : over + 1 + i - 1 = over + i
      BY <1>1
    <2>4. QED
      BY <1>1, <1>2, <2>1, <2>2, <2>3
  <1>5. Matches(live, ages)
    BY <1>1, <1>4 DEF Matches
  <1> HIDE DEF live
  <1>6. Horizon \in Ticks /\ 0 \in Ages
    BY HorizonIsPositive DEF Ticks, Ages
  <1>7. /\ Append(live, Horizon) \in Seq(Ticks)
        /\ Len(Append(live, Horizon)) = Len(ages) + 1
        /\ \A i \in 1 .. Len(ages) : Append(live, Horizon)[i] = live[i]
        /\ Append(live, Horizon)[Len(ages) + 1] = Horizon
    BY <1>4, <1>6, AppendProperties
  <1>8. /\ Append(ages, 0) \in Seq(Ages)
        /\ Len(Append(ages, 0)) = Len(ages) + 1
        /\ \A i \in 1 .. Len(ages) : Append(ages, 0)[i] = ages[i]
        /\ Append(ages, 0)[Len(ages) + 1] = 0
    BY <1>6, AppendProperties
  <1>9. \A i \in 1 .. Len(ages) : ages[i] \in Ages
    BY ElementOfSeq
  <1>10. Matches(Append(live, Horizon), Append(ages, 0))
    BY <1>1, <1>4, <1>5, <1>7, <1>8, HorizonIsPositive DEF Matches
  <1>11. OldestFirst(Append(ages, 0))
    BY <1>1, <1>8, <1>9, HorizonIsPositive DEF OldestFirst, Ages
  <1>12. QED
    BY <1>4, <1>5, <1>7, <1>8, <1>10, <1>11 DEF live

\* So does the passing of time: an attempt stops counting in the tick in which
\* it has been in the window for all of it.
Aged(recorded) == [i \in DOMAIN recorded |-> IF recorded[i] = 0 THEN 0 ELSE recorded[i] - 1]
Older(ages) == PopLeft([i \in DOMAIN ages |-> ages[i] + 1], {Horizon})

LEMMA AgingMatches ==
    ASSUME NEW recorded \in Seq(Ticks), NEW ages \in Seq(Ages),
           Matches(recorded, ages), OldestFirst(ages)
    PROVE  /\ Aged(recorded) \in Seq(Ticks)
           /\ Len(Aged(recorded)) = Len(recorded)
           /\ Older(ages) \in Seq(Ages)
           /\ Matches(Aged(recorded), Older(ages))
           /\ OldestFirst(Older(ages))
  <1> DEFINE grown == [i \in DOMAIN ages |-> ages[i] + 1]
             rest(n) == SubSeq(grown, n + 1, Len(grown))
  <1>1. /\ Len(recorded) \in Nat /\ DOMAIN recorded = 1 .. Len(recorded)
        /\ Len(ages) \in Nat /\ DOMAIN ages = 1 .. Len(ages)
    BY LenProperties
  <1>2. /\ \A i \in 1 .. Len(recorded) : recorded[i] \in Ticks
        /\ \A i \in 1 .. Len(ages) : ages[i] \in Ages
    BY ElementOfSeq
  <1>3. /\ grown \in Seq(Ticks) /\ Len(grown) = Len(ages)
        /\ \A i \in 1 .. Len(ages) : grown[i] = ages[i] + 1
    BY <1>1, <1>2, HorizonIsPositive, IsASeq DEF Ages, Ticks
  <1>4. /\ Aged(recorded) \in Seq(Ticks) /\ Len(Aged(recorded)) = Len(recorded)
        /\ \A i \in 1 .. Len(recorded) :
              Aged(recorded)[i] = IF recorded[i] = 0 THEN 0 ELSE recorded[i] - 1
    BY <1>1, <1>2, HorizonIsPositive DEF Aged, Ticks
  <1> HIDE DEF grown
  <1>5. PICK n \in 0 .. Len(grown) :
            /\ Older(ages) = rest(n)
            /\ \A i \in 1 .. n : grown[i] \in {Horizon}
            /\ n < Len(grown) => grown[n + 1] \notin {Horizon}
    <2>1. Older(ages) = PopLeft(grown, {Horizon})
      BY DEF Older, grown
    <2>2. QED
      BY <1>3, <2>1, PopLeftProperties
  <1>6. \A i \in n + 1 .. Len(ages) : ages[i] + 1 < Horizon
    <2> SUFFICES ASSUME NEW i \in n + 1 .. Len(ages) PROVE ages[i] + 1 < Horizon
      OBVIOUS
    <2>1. n + 1 \in 1 .. Len(ages) /\ i \in 1 .. Len(ages) /\ n + 1 <= i
      BY <1>1, <1>3
    <2>2. ages[n + 1] \in Ages /\ ages[n + 1] + 1 # Horizon /\ ages[i] <= ages[n + 1] /\ ages[i] \in Ages
      BY <1>1, <1>2, <1>3, <1>5, <2>1 DEF OldestFirst
    <2>3. QED
      BY <1>1, <1>3, <2>2, HorizonIsPositive DEF Ages
  <1>7. /\ rest(n) \in Seq(Ages) /\ Len(rest(n)) = Len(ages) - n
        /\ \A i \in 1 .. Len(ages) - n : rest(n)[i] = ages[n + i] + 1
    <2>1. \A i \in n + 1 .. Len(grown) : grown[i] \in Ages
      BY <1>1, <1>2, <1>3, <1>6, HorizonIsPositive DEF Ages
    <2>2. n + 1 \in Int /\ Len(grown) \in Int
      BY <1>1, <1>3
    <2>3. /\ rest(n) \in Seq(Ages)
          /\ Len(rest(n)) = IF n + 1 <= Len(grown) THEN Len(grown) - (n + 1) + 1 ELSE 0
          /\ \A i \in 1 .. Len(grown) - (n + 1) + 1 : rest(n)[i] = grown[n + 1 + i - 1]
      BY <2>1, <2>2, SubSeqProperties
    <2>4. \A i \in 1 .. Len(ages) - n : n + 1 + i - 1 = n + i /\ n + i \in 1 .. Len(ages)
      BY <1>1, <1>3
    <2>5. Len(grown) - (n + 1) + 1 = Len(ages) - n
      BY <1>1, <1>3
    <2> HIDE DEF rest
    <2>6. ASSUME NEW i \in 1 .. Len(ages) - n
          PROVE  rest(n)[i] = ages[n + i] + 1
      <3>1. rest(n)[i] = grown[n + i]
        BY <2>3, <2>4, <2>5
      <3>2. QED
        BY <1>3, <2>4, <3>1
    <2>7. Len(rest(n)) = Len(ages) - n
      <3>1. n \in 0 .. Len(ages) /\ Len(ages) \in Nat /\ Len(grown) = Len(ages)
        BY <1>1, <1>3
      <3>2. (IF n + 1 <= Len(ages) THEN Len(ages) - (n + 1) + 1 ELSE 0) = Len(ages) - n
        BY <3>1
      <3>3. QED
        BY <2>3, <3>1, <3>2
    <2>8. QED
      BY <2>3, <2>6, <2>7
  <1> HIDE DEF rest
  <1>8. Matches(Aged(recorded), rest(n))
    <2> DEFINE over == Len(recorded) - Len(ages)
    <2>1. over \in 0 .. Len(recorded) /\ n \in 0 .. Len(ages)
      BY <1>1, <1>3 DEF Matches
    <2>2. Len(Aged(recorded)) - Len(rest(n)) = over + n
      BY <1>1, <1>4, <1>7, <2>1
    <2>3. \A i \in 1 .. over + n : Aged(recorded)[i] = 0
      <3> SUFFICES ASSUME NEW i \in 1 .. over + n PROVE Aged(recorded)[i] = 0
        OBVIOUS
      <3>1. CASE i <= over
        <4>1. recorded[i] = 0
          BY <1>1, <2>1, <3>1 DEF Matches
        <4>2. QED
          BY <1>1, <1>4, <2>1, <3>1, <4>1
      <3>2. CASE i > over
        <4> DEFINE j == i - over
        <4>1. j \in 1 .. n /\ j \in 1 .. Len(ages) /\ over + j = i /\ i \in 1 .. Len(recorded)
          BY <1>1, <2>1, <3>2
        <4>2. ages[j] + 1 = Horizon
          BY <1>3, <1>5, <4>1
        <4>3. recorded[over + j] = Horizon - ages[j]
          BY <4>1 DEF Matches
        <4>4. recorded[i] = 1
          BY <1>2, <4>1, <4>2, <4>3, HorizonIsPositive DEF Ages
        <4>5. QED
          BY <1>4, <4>1, <4>4
      <3>3. QED
        BY <2>1, <3>1, <3>2
    <2>4. \A i \in 1 .. Len(rest(n)) : Aged(recorded)[over + n + i] = Horizon - rest(n)[i]
      <3> SUFFICES ASSUME NEW i \in 1 .. Len(rest(n))
                   PROVE  Aged(recorded)[over + n + i] = Horizon - rest(n)[i]
        OBVIOUS
      <3> DEFINE j == n + i
      <3>1. j \in 1 .. Len(ages) /\ j \in n + 1 .. Len(ages) /\ over + j \in 1 .. Len(recorded)
        BY <1>1, <1>7, <2>1
      <3>2. recorded[over + j] = Horizon - ages[j] /\ ages[j] + 1 < Horizon /\ ages[j] \in Ages
        BY <1>2, <1>6, <3>1 DEF Matches
      <3>3. Aged(recorded)[over + j] = Horizon - (ages[j] + 1)
        <4> HIDE DEF j, over
        <4>1. Aged(recorded)[over + j] = IF recorded[over + j] = 0 THEN 0 ELSE recorded[over + j] - 1
          BY <1>4, <3>1
        <4>2. \A r, a \in Int : r = Horizon - a /\ a + 1 < Horizon => r # 0 /\ r - 1 = Horizon - (a + 1)
          BY HorizonIsPositive
        <4>3. recorded[over + j] \in Int /\ ages[j] \in Int
          BY <1>2, <3>1 DEF Ages, Ticks
        <4>4. QED
          BY <3>2, <4>1, <4>2, <4>3
      <3>4. over + n + i = over + j
        BY <1>1, <1>7, <2>1
      <3>5. QED
        BY <1>7, <3>3, <3>4
    <2>5. over + n >= 0
      BY <1>1, <1>3, <2>1
    <2> HIDE DEF over
    <2>6. QED
      BY <2>2, <2>3, <2>4, <2>5 DEF Matches
  <1>9. OldestFirst(rest(n))
    <2> SUFFICES ASSUME NEW i \in 1 .. Len(rest(n)), NEW j \in 1 .. Len(rest(n)), i <= j
                 PROVE  rest(n)[j] <= rest(n)[i]
      BY DEF OldestFirst
    <2>1. n + i \in 1 .. Len(ages) /\ n + j \in 1 .. Len(ages) /\ n + i <= n + j
      BY <1>1, <1>3, <1>7
    <2>2. ages[n + j] <= ages[n + i] /\ ages[n + j] \in Ages /\ ages[n + i] \in Ages
      BY <1>2, <2>1 DEF OldestFirst
    <2>3. QED
      BY <1>1, <1>3, <1>7, <2>2, HorizonIsPositive DEF Ages
  <1>10. QED
    BY <1>4, <1>5, <1>7, <1>8, <1>9

\* Seconds until the oldest attempt stops counting are enough ticks for it.
LEMMA RetryAfterCovers ==
    ASSUME NEW live \in Seq(Ticks), live # << >>
    PROVE  Seconds(RetryAfter(live)) \in Nat /\ live[1] <= Seconds(RetryAfter(live))
  <1>1. Head(live) = live[1] /\ Len(live) >= 1
    BY EmptySeq
  <1>2. live[1] \in Nat
    BY <1>1, ElementOfSeq, LenProperties, HorizonIsPositive DEF Ticks
  <1>3. \A n \in Nat : 2 * ((n \div 2) + 1) \in Nat /\ n <= 2 * ((n \div 2) + 1)
    OBVIOUS
  <1>4. QED
    BY <1>1, <1>2, <1>3 DEF RetryAfter, Seconds

LEMMA NothingRecorded == Matches(<< >>, << >>) /\ OldestFirst(<< >>)
  BY EmptySeq DEF Matches, OldestFirst

-----------------------------------------------------------------------------
(* The invariant *)

\* What the limiter records of an address is bounded and is what was admitted;
\* while the address waits for what it was told, its oldest attempt is over by
\* then or it has not used up its attempts.
LimiterInv ==
    /\ events \in [Clients -> Seq(Ticks)]
    /\ admitted \in [Clients -> Seq(Ages)]
    /\ promise \in [Clients -> Int]
    /\ attempt \in [Attempts -> {NoAttempt} \cup [client : Clients, right : BOOLEAN]]
    /\ \A c \in Clients :
          /\ Len(events[c]) <= Allowed
          /\ Matches(events[c], admitted[c])
          /\ OldestFirst(admitted[c])
          /\ promise[c] >= 0 => Len(events[c]) < Allowed \/ events[c][1] <= promise[c]

\* The keys and the sessions are numbered as they are made, and a form carries
\* a token of the session it was served to.
GuardInv ==
    /\ restarts \in 0 .. MaxRestarts
    /\ key \in 0 .. restarts
    /\ half \in {0, 1}
    /\ nonces \in Nat
    /\ \/ cookie = NoCookie
       \/ cookie \in [nonce : 1 .. nonces, key : Nat, age : Int, real : Int]
    /\ form \in [Tabs -> {NoForm} \cup [under : Nat, token : Nat \X Nat]]
    /\ \A t \in Tabs : form[t] # NoForm => form[t].token[2] = form[t].under

\* What the wall clock and the real time say of a session differ by what the
\* clock was set back and by the fraction of a second cut off, up to the bounds
\* beyond which neither is counted.
ClockInv ==
    /\ back \in 0 .. MaxBack
    /\ cookie # NoCookie =>
          /\ -back <= cookie.age /\ cookie.age <= Lifetime + MaxBack
          /\ cookie.real \in 0 .. Seconds(Lifetime + MaxBack) + 1
          /\ Seconds(cookie.age) + half <= cookie.real + 1
          /\ \/ cookie.real <= Seconds(cookie.age + back) + half
             \/ Lifetime + MaxBack <= cookie.age + back

AccessInv == LimiterInv /\ GuardInv /\ ClockInv /\ StaleFormsDoNothing

LEMMA InitInv == Init => AccessInv
  <1> SUFFICES ASSUME Init PROVE AccessInv
    OBVIOUS
  <1>1. << >> \in Seq(Ticks) /\ << >> \in Seq(Ages) /\ Len(<< >>) = 0
    BY EmptySeq
  <1>2. LimiterInv
    <2>1. \A c \in Clients : Matches(events[c], admitted[c]) /\ OldestFirst(admitted[c])
      BY NothingRecorded DEF Init
    <2>2. \A c \in Clients : Len(events[c]) < Allowed
      BY <1>1, AllowedIsPositive DEF Init
    <2>3. QED
      BY <1>1, <2>1, <2>2, AllowedIsPositive DEF Init, LimiterInv, NoPromise
  <1>3. GuardInv /\ StaleFormsDoNothing
    BY AccessAssumption DEF Init, GuardInv, StaleFormsDoNothing, NoForm, NoCookie
  <1>4. ClockInv
    BY AccessAssumption DEF Init, ClockInv
  <1>5. QED
    BY <1>2, <1>3, <1>4 DEF AccessInv

\* A sign-in that is admitted uses one attempt up; one that is refused is told
\* to wait until the oldest is over.
LEMMA CheckKeepsLimiter ==
    ASSUME NEW c \in Clients, NEW a \in Attempts, NEW right \in BOOLEAN,
           LimiterInv, Check(c, a, right)
    PROVE  LimiterInv'
  <1> DEFINE live == Counting(c)
             recorded == Append(live, Horizon)
             ages == Append(admitted[c], 0)
  <1>1. /\ events[c] \in Seq(Ticks) /\ admitted[c] \in Seq(Ages)
        /\ Matches(events[c], admitted[c]) /\ OldestFirst(admitted[c])
        /\ Len(events[c]) <= Allowed
    BY DEF LimiterInv
  <1>2. /\ live \in Seq(Ticks) /\ Len(live) = Len(admitted[c]) /\ Len(live) \in Nat
        /\ Matches(live, admitted[c])
        /\ recorded \in Seq(Ticks) /\ ages \in Seq(Ages)
        /\ Len(recorded) = Len(live) + 1
        /\ Matches(recorded, ages) /\ OldestFirst(ages)
    BY <1>1, AdmittingMatches, LenProperties DEF Counting
  <1>3. Len(live) <= Allowed
    <2>1. Len(events[c]) \in Nat /\ Len(events[c]) - Len(admitted[c]) >= 0
      BY <1>1, LenProperties DEF Matches
    <2>2. QED
      BY <1>1, <1>2, <2>1, AllowedIsPositive
  <1>4. CASE Len(live) < Allowed
    <2>1. /\ events' = [events EXCEPT ![c] = recorded]
          /\ attempt' = [attempt EXCEPT ![a] = [client |-> c, right |-> right]]
          /\ admitted' = [admitted EXCEPT ![c] = ages]
          /\ promise' = [promise EXCEPT ![c] = NoPromise]
      BY <1>4 DEF Check, Horizon, LimiterInv
    <2> HIDE DEF recorded, ages, live
    <2>2. Len(recorded) <= Allowed
      BY <1>2, <1>4, AllowedIsPositive
    <2>3. QED
      BY <1>2, <2>1, <2>2 DEF LimiterInv, NoPromise
  <1>5. CASE ~ (Len(live) < Allowed)
    <2> DEFINE wait == Seconds(RetryAfter(live))
    <2>1. /\ events' = [events EXCEPT ![c] = live]
          /\ promise' = [promise EXCEPT ![c] = wait]
          /\ UNCHANGED <<attempt, admitted>>
      BY <1>5 DEF Check
    <2>2. live # << >>
      BY <1>2, <1>5, AllowedIsPositive, EmptySeq
    <2> HIDE DEF live
    <2>3. wait \in Nat /\ live[1] <= wait
      BY <1>2, <2>2, RetryAfterCovers
    <2> HIDE DEF wait
    <2>4. QED
      BY <1>1, <1>2, <1>3, <2>1, <2>3 DEF LimiterInv
  <1>6. QED
    BY <1>4, <1>5

\* A success and a restart leave nothing recorded of an address.
LEMMA SignInKeepsLimiter ==
    ASSUME NEW a \in Attempts, LimiterInv, SignIn(a)
    PROVE  LimiterInv'
  <1> DEFINE c == attempt[a].client
  <1>1. << >> \in Seq(Ticks) /\ << >> \in Seq(Ages) /\ Len(<< >>) = 0
    BY EmptySeq
  <1>2. c \in Clients
    BY DEF LimiterInv, SignIn
  <1>3. /\ events' = [events EXCEPT ![c] = << >>]
        /\ admitted' = [admitted EXCEPT ![c] = << >>]
        /\ attempt' = [attempt EXCEPT ![a] = NoAttempt]
        /\ promise' = promise
    BY DEF SignIn
  <1> HIDE DEF c
  <1>4. QED
    BY <1>1, <1>2, <1>3, NothingRecorded, AllowedIsPositive DEF LimiterInv

LEMMA RestartKeepsLimiter ==
    ASSUME LimiterInv, Restart
    PROVE  LimiterInv'
  <1>1. << >> \in Seq(Ticks) /\ << >> \in Seq(Ages) /\ Len(<< >>) = 0
    BY EmptySeq
  <1>2. QED
    BY <1>1, NothingRecorded, AllowedIsPositive DEF LimiterInv, Restart, NoPromise

\* Time takes as much from what an address was told as from its oldest attempt.
LEMMA TickKeepsLimiter ==
    ASSUME LimiterInv, Tick
    PROVE  LimiterInv'
  <1>1. /\ events' = [c \in Clients |-> Aged(events[c])]
        /\ admitted' = [c \in Clients |-> Older(admitted[c])]
        /\ promise' = [c \in Clients |-> IF promise[c] > 0 THEN promise[c] - 1 ELSE promise[c]]
        /\ attempt' = attempt
    BY DEF Tick, Aged, Older, Horizon
  <1>2. ASSUME NEW c \in Clients
        PROVE  /\ events'[c] \in Seq(Ticks) /\ admitted'[c] \in Seq(Ages) /\ promise'[c] \in Int
               /\ Len(events'[c]) <= Allowed
               /\ Matches(events'[c], admitted'[c]) /\ OldestFirst(admitted'[c])
               /\ promise'[c] >= 0 => Len(events'[c]) < Allowed \/ events'[c][1] <= promise'[c]
    <2>1. /\ events[c] \in Seq(Ticks) /\ admitted[c] \in Seq(Ages) /\ promise[c] \in Int
          /\ Matches(events[c], admitted[c]) /\ OldestFirst(admitted[c])
          /\ Len(events[c]) <= Allowed
          /\ promise[c] >= 0 => Len(events[c]) < Allowed \/ events[c][1] <= promise[c]
      BY DEF LimiterInv
    <2>2. /\ Aged(events[c]) \in Seq(Ticks) /\ Len(Aged(events[c])) = Len(events[c])
          /\ Older(admitted[c]) \in Seq(Ages)
          /\ Matches(Aged(events[c]), Older(admitted[c])) /\ OldestFirst(Older(admitted[c]))
      BY <2>1, AgingMatches
    <2>3. /\ events'[c] = Aged(events[c]) /\ admitted'[c] = Older(admitted[c])
          /\ promise'[c] = IF promise[c] > 0 THEN promise[c] - 1 ELSE promise[c]
      BY <1>1
    <2>4. ASSUME promise'[c] >= 0, ~ (Len(events[c]) < Allowed)
          PROVE  events'[c][1] <= promise'[c]
      <3>1. promise[c] >= 0
        BY <2>1, <2>3, <2>4
      <3>2. events[c][1] <= promise[c]
        BY <2>1, <2>4, <3>1
      <3>3. 1 \in DOMAIN events[c] /\ events[c][1] \in Nat
        BY <2>1, <2>4, AllowedIsPositive, LenProperties, ElementOfSeq, HorizonIsPositive DEF Ticks
      <3>4. events'[c][1] = IF events[c][1] = 0 THEN 0 ELSE events[c][1] - 1
        BY <2>3, <3>3 DEF Aged
      <3>5. QED
        BY <2>1, <2>3, <2>4, <3>2, <3>3, <3>4
    <2>5. QED
      BY <2>1, <2>2, <2>3, <2>4
  <1>3. /\ events' = [c \in Clients |-> events'[c]]
        /\ admitted' = [c \in Clients |-> admitted'[c]]
        /\ promise' = [c \in Clients |-> promise'[c]]
    BY <1>1
  <1>4. QED
    BY <1>1, <1>2, <1>3 DEF LimiterInv

-----------------------------------------------------------------------------
(* The guard *)

\* What is performed is performed under the session of its form: the guard
\* compares the form's token with that of the session it honours, and no two
\* sessions have the same.
LEMMA MayPostOwnForms ==
    ASSUME NEW t \in Tabs, GuardInv, MayPost(t)
    PROVE  form[t].under = cookie.nonce
  <1>1. form[t] # NoForm /\ form[t].token = <<key, cookie.nonce>>
    BY DEF MayPost, TokenFor
  <1>2. form[t].token[2] = form[t].under
    BY <1>1 DEF GuardInv
  <1>3. QED
    BY <1>1, <1>2

LEMMA GuardStep ==
    ASSUME AccessInv, [Next]_vars
    PROVE  GuardInv' /\ StaleFormsDoNothing'
  <1> USE DEF AccessInv, limiter, browser, process
  <1>1. ASSUME NEW c \in Clients, NEW a \in Attempts, NEW right \in BOOLEAN, Check(c, a, right)
        PROVE  GuardInv' /\ StaleFormsDoNothing'
    BY <1>1 DEF Check, GuardInv, StaleFormsDoNothing
  <1>2. ASSUME NEW a \in Attempts, Reject(a)
        PROVE  GuardInv' /\ StaleFormsDoNothing'
    BY <1>2 DEF Reject, GuardInv, StaleFormsDoNothing
  <1>3. ASSUME NEW a \in Attempts, SignIn(a)
        PROVE  GuardInv' /\ StaleFormsDoNothing'
    <2>1. nonces' \in Nat /\ nonces + 1 \in 1 .. nonces' /\ key \in Nat
      BY <1>3, AccessAssumption DEF SignIn, GuardInv
    <2>2. cookie' \in [nonce : 1 .. nonces', key : Nat, age : Int, real : Int]
      BY <1>3, <2>1 DEF SignIn
    <2>3. QED
      BY <1>3, <2>1, <2>2 DEF SignIn, GuardInv, StaleFormsDoNothing
  <1>4. ASSUME NEW t \in Tabs, OpenPage(t)
        PROVE  GuardInv' /\ StaleFormsDoNothing'
    <2> DEFINE served == [under |-> cookie.nonce, token |-> TokenFor(key, cookie.nonce)]
    <2>1. Honoured(cookie) => /\ served \in [under : Nat, token : Nat \X Nat]
                              /\ served.token[2] = served.under
      BY AccessAssumption DEF Honoured, GuardInv, TokenFor
    <2>2. form' = [form EXCEPT ![t] = IF Honoured(cookie) THEN served ELSE NoForm]
      BY <1>4 DEF OpenPage
    <2>3. UNCHANGED <<restarts, key, half, nonces, cookie, acted>>
      BY <1>4 DEF OpenPage
    <2> HIDE DEF served
    <2>4. /\ form' \in [Tabs -> {NoForm} \cup [under : Nat, token : Nat \X Nat]]
          /\ \A u \in Tabs : form'[u] # NoForm => form'[u].token[2] = form'[u].under
      BY <2>1, <2>2 DEF GuardInv
    <2>5. QED
      BY <2>3, <2>4 DEF GuardInv, StaleFormsDoNothing
  <1>5. ASSUME NEW t \in Tabs, Post(t)
        PROVE  GuardInv' /\ StaleFormsDoNothing'
    <2>1. form[t].under = cookie.nonce
      BY <1>5, MayPostOwnForms DEF Post
    <2>2. acted' = acted \cup {<<form[t].under, cookie.nonce>>}
      BY <1>5 DEF Post
    <2>3. StaleFormsDoNothing'
      BY <2>1, <2>2 DEF StaleFormsDoNothing
    <2>4. GuardInv'
      BY <1>5 DEF Post, GuardInv
    <2>5. QED
      BY <2>3, <2>4
  <1>6. ASSUME NEW t \in Tabs, SignOut(t)
        PROVE  GuardInv' /\ StaleFormsDoNothing'
    BY <1>6 DEF SignOut, GuardInv, StaleFormsDoNothing
  <1>7. CASE Tick
    <2>1. half' \in {0, 1}
      BY <1>7 DEF Tick, GuardInv
    <2>2. cookie' = NoCookie \/ cookie' \in [nonce : 1 .. nonces, key : Nat, age : Int, real : Int]
      <3>1. CASE cookie = NoCookie
        BY <1>7, <3>1 DEF Tick
      <3>2. CASE cookie # NoCookie
        <4>1. cookie \in [nonce : 1 .. nonces, key : Nat, age : Int, real : Int]
          BY <3>2 DEF GuardInv
        <4>2. \A n, limit \in Int : Cap(n, limit) \in Int
          BY DEF Cap
        <4>3. /\ cookie.age + half \in Int /\ cookie.real + 1 \in Int
              /\ Lifetime + MaxBack \in Int /\ Seconds(Lifetime + MaxBack) + 1 \in Int
          BY <4>1, AccessAssumption DEF GuardInv, Seconds
        <4>4. cookie' = [cookie EXCEPT !.age = Cap(cookie.age + half, Lifetime + MaxBack),
                                       !.real = Cap(cookie.real + 1, Seconds(Lifetime + MaxBack) + 1)]
          BY <1>7, <3>2 DEF Tick
        <4>5. QED
          BY <4>1, <4>2, <4>3, <4>4
      <3>3. QED
        BY <3>1, <3>2
    <2>3. QED
      BY <1>7, <2>1, <2>2 DEF Tick, GuardInv, StaleFormsDoNothing
  <1>8. CASE SetBack
    <2>1. cookie' = NoCookie \/ cookie' \in [nonce : 1 .. nonces, key : Nat, age : Int, real : Int]
      BY <1>8 DEF SetBack, GuardInv
    <2>2. QED
      BY <1>8, <2>1 DEF SetBack, GuardInv, StaleFormsDoNothing
  <1>9. CASE Restart
    <2>1. restarts' \in 0 .. MaxRestarts /\ key' \in 0 .. restarts'
      BY <1>9, AccessAssumption DEF Restart, GuardInv
    <2>2. QED
      BY <1>9, <2>1 DEF Restart, GuardInv, StaleFormsDoNothing
  <1>10. CASE UNCHANGED vars
    BY <1>10 DEF vars, GuardInv, StaleFormsDoNothing
  <1>11. QED
    BY <1>1, <1>2, <1>3, <1>4, <1>5, <1>6, <1>7, <1>8, <1>9, <1>10 DEF Next

-----------------------------------------------------------------------------
(* The clocks *)

LEMMA BoundsAreNatural ==
    /\ Lifetime \in Nat /\ Lifetime > 0 /\ MaxBack \in Nat /\ Skew \in Nat
    /\ Lifetime + MaxBack \in Nat
  BY AccessAssumption

\* Half a second on, the wall clock shows another second every other time.
LEMMA TickKeepsClocks ==
    ASSUME AccessInv, Tick
    PROVE  ClockInv'
  <1>1. back' = back /\ back \in 0 .. MaxBack /\ half \in {0, 1} /\ half' = 1 - half
    BY DEF AccessInv, ClockInv, GuardInv, Tick
  <1>2. CASE cookie = NoCookie
    BY <1>1, <1>2 DEF Tick, ClockInv
  <1>3. CASE cookie # NoCookie
    <2> DEFINE latest == Lifetime + MaxBack
               age == cookie.age
               real == cookie.real
    <2>1. cookie \in [nonce : 1 .. nonces, key : Nat, age : Int, real : Int]
      BY <1>3 DEF AccessInv, GuardInv
    <2>2. /\ age \in Int /\ real \in Int /\ latest \in Nat
          /\ -back <= age /\ age <= latest /\ 0 <= real /\ real <= 2 * latest + 1
          /\ 2 * age + half <= real + 1
          /\ real <= 2 * (age + back) + half \/ latest <= age + back
      BY <1>3, <2>1, BoundsAreNatural DEF AccessInv, ClockInv, Seconds
    <2>3. /\ cookie'.age = IF age + half > latest THEN latest ELSE age + half
          /\ cookie'.real = IF real + 1 > 2 * latest + 1 THEN 2 * latest + 1 ELSE real + 1
      BY <1>3, <2>1 DEF Tick, Cap, Seconds
    <2> HIDE DEF latest, age, real
    <2>4. /\ -back <= cookie'.age /\ cookie'.age <= latest
          /\ cookie'.real \in 0 .. 2 * latest + 1
      BY <1>1, <2>2, <2>3
    <2>5. 2 * cookie'.age + half' <= cookie'.real + 1
      BY <1>1, <2>2, <2>3
    <2>6. cookie'.real <= 2 * (cookie'.age + back) + half' \/ latest <= cookie'.age + back
      BY <1>1, <2>2, <2>3
    <2>7. QED
      BY <1>1, <2>4, <2>5, <2>6 DEF ClockInv, Seconds, latest
  <1>4. QED
    BY <1>2, <1>3

LEMMA ClockStep ==
    ASSUME AccessInv, [Next]_vars
    PROVE  ClockInv'
  <1>1. ClockInv /\ GuardInv
    BY DEF AccessInv
  <1>2. UNCHANGED <<cookie, back, half>> => ClockInv'
    BY <1>1 DEF ClockInv
  <1>3. ASSUME NEW a \in Attempts, SignIn(a)
        PROVE  ClockInv'
    <2>1. cookie'.age = 0 /\ cookie'.real = 0 /\ back' = back /\ half' = half
      BY <1>3 DEF SignIn, process
    <2>2. QED
      BY <1>1, <2>1, BoundsAreNatural DEF ClockInv, GuardInv, Seconds
  <1>4. ASSUME NEW t \in Tabs, SignOut(t)
        PROVE  ClockInv'
    BY <1>1, <1>4 DEF SignOut, ClockInv, process
  <1>5. ASSUME SetBack
        PROVE  ClockInv'
    <2>1. back' = back + 1 /\ back' \in 0 .. MaxBack /\ half' = half
      BY <1>1, <1>5, BoundsAreNatural DEF SetBack, ClockInv
    <2>2. CASE cookie = NoCookie
      BY <1>5, <2>1, <2>2 DEF SetBack, ClockInv
    <2>3. CASE cookie # NoCookie
      <3>1. cookie \in [nonce : 1 .. nonces, key : Nat, age : Int, real : Int]
        BY <1>1, <2>3 DEF GuardInv
      <3>2. cookie' = [cookie EXCEPT !.age = @ - 1]
        BY <1>5, <2>3 DEF SetBack
      <3>3. cookie'.age = cookie.age - 1 /\ cookie'.real = cookie.real
        BY <3>1, <3>2
      <3>4. QED
        BY <1>1, <2>1, <2>3, <3>1, <3>3, BoundsAreNatural DEF ClockInv, GuardInv, Seconds
    <2>4. QED
      BY <2>2, <2>3
  <1>6. QED
    BY <1>2, <1>3, <1>4, <1>5, TickKeepsClocks
       DEF Next, vars, Check, Reject, OpenPage, Post, Restart, browser, process

-----------------------------------------------------------------------------
(* The theorems *)

LEMMA NextInv == AccessInv /\ [Next]_vars => AccessInv'
  <1> SUFFICES ASSUME AccessInv, [Next]_vars PROVE AccessInv'
    OBVIOUS
  <1>1. LimiterInv
    BY DEF AccessInv
  <1>2. UNCHANGED limiter => LimiterInv'
    BY <1>1 DEF limiter, LimiterInv
  <1>3. ASSUME NEW a \in Attempts, Reject(a)
        PROVE  LimiterInv'
    BY <1>1, <1>3 DEF Reject, LimiterInv
  <1>4. LimiterInv'
    BY <1>1, <1>2, <1>3, CheckKeepsLimiter, SignInKeepsLimiter, TickKeepsLimiter, RestartKeepsLimiter
       DEF Next, vars, OpenPage, Post, SignOut, SetBack
  <1>5. QED
    BY <1>4, GuardStep, ClockStep DEF AccessInv

LEMMA AccessInvariant == Spec => []AccessInv
  <1>1. Init /\ [][Next]_vars => []AccessInv
    BY InitInv, NextInv, PTL
  <1>2. QED
    BY <1>1, PTL DEF Spec

\* The limiter never holds more attempts of an address than it allows, and the
\* keys and sessions are those that were made.
THEOREM AccessTypeCorrect == Spec => []TypeOK
  <1>1. AccessInv => TypeOK
    BY AccessAssumption DEF AccessInv, LimiterInv, GuardInv, TypeOK, Ticks, Horizon
  <1>2. QED
    BY <1>1, AccessInvariant, PTL

\* RateLimit.check: of one address, at most Allowed sign-ins are admitted
\* between two successes within any window, whatever the number of addresses
\* and of sign-ins under way at once.
THEOREM GuessingIsBounded == Spec => []AtMostAllowedInAWindow
  <1>1. AccessInv => AtMostAllowedInAWindow
    <2> SUFFICES ASSUME AccessInv, NEW c \in Clients PROVE Len(admitted[c]) <= Allowed
      BY DEF AtMostAllowedInAWindow
    <2>1. /\ events[c] \in Seq(Ticks) /\ admitted[c] \in Seq(Ages)
          /\ Len(events[c]) <= Allowed /\ Len(events[c]) - Len(admitted[c]) >= 0
      BY DEF AccessInv, LimiterInv, Matches
    <2>2. QED
      BY <2>1, LenProperties, AllowedIsPositive
  <1>2. QED
    BY <1>1, AccessInvariant, PTL

\* RateLimited.retry_after: whoever comes back when told has an attempt left,
\* although the seconds told are cut off to a whole number.
THEOREM ToldToComeBackInTime == Spec => []RetryAfterIsEnough
  <1>1. AccessInv => RetryAfterIsEnough
    <2> SUFFICES ASSUME AccessInv, NEW c \in Clients, promise[c] = 0
                 PROVE  Len(Counting(c)) < Allowed
      BY DEF RetryAfterIsEnough
    <2>1. /\ events[c] \in Seq(Ticks) /\ admitted[c] \in Seq(Ages)
          /\ Matches(events[c], admitted[c]) /\ OldestFirst(admitted[c])
          /\ Len(events[c]) <= Allowed
          /\ Len(events[c]) < Allowed \/ events[c][1] <= 0
      BY DEF AccessInv, LimiterInv
    <2>2. Len(Counting(c)) = Len(admitted[c])
      BY <2>1, AdmittingMatches DEF Counting
    <2>3. /\ Len(events[c]) \in Nat /\ Len(admitted[c]) \in Nat
          /\ Len(events[c]) - Len(admitted[c]) >= 0
      BY <2>1, LenProperties DEF Matches
    <2>4. CASE Len(events[c]) < Allowed
      BY <2>2, <2>3, <2>4, AllowedIsPositive
    <2>5. CASE ~ (Len(events[c]) < Allowed)
      <3>1. Len(events[c]) = Allowed /\ 1 \in 1 .. Len(events[c]) /\ events[c][1] <= 0
        BY <2>1, <2>3, <2>5, AllowedIsPositive
      <3>2. Len(admitted[c]) # Len(events[c])
        <4> SUFFICES ASSUME Len(admitted[c]) = Len(events[c]) PROVE FALSE
          OBVIOUS
        <4>1. events[c][1] = Horizon - admitted[c][1]
          <5>1. Len(events[c]) - Len(admitted[c]) = 0 /\ 1 \in 1 .. Len(admitted[c])
            BY <2>3, <3>1
          <5>2. events[c][0 + 1] = Horizon - admitted[c][1]
            BY <2>1, <5>1 DEF Matches
          <5>3. QED
            BY <5>2
        <4>2. admitted[c][1] \in Ages
          BY <2>1, <3>1, ElementOfSeq
        <4>3. QED
          BY <3>1, <4>1, <4>2, HorizonIsPositive DEF Ages
      <3>3. QED
        BY <2>2, <2>3, <3>1, <3>2
    <2>6. QED
      BY <2>4, <2>5
  <1>2. QED
    BY <1>1, AccessInvariant, PTL

\* Guard.__call__ with csrf.token_for: whatever tabs are left open over
\* sign-outs, expiries and restarts, what is performed was asked for by a form
\* served under the session it is performed under.
THEOREM StaleTabsDoNothing == Spec => []StaleFormsDoNothing
  <1>1. AccessInv => StaleFormsDoNothing
    BY DEF AccessInv
  <1>2. QED
    BY <1>1, AccessInvariant, PTL

\* sessions.verify: a session is honoured for its lifetime less at most half a
\* second, while the wall clock was set back by no more than the skew allows,
\* and never for longer than the lifetime and what the clock was set back.
THEOREM SessionsExpireInTime == Spec => []SessionLastsItsLifetime
  <1>1. AccessInv => SessionLastsItsLifetime
    <2> SUFFICES ASSUME AccessInv, cookie # NoCookie, cookie.key = key
                 PROVE  /\ back <= Skew /\ cookie.real < Seconds(Lifetime) - 1 => Honoured(cookie)
                        /\ Honoured(cookie) => cookie.real < Seconds(Lifetime + back)
      BY DEF SessionLastsItsLifetime
    <2> DEFINE age == cookie.age
               real == cookie.real
    <2>1. cookie \in [nonce : 1 .. nonces, key : Nat, age : Int, real : Int] /\ half \in {0, 1}
      BY DEF AccessInv, GuardInv
    <2>2. /\ age \in Int /\ real \in Int /\ back \in 0 .. MaxBack
          /\ -back <= age /\ 2 * age + half <= real + 1
          /\ real <= 2 * (age + back) + half \/ Lifetime + MaxBack <= age + back
      BY <2>1 DEF AccessInv, ClockInv, Seconds
    <2>3. Honoured(cookie) <=> age \in -Skew .. Lifetime - 1
      BY DEF Honoured
    <2> HIDE DEF age, real
    <2>4. back <= Skew /\ real < 2 * Lifetime - 1 => age \in -Skew .. Lifetime - 1
      BY <2>1, <2>2, BoundsAreNatural
    <2>5. age \in -Skew .. Lifetime - 1 => real < 2 * (Lifetime + back)
      BY <2>1, <2>2, BoundsAreNatural
    <2>6. QED
      BY <2>3, <2>4, <2>5 DEF Seconds, real
  <1>2. QED
    BY <1>1, AccessInvariant, PTL

=============================================================================
