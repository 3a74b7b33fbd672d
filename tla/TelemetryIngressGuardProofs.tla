---------------------- MODULE TelemetryIngressGuardProofs ----------------------
(***************************************************************************)
(* Proofs about TelemetryIngressGuard, for any devices, ids, windows and   *)
(* limits.  The loop of prune first: on a list in time order it leaves the *)
(* entries that are not too old.  Then the invariant: each list is what is *)
(* recent of a history, and the answers therefore those of IngressPolicy.  *)
(***************************************************************************)
EXTENDS TelemetryIngressGuard, FiniteSetTheorems, SequenceTheorems, WellFoundedInduction, TLAPS

(* Every non-empty set of naturals has a least element. *)
LEMMA LeastElement ==
  ASSUME NEW T \in SUBSET Nat, T # {}
  PROVE  \E n \in T : \A k \in T : ~ (k < n)
<1> DEFINE Less == OpToRel(<, Nat)
<1>1. IsWellFoundedOn(Less, Nat)
  BY NatLessThanWellFounded
<1>2. PICK n \in T : \A k \in T : ~ (<<k, n>> \in Less)
  <2> HIDE DEF Less
  <2> QED BY <1>1, WFMin
<1>3. \A k \in T : <<k, n>> \in Less <=> k < n
  BY DEF OpToRel
<1> QED BY <1>2, <1>3

LEMMA TimesFacts ==
  ASSUME NEW s \in Times
  PROVE  /\ Len(s) \in Nat /\ DOMAIN s = 1..Len(s)
         /\ \A x \in 1..Len(s) : s[x] \in 0..MaxTime /\ s[x] \in Nat
<1>1. Len(s) \in Nat /\ DOMAIN s = 1..Len(s)
  BY LenProperties DEF Times
<1>2. \A x \in 1..Len(s) : s[x] \in 0..MaxTime
  BY ElementOfSeq DEF Times
<1> QED BY <1>1, <1>2, GuardAssumption

(* The loop of prune stops at some entry: before it all are too old, and it is not. *)
LEMMA LoopStops ==
  ASSUME NEW s \in Times
  PROVE  \E n \in 0..Len(s) : /\ \A j \in 1..n : Expired(s[j])
                              /\ n < Len(s) => ~Expired(s[n + 1])
<1> DEFINE Stop == {n \in 0..Len(s) : n < Len(s) => ~Expired(s[n + 1])}
<1>0. Len(s) \in Nat
  BY LenProperties DEF Times
<1>1. Stop \in SUBSET Nat /\ Stop # {}
  <2>1. Len(s) \in Stop
    BY <1>0
  <2>2. Stop \in SUBSET Nat
    BY <1>0
  <2> QED BY <2>1, <2>2
<1>2. PICK n \in Stop : \A k \in Stop : ~ (k < n)
  BY <1>1, LeastElement
<1>3. \A j \in 1..n : Expired(s[j])
  <2> TAKE j \in 1..n
  <2>1. n \in 0..Len(s) /\ j \in Nat /\ j <= n
    BY <1>0
  <2>2. j - 1 \in 0..Len(s) /\ j - 1 < n /\ j - 1 < Len(s) /\ (j - 1) + 1 = j
    BY <1>0, <2>1
  <2>3. j - 1 \notin Stop
    <3> HIDE DEF Stop
    <3> QED BY <1>2, <2>2
  <2> QED BY <2>2, <2>3
<1> QED BY <1>2, <1>3

\* How many entries of s the loop of prune shifts off.
Shifted(s) == Cardinality({i \in DOMAIN s : \A j \in 1..i : Expired(s[j])})

LEMMA ShiftedFacts ==
  ASSUME NEW s \in Times
  PROVE  /\ Shifted(s) \in 0..Len(s)
         /\ \A j \in 1..Shifted(s) : Expired(s[j])
         /\ Shifted(s) < Len(s) => ~Expired(s[Shifted(s) + 1])
<1>0. Len(s) \in Nat /\ DOMAIN s = 1..Len(s)
  BY LenProperties DEF Times
<1>1. PICK n \in 0..Len(s) : (\A j \in 1..n : Expired(s[j])) /\ (n < Len(s) => ~Expired(s[n + 1]))
  BY LoopStops
<1>2. {i \in DOMAIN s : \A j \in 1..i : Expired(s[j])} = 1..n
  <2>1. ASSUME NEW i \in 1..n PROVE i \in DOMAIN s /\ \A j \in 1..i : Expired(s[j])
    BY <1>0, <1>1, <2>1
  <2>2. ASSUME NEW i \in DOMAIN s, \A j \in 1..i : Expired(s[j]) PROVE i \in 1..n
    <3>1. CASE n < i
      <4>1. n + 1 \in 1..i /\ n < Len(s)
        BY <1>0, <1>1, <2>2, <3>1
      <4> QED BY <4>1, <1>1, <2>2
    <3> QED BY <1>0, <1>1, <2>2, <3>1
  <2> QED BY <2>1, <2>2
<1>3. Cardinality(1..n) = n
  BY FS_Interval, <1>0
<1>4. Shifted(s) = n
  BY <1>2, <1>3 DEF Shifted
<1> QED BY <1>1, <1>4

LEMMA RecentFacts ==
  ASSUME NEW s \in Times
  PROVE  /\ Recent(s) \in Times
         /\ Len(Recent(s)) = Len(s) - Shifted(s)
         /\ \A i \in 1..Len(Recent(s)) : Recent(s)[i] = s[Shifted(s) + i]
<1> DEFINE n == Shifted(s)
           q == SubSeq(s, 1 + n, Len(s))
<1>0. Len(s) \in Nat /\ n \in 0..Len(s) /\ s \in [1..Len(s) -> 0..MaxTime]
  BY LenProperties, ShiftedFacts DEF Times
<1>1. Recent(s) = q
  BY DEF Recent, Shifted
<1> HIDE DEF n
<1>2. 1 + n \in Int /\ Len(s) \in Int /\ \A i \in (1 + n)..Len(s) : s[i] \in 0..MaxTime
  BY <1>0
<1>3. /\ q \in Seq(0..MaxTime)
      /\ Len(q) = IF 1 + n <= Len(s) THEN Len(s) - (1 + n) + 1 ELSE 0
      /\ \A i \in 1..(Len(s) - (1 + n) + 1) : q[i] = s[(1 + n) + i - 1]
  BY <1>2, SubSeqProperties
<1> HIDE DEF q
<1>4. Len(q) = Len(s) - n
  <2>1. n \in Nat /\ n <= Len(s) /\ Len(s) \in Nat
    BY <1>0
  <2>2. CASE 1 + n <= Len(s)
    BY <1>3, <2>1, <2>2
  <2>3. CASE ~(1 + n <= Len(s))
    BY <1>3, <2>1, <2>3
  <2> QED BY <2>2, <2>3
<1>5. \A i \in 1..Len(q) : q[i] = s[n + i]
  <2> TAKE i \in 1..Len(q)
  <2>1. i \in 1..(Len(s) - (1 + n) + 1) /\ (1 + n) + i - 1 = n + i
    BY <1>0, <1>4
  <2> QED BY <1>3, <2>1
<1> QED BY <1>1, <1>3, <1>4, <1>5 DEF n, Times

-----------------------------------------------------------------------------
(* A list and the history it is left of.                                   *)

InOrder(s) ==
  /\ s \in Times
  /\ \A i \in 1..Len(s) : s[i] <= now /\ \A j \in i..Len(s) : s[i] <= s[j]

LeftOf(r, s) ==
  /\ r \in Times /\ Len(r) <= Len(s)
  /\ \A i \in 1..Len(r) : r[i] = s[(Len(s) - Len(r)) + i]
  /\ \A i \in 1..(Len(s) - Len(r)) : Expired(s[i])

AllRecent(r) == \A i \in 1..Len(r) : ~Expired(r[i])

(* Pruning keeps a list what is left of its history, and leaves what is recent. *)
LEMMA PruneList ==
  ASSUME NEW r, NEW s, LeftOf(r, s), InOrder(s), now \in Nat
  PROVE  LeftOf(Recent(r), s) /\ AllRecent(Recent(r))
<1> DEFINE n == Shifted(r)
           q == Recent(r)
<1>1. r \in Times /\ s \in Times /\ Len(r) <= Len(s) /\ Len(r) \in Nat /\ Len(s) \in Nat
  BY LenProperties DEF LeftOf, InOrder, Times
<1>2. n \in 0..Len(r) /\ (\A j \in 1..n : Expired(r[j])) /\ (n < Len(r) => ~Expired(r[n + 1]))
  BY <1>1, ShiftedFacts
<1>3. q \in Times /\ Len(q) = Len(r) - n /\ \A i \in 1..Len(q) : q[i] = r[n + i]
  BY <1>1, RecentFacts
<1> HIDE DEF n, q
<1>4. \A i \in 1..Len(r) : r[i] = s[(Len(s) - Len(r)) + i]
  BY DEF LeftOf
<1>5. \A i \in 1..Len(q) : q[i] = s[(Len(s) - Len(q)) + i]
  <2> TAKE i \in 1..Len(q)
  <2>1. n + i \in 1..Len(r) /\ (Len(s) - Len(r)) + (n + i) = (Len(s) - Len(q)) + i
    BY <1>1, <1>2, <1>3
  <2> QED BY <1>3, <1>4, <2>1
<1>6. \A i \in 1..(Len(s) - Len(q)) : Expired(s[i])
  <2> TAKE i \in 1..(Len(s) - Len(q))
  <2>1. CASE i <= Len(s) - Len(r)
    <3>1. i \in 1..(Len(s) - Len(r))
      BY <1>1, <2>1
    <3> QED BY <3>1 DEF LeftOf
  <2>2. CASE ~(i <= Len(s) - Len(r))
    <3> DEFINE j == i - (Len(s) - Len(r))
    <3>1. j \in 1..n /\ j \in 1..Len(r) /\ (Len(s) - Len(r)) + j = i
      BY <1>1, <1>2, <1>3, <2>2
    <3> QED BY <1>2, <1>4, <3>1
  <2> QED BY <2>1, <2>2
<1>7. AllRecent(q)
  <2> SUFFICES ASSUME NEW i \in 1..Len(q) PROVE ~Expired(q[i])
    BY DEF AllRecent
  <2> DEFINE a == (Len(s) - Len(r)) + (n + 1)
             b == (Len(s) - Len(q)) + i
  <2>1. n < Len(r) /\ n + 1 \in 1..Len(r) /\ a \in 1..Len(s) /\ b \in a..Len(s)
    BY <1>1, <1>2, <1>3
  <2>2. ~Expired(s[a]) /\ q[i] = s[b]
    BY <1>2, <1>4, <1>5, <2>1
  <2>3. s[a] <= s[b] /\ s[a] \in Nat /\ s[b] \in Nat
    <3>1. \A x \in 1..Len(s) : s[x] \in 0..MaxTime
      BY <1>1, TimesFacts
    <3>2. b \in 1..Len(s)
      BY <1>1, <2>1
    <3> QED BY <2>1, <3>1, <3>2 DEF InOrder
  <2> HIDE DEF a, b
  <2> QED BY <2>2, <2>3, GuardAssumption DEF Expired
<1>8. Len(q) <= Len(s)
  BY <1>1, <1>2, <1>3
<1>9. LeftOf(q, s)
  BY <1>3, <1>5, <1>6, <1>8 DEF LeftOf
<1> QED BY <1>7, <1>9 DEF q

(* What is left and recent is long enough just when the history's minute is full. *)
LEMMA FullWhenLong ==
  ASSUME NEW q, NEW s, LeftOf(q, s), AllRecent(q), InOrder(s), now \in Nat, NEW n \in Nat \ {0}
  PROVE  Len(q) >= n <=> Policy!Full(s, n, Minute)
<1>1. q \in Times /\ s \in Times /\ Len(q) <= Len(s) /\ Len(q) \in Nat /\ Len(s) \in Nat
  BY LenProperties DEF LeftOf, InOrder, Times
<1>2. \A x \in 1..Len(s) : s[x] \in Nat
  BY <1>1, TimesFacts
<1> DEFINE a == Len(s) - n + 1
<1>3. CASE Len(q) >= n
  <2> DEFINE i == Len(q) - n + 1
  <2>1. i \in 1..Len(q) /\ (Len(s) - Len(q)) + i = a /\ a \in 1..Len(s)
    BY <1>1, <1>3
  <2>2. ~Expired(s[a])
    BY <2>1 DEF LeftOf, AllRecent
  <2> QED BY <1>1, <1>2, <1>3, <2>1, <2>2, GuardAssumption DEF Expired, Policy!Full
<1>4. CASE ~(Len(q) >= n) /\ Len(s) >= n
  <2>1. a \in 1..(Len(s) - Len(q)) /\ a \in 1..Len(s)
    BY <1>1, <1>4
  <2>2. Expired(s[a])
    BY <2>1 DEF LeftOf
  <2> QED BY <1>1, <1>2, <1>4, <2>1, <2>2, GuardAssumption DEF Expired, Policy!Full
<1>5. CASE ~(Len(q) >= n) /\ ~(Len(s) >= n)
  BY <1>5 DEF Policy!Full
<1> QED BY <1>3, <1>4, <1>5

LEMMA AppendInOrder ==
  ASSUME NEW s, InOrder(s), now \in 0..MaxTime
  PROVE  InOrder(Append(s, now))
<1>1. s \in Times /\ Len(s) \in Nat /\ \A x \in 1..Len(s) : s[x] \in 0..MaxTime
  BY LenProperties, ElementOfSeq DEF InOrder, Times
<1> DEFINE t == Append(s, now)
<1>2. t \in Times /\ Len(t) = Len(s) + 1 /\ (\A i \in 1..Len(s) : t[i] = s[i]) /\ t[Len(s) + 1] = now
  BY <1>1, AppendProperties DEF Times
<1> HIDE DEF t
<1>3. ASSUME NEW i \in 1..Len(t) PROVE t[i] <= now
  BY <1>1, <1>2, GuardAssumption DEF InOrder
<1>4. ASSUME NEW i \in 1..Len(t), NEW j \in i..Len(t) PROVE t[i] <= t[j]
  <2>1. CASE j = Len(s) + 1
    BY <1>2, <1>3, <2>1
  <2>2. CASE j # Len(s) + 1
    <3>1. i \in 1..Len(s) /\ j \in i..Len(s) /\ j \in 1..Len(s)
      BY <1>1, <1>2, <2>2
    <3> QED BY <1>2, <3>1 DEF InOrder
  <2> QED BY <2>1, <2>2
<1> QED BY <1>2, <1>3, <1>4 DEF InOrder, t

LEMMA AppendLeft ==
  ASSUME NEW q, NEW s, LeftOf(q, s), InOrder(s), now \in 0..MaxTime
  PROVE  LeftOf(Append(q, now), Append(s, now))
<1>1. q \in Times /\ s \in Times /\ Len(q) <= Len(s) /\ Len(q) \in Nat /\ Len(s) \in Nat
  BY LenProperties DEF LeftOf, InOrder, Times
<1> DEFINE t == Append(s, now)
           r == Append(q, now)
<1>2. Len(t) = Len(s) + 1 /\ (\A i \in 1..Len(s) : t[i] = s[i]) /\ t[Len(s) + 1] = now
  BY <1>1, AppendProperties DEF Times
<1>3. r \in Times /\ Len(r) = Len(q) + 1 /\ (\A i \in 1..Len(q) : r[i] = q[i]) /\ r[Len(q) + 1] = now
  BY <1>1, AppendProperties DEF Times
<1> HIDE DEF t, r
<1>4. Len(t) - Len(r) = Len(s) - Len(q)
  BY <1>1, <1>2, <1>3
<1>5. ASSUME NEW i \in 1..Len(r) PROVE r[i] = t[(Len(t) - Len(r)) + i]
  <2>1. CASE i = Len(q) + 1
    <3>1. (Len(t) - Len(r)) + i = Len(s) + 1
      BY <1>1, <1>4, <2>1
    <3> QED BY <1>2, <1>3, <2>1, <3>1
  <2>2. CASE i # Len(q) + 1
    <3>1. i \in 1..Len(q) /\ (Len(s) - Len(q)) + i \in 1..Len(s)
      BY <1>1, <1>3, <2>2
    <3> QED BY <1>2, <1>3, <1>4, <3>1 DEF LeftOf
  <2> QED BY <2>1, <2>2
<1>6. ASSUME NEW i \in 1..(Len(t) - Len(r)) PROVE Expired(t[i])
  <2>1. i \in 1..(Len(s) - Len(q)) /\ i \in 1..Len(s)
    BY <1>1, <1>4
  <2> QED BY <1>2, <2>1 DEF LeftOf
<1>7. Len(r) <= Len(t)
  BY <1>1, <1>2, <1>3
<1> QED BY <1>3, <1>5, <1>6, <1>7 DEF LeftOf, t, r

(* A history goes on spreading as long as nothing is added to it while it is full. *)
LEMMA AppendSpread ==
  ASSUME NEW s, InOrder(s), now \in 0..MaxTime, NEW n \in Nat \ {0}, NEW w \in Nat,
         Policy!Spread(s, n, w), ~Policy!Full(s, n, w)
  PROVE  Policy!Spread(Append(s, now), n, w)
<1>1. s \in Times /\ Len(s) \in Nat /\ DOMAIN s = 1..Len(s)
  BY LenProperties DEF InOrder, Times
<1> DEFINE t == Append(s, now)
<1>2. t \in Times /\ Len(t) = Len(s) + 1 /\ (\A i \in 1..Len(s) : t[i] = s[i]) /\ t[Len(s) + 1] = now
  BY <1>1, AppendProperties DEF Times
<1>3. DOMAIN t = 1..Len(t)
  BY <1>2, LenProperties DEF Times
<1> HIDE DEF t
<1>4. ASSUME NEW i \in DOMAIN t, i + n \in DOMAIN t PROVE t[i + n] - t[i] > w
  <2>1. i \in 1..Len(s)
    BY <1>1, <1>2, <1>3, <1>4
  <2>2. CASE i + n = Len(s) + 1
    <3>1. i = Len(s) - n + 1 /\ Len(s) >= n
      BY <1>1, <2>1, <2>2
    <3>2. ~(now - s[i] <= w)
      BY <3>1 DEF Policy!Full
    <3>3. s[i] \in Nat
      BY <1>1, <2>1, TimesFacts
    <3> QED BY <1>2, <2>1, <2>2, <3>2, <3>3
  <2>3. CASE i + n # Len(s) + 1
    <3>1. i \in DOMAIN s /\ i + n \in DOMAIN s
      BY <1>1, <1>2, <1>3, <1>4, <2>1, <2>3
    <3> QED BY <1>1, <1>2, <3>1 DEF Policy!Spread
  <2> QED BY <2>2, <2>3
<1> QED BY <1>4 DEF Policy!Spread, t

-----------------------------------------------------------------------------
(* The invariant of the lists.                                             *)

\* What the guard has of device d.
Kept(d) == IF d \in DOMAIN deviceTimestamps THEN deviceTimestamps[d] ELSE <<>>

HistoryInv ==
  /\ InOrder(global)
  /\ byDevice \in [Devices -> Times] /\ \A d \in Devices : InOrder(byDevice[d])
  /\ byId \in [Devices \X Ids -> Times] /\ \A x \in Devices \X Ids : InOrder(byId[x])

MapsInv ==
  /\ DOMAIN seenKeys \subseteq Keys /\ \A k \in DOMAIN seenKeys : seenKeys[k] \in 0..now
  /\ DOMAIN deviceTimestamps \subseteq Devices
  /\ \A d \in DOMAIN deviceTimestamps : deviceTimestamps[d] \in Times \ {<<>>}

ListInv ==
  /\ now \in 0..MaxTime
  /\ HistoryInv
  /\ MapsInv
  /\ LeftOf(globalTimestamps, global)
  /\ \A d \in Devices : LeftOf(Kept(d), byDevice[d])

LEMMA RecentEmpty == Recent(<<>>) = <<>>
<1>1. <<>> \in Times /\ Len(<<>>) = 0
  BY EmptySeq DEF Times
<1>2. Recent(<<>>) \in Times /\ Len(Recent(<<>>)) = Len(<<>>) - Shifted(<<>>) /\ Shifted(<<>>) \in 0..Len(<<>>)
  BY <1>1, RecentFacts, ShiftedFacts
<1>3. Len(Recent(<<>>)) = 0
  BY <1>1, <1>2
<1> QED BY <1>2, <1>3, EmptySeq DEF Times

LEMMA TimesOfPrunes ==
  ASSUME NEW d \in Devices
  PROVE  TimesOf(d) = Recent(Kept(d))
<1>1. CASE d \in DOMAIN deviceTimestamps /\ Recent(deviceTimestamps[d]) # <<>>
  BY <1>1 DEF TimesOf, RecentDevices, Kept
<1>2. CASE d \in DOMAIN deviceTimestamps /\ Recent(deviceTimestamps[d]) = <<>>
  BY <1>2 DEF TimesOf, RecentDevices, Kept
<1>3. CASE d \notin DOMAIN deviceTimestamps
  BY <1>3, RecentEmpty DEF TimesOf, RecentDevices, Kept
<1> QED BY <1>1, <1>2, <1>3

(* What every call finds once it has pruned. *)
LEMMA AfterPrune ==
  ASSUME ListInv
  PROVE  /\ now \in Nat
         /\ LeftOf(Recent(globalTimestamps), global) /\ AllRecent(Recent(globalTimestamps))
         /\ \A d \in Devices : LeftOf(TimesOf(d), byDevice[d]) /\ AllRecent(TimesOf(d))
         /\ DOMAIN RecentDevices \subseteq Devices
         /\ \A d \in DOMAIN RecentDevices : RecentDevices[d] \in Times \ {<<>>}
         /\ DOMAIN RecentKeys \subseteq Keys
         /\ \A k \in DOMAIN RecentKeys : RecentKeys[k] \in 0..now
<1>1. now \in Nat
  BY GuardAssumption DEF ListInv
<1>2. LeftOf(Recent(globalTimestamps), global) /\ AllRecent(Recent(globalTimestamps))
  BY <1>1, PruneList DEF ListInv, HistoryInv
<1>3. ASSUME NEW d \in Devices PROVE LeftOf(TimesOf(d), byDevice[d]) /\ AllRecent(TimesOf(d))
  <2>1. LeftOf(Kept(d), byDevice[d]) /\ InOrder(byDevice[d])
    BY DEF ListInv, HistoryInv
  <2> QED BY <1>1, <2>1, PruneList, TimesOfPrunes
<1>4. DOMAIN RecentDevices \subseteq Devices
  BY DEF RecentDevices, ListInv, MapsInv
<1>5. ASSUME NEW d \in DOMAIN RecentDevices PROVE RecentDevices[d] \in Times \ {<<>>}
  <2>1. d \in Devices /\ RecentDevices[d] # <<>> /\ TimesOf(d) = RecentDevices[d]
    BY <1>4 DEF RecentDevices, TimesOf
  <2>2. TimesOf(d) \in Times
    BY <1>3, <2>1 DEF LeftOf
  <2> QED BY <2>1, <2>2
<1>6. DOMAIN RecentKeys \subseteq Keys /\ \A k \in DOMAIN RecentKeys : RecentKeys[k] \in 0..now
  BY DEF RecentKeys, ListInv, MapsInv
<1> QED BY <1>1, <1>2, <1>3, <1>4, <1>5, <1>6

LEMMA RefuseKeepsLists ==
  ASSUME ListInv, NEW reason, Refuse(reason)
  PROVE  ListInv'
<1>1. now' = now /\ global' = global /\ byDevice' = byDevice /\ byId' = byId
  BY DEF Refuse, history
<1>2. /\ globalTimestamps' = Recent(globalTimestamps)
      /\ deviceTimestamps' = RecentDevices
      /\ seenKeys' = RecentKeys
  BY DEF Refuse
<1>3. HistoryInv'
  BY <1>1 DEF ListInv, HistoryInv, InOrder
<1>4. MapsInv'
  BY <1>1, <1>2, AfterPrune DEF MapsInv
<1>5. LeftOf(globalTimestamps, global)'
  <2>1. LeftOf(globalTimestamps', global')
    BY <1>1, <1>2, AfterPrune
  <2> QED BY <1>1, <2>1 DEF LeftOf, Expired
<1>6. ASSUME NEW d \in Devices PROVE LeftOf(Kept(d), byDevice[d])'
  <2>1. Kept(d)' = TimesOf(d)
    BY <1>2 DEF Kept, TimesOf
  <2>2. LeftOf(Kept(d)', byDevice[d]')
    BY <1>1, <2>1, AfterPrune
  <2> QED BY <1>1, <2>2 DEF LeftOf, Expired
<1> QED BY <1>1, <1>3, <1>4, <1>5, <1>6 DEF ListInv

LEMMA AcceptKeepsLists ==
  ASSUME ListInv, NEW d \in Devices, NEW id \in Ids \cup {NoId}, Accept(d, id)
  PROVE  ListInv'
<1>0. now \in 0..MaxTime /\ now \in Nat /\ now' = now
  BY AfterPrune DEF Accept, ListInv
<1>1. HistoryInv'
  <2>1. InOrder(global')
    BY <1>0, AppendInOrder DEF Accept, ListInv, HistoryInv
  <2>2. ASSUME NEW e \in Devices PROVE InOrder(byDevice'[e])
    BY <1>0, AppendInOrder DEF Accept, ListInv, HistoryInv
  <2>3. ASSUME NEW x \in Devices \X Ids PROVE InOrder(byId'[x])
    BY <1>0, AppendInOrder DEF Accept, ListInv, HistoryInv
  <2>4. /\ \A e \in Devices : byDevice'[e] \in Times
        /\ \A x \in Devices \X Ids : byId'[x] \in Times
    BY <2>2, <2>3 DEF InOrder
  <2>5. byDevice' \in [Devices -> Times] /\ byId' \in [Devices \X Ids -> Times]
    BY <2>4 DEF Accept, ListInv, HistoryInv
  <2>6. InOrder(global)' /\ (\A e \in Devices : InOrder(byDevice[e])') /\ \A x \in Devices \X Ids : InOrder(byId[x])'
    BY <1>0, <2>1, <2>2, <2>3 DEF InOrder
  <2> QED BY <2>5, <2>6 DEF HistoryInv
<1>2. ASSUME NEW e \in Devices PROVE Kept(e)' = IF e = d THEN Append(TimesOf(d), now) ELSE TimesOf(e)
  BY DEF Accept, Kept, TimesOf
<1>3. MapsInv'
  <2>1. DOMAIN seenKeys' \subseteq Keys /\ \A k \in DOMAIN seenKeys' : seenKeys'[k] \in 0..now
    <3>1. CASE id = NoId
      BY <3>1, AfterPrune DEF Accept
    <3>2. CASE id # NoId
      <4>1. EventKey(d, id) \in Keys /\ now \in 0..now
        BY <1>0, <3>2 DEF Keys
      <4> QED BY <3>2, <4>1, AfterPrune DEF Accept
    <3> QED BY <3>1, <3>2
  <2>2. DOMAIN deviceTimestamps' \subseteq Devices
    BY AfterPrune DEF Accept
  <2>3. ASSUME NEW e \in DOMAIN deviceTimestamps' PROVE deviceTimestamps'[e] \in Times \ {<<>>}
    <3>1. CASE e = d
      <4>1. TimesOf(d) \in Times
        BY AfterPrune DEF LeftOf
      <4>2. Append(TimesOf(d), now) \in Times \ {<<>>}
        BY <1>0, <4>1, AppendProperties DEF Times
      <4> QED BY <3>1, <4>2 DEF Accept
    <3>2. CASE e # d
      BY <3>2, AfterPrune DEF Accept
    <3> QED BY <3>1, <3>2
  <2> QED BY <1>0, <2>1, <2>2, <2>3 DEF MapsInv
<1>4. LeftOf(globalTimestamps, global)'
  <2>1. LeftOf(Append(Recent(globalTimestamps), now), Append(global, now))
    BY <1>0, AfterPrune, AppendLeft DEF ListInv, HistoryInv
  <2>2. LeftOf(globalTimestamps', global')
    BY <2>1 DEF Accept
  <2> QED BY <1>0, <2>2 DEF LeftOf, Expired
<1>5. ASSUME NEW e \in Devices PROVE LeftOf(Kept(e), byDevice[e])'
  <2>1. LeftOf(TimesOf(e), byDevice[e]) /\ InOrder(byDevice[e])
    BY AfterPrune DEF ListInv, HistoryInv
  <2>2. byDevice'[e] = IF e = d THEN Append(byDevice[d], now) ELSE byDevice[e]
    BY DEF Accept, ListInv, HistoryInv
  <2>3. LeftOf(Kept(e)', byDevice'[e])
    <3>1. CASE e = d
      BY <1>0, <1>2, <2>1, <2>2, <3>1, AppendLeft
    <3>2. CASE e # d
      BY <1>2, <2>1, <2>2, <3>2
    <3> QED BY <3>1, <3>2
  <2> QED BY <1>0, <2>3 DEF LeftOf, Expired
<1> QED BY <1>0, <1>1, <1>3, <1>4, <1>5 DEF ListInv

LEMMA TickKeepsLists ==
  ASSUME ListInv, Tick
  PROVE  ListInv'
<1>1. now \in Nat /\ now' = now + 1 /\ now' \in 0..MaxTime
  BY GuardAssumption DEF ListInv, Tick
<1>2. \A t \in Nat : Expired(t) => Expired(t)'
  BY <1>1, GuardAssumption DEF Expired
<1>3. ASSUME NEW s, InOrder(s) PROVE \A i \in 1..Len(s) : s[i] <= now'
  <2>1. s \in Times
    BY <1>3 DEF InOrder
  <2> QED BY <1>1, <1>3, <2>1, TimesFacts DEF InOrder
<1>4. ASSUME NEW r, NEW s, LeftOf(r, s), s \in Times
      PROVE  \A i \in 1..(Len(s) - Len(r)) : Expired(s[i])'
  <2>1. \A i \in 1..(Len(s) - Len(r)) : i \in 1..Len(s) /\ s[i] \in Nat /\ Expired(s[i])
    BY <1>4, TimesFacts DEF LeftOf
  <2> QED BY <1>2, <2>1 DEF Expired
<1>5. UNCHANGED <<seenKeys, deviceTimestamps, globalTimestamps, global, byDevice, byId>>
  BY DEF Tick, history
<1>6. HistoryInv'
  BY <1>3, <1>5 DEF ListInv, HistoryInv, InOrder
<1>7. MapsInv'
  BY <1>1, <1>5 DEF ListInv, MapsInv
<1>8. LeftOf(globalTimestamps, global)'
  <2>1. LeftOf(globalTimestamps, global) /\ global \in Times
    BY DEF ListInv, HistoryInv, InOrder
  <2> QED BY <1>4, <1>5, <2>1 DEF LeftOf
<1>9. ASSUME NEW d \in Devices PROVE LeftOf(Kept(d), byDevice[d])'
  <2>1. LeftOf(Kept(d), byDevice[d]) /\ byDevice[d] \in Times /\ Kept(d)' = Kept(d) /\ byDevice'[d] = byDevice[d]
    BY <1>5 DEF ListInv, HistoryInv, Kept
  <2> QED BY <1>4, <2>1 DEF LeftOf
<1> QED BY <1>1, <1>6, <1>7, <1>8, <1>9 DEF ListInv

LEMMA EmptyHistory ==
  /\ <<>> \in Times /\ InOrder(<<>>) /\ LeftOf(<<>>, <<>>)
  /\ DOMAIN <<>> = {}
<1>1. <<>> \in Times /\ Len(<<>>) = 0
  BY EmptySeq DEF Times
<1>2. DOMAIN <<>> = {}
  BY <1>1, TimesFacts
<1> QED BY <1>1, <1>2 DEF InOrder, LeftOf

LEMMA InitLists == Init => ListInv
<1> SUFFICES ASSUME Init PROVE ListInv
  OBVIOUS
<1>1. HistoryInv
  BY EmptyHistory DEF Init, HistoryInv, Unused, UnusedIds
<1>2. MapsInv
  BY EmptyHistory DEF Init, MapsInv
<1>3. \A d \in Devices : LeftOf(Kept(d), byDevice[d])
  BY EmptyHistory DEF Init, Kept, Unused
<1> QED BY <1>1, <1>2, <1>3, EmptyHistory, GuardAssumption DEF ListInv, Init

LEMMA RestartKeepsLists ==
  ASSUME ListInv, Restart
  PROVE  ListInv'
<1>1. now' = now /\ now \in 0..MaxTime
  BY DEF ListInv, Restart
<1>2. HistoryInv'
  <2>1. InOrder(<<>>)'
    BY EmptyHistory, <1>1 DEF InOrder
  <2> QED BY <2>1, EmptyHistory DEF Restart, HistoryInv, Unused, UnusedIds
<1>3. MapsInv'
  BY EmptyHistory DEF Restart, MapsInv
<1>4. LeftOf(<<>>, <<>>)'
  BY EmptyHistory, <1>1 DEF LeftOf, Expired
<1>5. \A d \in Devices : Kept(d)' = <<>> /\ byDevice'[d] = <<>>
  BY EmptyHistory DEF Restart, Kept, Unused
<1>6. ASSUME NEW d \in Devices PROVE LeftOf(Kept(d), byDevice[d])'
  BY <1>4, <1>5
<1>7. LeftOf(globalTimestamps, global)'
  BY <1>4 DEF Restart
<1> QED BY <1>1, <1>2, <1>3, <1>6, <1>7 DEF ListInv

LEMMA NextKeepsLists == ListInv /\ [Next]_vars => ListInv'
<1> SUFFICES ASSUME ListInv, [Next]_vars PROVE ListInv'
  OBVIOUS
<1>1. CASE Tick
  BY <1>1, TickKeepsLists
<1>2. CASE Restart
  BY <1>2, RestartKeepsLists
<1>3. ASSUME NEW d \in Devices, NEW id \in Ids \cup {NoId}, Evaluate(d, id) PROVE ListInv'
  BY <1>3, RefuseKeepsLists, AcceptKeepsLists DEF Evaluate
<1>4. CASE UNCHANGED vars
  BY <1>4 DEF vars, history, ListInv, HistoryInv, MapsInv, InOrder, LeftOf, Kept, Expired
<1> QED BY <1>1, <1>2, <1>3, <1>4 DEF Next

(* Each list is always what prune has left of the history of what was accepted. *)
THEOREM ListInvAlways == Spec => []ListInv
<1> QED BY InitLists, NextKeepsLists, PTL DEF Spec

(* The guard's maps have their types in every reachable state, and no empty list stays. *)
THEOREM TypeCorrect == Spec => []TypeOK
<1>1. ListInv => TypeOK
  <2> SUFFICES ASSUME ListInv PROVE TypeOK
    OBVIOUS
  <2>1. globalTimestamps \in Times /\ global \in Times
    BY DEF ListInv, HistoryInv, LeftOf, InOrder
  <2> QED BY <2>1 DEF ListInv, HistoryInv, MapsInv, TypeOK
<1> QED BY <1>1, ListInvAlways, PTL

-----------------------------------------------------------------------------
(* The answers.                                                            *)

(* The two tests of evaluate on its pruned lists are those of the policy on the histories. *)
LEMMA LimitsAgree ==
  ASSUME ListInv, NEW d \in Devices
  PROVE  /\ DeviceFull(d) <=> Policy!Full(byDevice[d], MaxPerDevice, Minute)
         /\ GlobalFull <=> Policy!Full(global, MaxGlobal, Minute)
<1>1. MaxPerDevice \in Nat \ {0} /\ MaxGlobal \in Nat \ {0}
  BY GuardAssumption
<1>2. DeviceFull(d) <=> Policy!Full(byDevice[d], MaxPerDevice, Minute)
  BY <1>1, AfterPrune, FullWhenLong DEF DeviceFull, ListInv, HistoryInv
<1>3. GlobalFull <=> Policy!Full(global, MaxGlobal, Minute)
  BY <1>1, AfterPrune, FullWhenLong DEF GlobalFull, ListInv, HistoryInv
<1> QED BY <1>2, <1>3

LEMMA RateStep == ListInv /\ RateKept /\ [Next]_vars => RateKept'
<1> SUFFICES ASSUME ListInv, RateKept, [Next]_vars PROVE RateKept'
  OBVIOUS
<1>1. CASE global' = global /\ byDevice' = byDevice
  BY <1>1 DEF RateKept, Policy!RateKept, Policy!Spread
<1>2. CASE Restart
  BY <1>2, EmptyHistory DEF Restart, RateKept, Policy!RateKept, Policy!Spread, Unused
<1>3. ASSUME NEW d \in Devices, NEW id \in Ids \cup {NoId},
             ~DeviceFull(d), ~GlobalFull, Accept(d, id)
      PROVE  RateKept'
  <2>1. now \in 0..MaxTime /\ Minute \in Nat /\ MaxPerDevice \in Nat \ {0} /\ MaxGlobal \in Nat \ {0}
    BY GuardAssumption DEF ListInv
  <2>2. Policy!Spread(Append(global, now), MaxGlobal, Minute)
    BY <1>3, <2>1, LimitsAgree, AppendSpread DEF ListInv, HistoryInv, RateKept, Policy!RateKept
  <2>3. Policy!Spread(Append(byDevice[d], now), MaxPerDevice, Minute)
    BY <1>3, <2>1, LimitsAgree, AppendSpread DEF ListInv, HistoryInv, RateKept, Policy!RateKept
  <2>4. /\ global' = Append(global, now)
        /\ \A e \in Devices : byDevice'[e] = IF e = d THEN Append(byDevice[d], now) ELSE byDevice[e]
    BY <1>3 DEF Accept, ListInv, HistoryInv
  <2>5. ASSUME NEW e \in Devices PROVE Policy!Spread(byDevice'[e], MaxPerDevice, Minute)
    BY <2>3, <2>4 DEF RateKept, Policy!RateKept
  <2>6. Policy!Spread(global', MaxGlobal, Minute)
    BY <2>2, <2>4
  <2> QED BY <2>5, <2>6 DEF RateKept, Policy!RateKept, Policy!Spread
<1>4. CASE Tick
  BY <1>1, <1>4 DEF Tick, history
<1>5. ASSUME NEW d \in Devices, NEW id \in Ids \cup {NoId}, Evaluate(d, id) PROVE RateKept'
  BY <1>1, <1>3, <1>5 DEF Evaluate, Refuse, history
<1>6. CASE UNCHANGED vars
  BY <1>1, <1>6 DEF vars, history
<1> QED BY <1>2, <1>4, <1>5, <1>6 DEF Next

(* No minute of a server run takes in more than the limits, of a device or of all. *)
THEOREM RateAlwaysKept == Spec => []RateKept
<1>1. Init => RateKept
  BY EmptyHistory DEF Init, RateKept, Policy!RateKept, Policy!Spread, Unused
<1> QED BY <1>1, RateStep, ListInvAlways, PTL DEF Spec

-----------------------------------------------------------------------------
(* Keys.                                                                   *)

Last(s) == s[Len(s)]

\* A key that is forgotten is past its window; one that is kept is no older
\* than the last message it was taken for.
KeyInv ==
  \A d \in Devices, id \in Ids :
    byId[<<d, id>>] # <<>> =>
      \/ /\ EventKey(d, id) \in DOMAIN seenKeys
         /\ Last(byId[<<d, id>>]) <= seenKeys[EventKey(d, id)]
      \/ Last(byId[<<d, id>>]) < now - DedupeWindow

LEMMA LastFacts ==
  ASSUME NEW s, InOrder(s), s # <<>>, now \in Nat
  PROVE  /\ Len(s) \in Nat \ {0} /\ Last(s) \in Nat /\ Last(s) <= now
         /\ \A w : Policy!Full(s, 1, w) <=> now - Last(s) <= w
<1>1. s \in Times
  BY DEF InOrder
<1>2. Len(s) \in Nat \ {0}
  BY <1>1, EmptySeq DEF Times
<1>3. Len(s) \in 1..Len(s) /\ Len(s) - 1 + 1 = Len(s)
  BY <1>2
<1>4. Last(s) \in Nat /\ Last(s) <= now
  BY <1>1, <1>3, TimesFacts DEF InOrder, Last
<1>5. \A w : Policy!Full(s, 1, w) <=> now - Last(s) <= w
  <2> SUFFICES ASSUME NEW w PROVE Policy!Full(s, 1, w) <=> now - Last(s) <= w
    OBVIOUS
  <2>1. Len(s) >= 1
    BY <1>2
  <2> QED BY <1>3, <2>1 DEF Policy!Full, Last
<1> QED BY <1>2, <1>4, <1>5

LEMMA LastOfAppend ==
  ASSUME NEW s \in Times, NEW t \in 0..MaxTime
  PROVE  Append(s, t) # <<>> /\ Last(Append(s, t)) = t
<1> DEFINE r == Append(s, t)
<1>1. r # <<>> /\ Len(r) = Len(s) + 1 /\ r[Len(s) + 1] = t
  BY AppendProperties DEF Times
<1> HIDE DEF r
<1>2. Last(r) = t
  BY <1>1 DEF Last
<1> QED BY <1>1, <1>2 DEF r

LEMMA EmptyNotFull == \A w : ~Policy!Full(<<>>, 1, w)
BY EmptySeq DEF Policy!Full

(* An id the policy would refuse is refused: its key is still there. *)
LEMMA FullIsDuplicate ==
  ASSUME ListInv, KeyInv, NEW d \in Devices, NEW id \in Ids,
         Policy!Full(byId[<<d, id>>], 1, DedupeWindow)
  PROVE  Duplicate(d, id)
<1> DEFINE h == byId[<<d, id>>]
           k == EventKey(d, id)
<1>1. h # <<>> /\ InOrder(h) /\ now \in Nat /\ DedupeWindow \in Nat
  BY EmptyNotFull, AfterPrune, GuardAssumption DEF ListInv, HistoryInv
<1>2. Last(h) \in Nat /\ now - Last(h) <= DedupeWindow
  BY <1>1, LastFacts
<1>3. k \in DOMAIN seenKeys /\ Last(h) <= seenKeys[k]
  BY <1>1, <1>2 DEF KeyInv
<1>4. seenKeys[k] \in Nat
  BY <1>1, <1>3 DEF ListInv, MapsInv
<1> HIDE DEF h, k
<1>5. seenKeys[k] >= now - DedupeWindow /\ now - seenKeys[k] <= DedupeWindow
  BY <1>1, <1>2, <1>3, <1>4
<1>6. k \in DOMAIN RecentKeys /\ RecentKeys[k] = seenKeys[k]
  BY <1>3, <1>5 DEF RecentKeys
<1>7. id # NoId
  BY GuardAssumption
<1> QED BY <1>5, <1>6, <1>7 DEF Duplicate, k

LEMMA PruneKeepsKeys ==
  ASSUME ListInv, KeyInv, NEW d \in Devices, NEW id \in Ids, byId[<<d, id>>] # <<>>
  PROVE  \/ /\ EventKey(d, id) \in DOMAIN RecentKeys
            /\ Last(byId[<<d, id>>]) <= RecentKeys[EventKey(d, id)]
         \/ Last(byId[<<d, id>>]) < now - DedupeWindow
<1> DEFINE h == byId[<<d, id>>]
           k == EventKey(d, id)
<1>1. InOrder(h) /\ now \in Nat /\ DedupeWindow \in Nat /\ Last(h) \in Nat
  BY AfterPrune, LastFacts, GuardAssumption DEF ListInv, HistoryInv
<1>2. CASE Last(h) < now - DedupeWindow
  BY <1>2
<1>3. CASE k \in DOMAIN seenKeys /\ Last(h) <= seenKeys[k]
  <2>1. seenKeys[k] \in Nat
    BY <1>1, <1>3 DEF ListInv, MapsInv
  <2>2. CASE seenKeys[k] >= now - DedupeWindow
    BY <1>3, <2>2 DEF RecentKeys
  <2>3. CASE ~(seenKeys[k] >= now - DedupeWindow)
    BY <1>1, <1>3, <2>1, <2>3
  <2> QED BY <2>2, <2>3
<1> QED BY <1>2, <1>3 DEF KeyInv

LEMMA KeyStep == ListInv /\ KeyInv /\ [Next]_vars => KeyInv'
<1> SUFFICES ASSUME ListInv, KeyInv, [Next]_vars PROVE KeyInv'
  OBVIOUS
<1>0. now \in Nat /\ DedupeWindow \in Nat
  BY AfterPrune, GuardAssumption
<1>1. CASE Tick
  <2>1. now' = now + 1 /\ byId' = byId /\ seenKeys' = seenKeys
    BY <1>1 DEF Tick, history
  <2>2. ASSUME NEW d \in Devices, NEW id \in Ids, byId[<<d, id>>] # <<>>
        PROVE  Last(byId[<<d, id>>]) \in Nat
    BY <1>0, <2>2, LastFacts DEF ListInv, HistoryInv
  <2> QED BY <1>0, <2>1, <2>2 DEF KeyInv, Last
<1>2. CASE Restart
  BY <1>2 DEF Restart, KeyInv, UnusedIds
<1>3. ASSUME NEW reason, Refuse(reason) PROVE KeyInv'
  BY <1>3, PruneKeepsKeys DEF Refuse, history, KeyInv, Last
<1>4. ASSUME NEW d \in Devices, NEW id \in Ids \cup {NoId}, Accept(d, id) PROVE KeyInv'
  <2>1. CASE id = NoId
    BY <1>4, <2>1, PruneKeepsKeys DEF Accept, KeyInv, Last
  <2>2. CASE id # NoId
    <3> SUFFICES ASSUME NEW e \in Devices, NEW j \in Ids, byId'[<<e, j>>] # <<>>
                 PROVE  \/ /\ EventKey(e, j) \in DOMAIN seenKeys'
                           /\ Last(byId'[<<e, j>>]) <= seenKeys'[EventKey(e, j)]
                        \/ Last(byId'[<<e, j>>]) < now' - DedupeWindow
      BY DEF KeyInv, Last
    <3>0. /\ DOMAIN seenKeys' = DOMAIN RecentKeys \cup {EventKey(d, id)}
          /\ seenKeys'[EventKey(d, id)] = now
          /\ \A k \in DOMAIN RecentKeys : k # EventKey(d, id) => seenKeys'[k] = RecentKeys[k]
          /\ byId' = [byId EXCEPT ![<<d, id>>] = Append(@, now)]
          /\ now' = now
      BY <1>4, <2>2 DEF Accept
    <3>1. ListInv'
      BY <1>4, AcceptKeepsLists
    <3>2. InOrder(byId[<<e, j>>])' /\ now' \in Nat
      BY <1>0, <3>0, <3>1 DEF ListInv, HistoryInv
    <3>3. InOrder(byId'[<<e, j>>])
      BY <3>0, <3>2 DEF InOrder
    <3>4. Last(byId'[<<e, j>>]) <= now
      BY <1>0, <3>3, LastFacts
    <3>5. CASE EventKey(e, j) = EventKey(d, id)
      BY <3>0, <3>4, <3>5
    <3>6. CASE EventKey(e, j) # EventKey(d, id)
      <4>1. <<e, j>> # <<d, id>>
        BY <3>6
      <4>2. byId'[<<e, j>>] = byId[<<e, j>>]
        BY <3>0, <4>1 DEF ListInv, HistoryInv
      <4> QED BY <3>0, <3>6, <4>2, PruneKeepsKeys
    <3> QED BY <3>5, <3>6
  <2> QED BY <2>1, <2>2
<1>5. CASE UNCHANGED vars
  BY <1>5 DEF vars, history, KeyInv, Last
<1> QED BY <1>1, <1>2, <1>3, <1>4, <1>5 DEF Next, Evaluate

LEMMA InitKeys == Init => KeyInv
BY DEF Init, KeyInv, UnusedIds

THEOREM KeyInvAlways == Spec => []KeyInv
<1> QED BY InitKeys, KeyStep, ListInvAlways, PTL DEF Spec

LEMMA OnceStep == ListInv /\ KeyInv /\ OncePerWindow /\ [Next]_vars => OncePerWindow'
<1> SUFFICES ASSUME ListInv, KeyInv, OncePerWindow, [Next]_vars PROVE OncePerWindow'
  OBVIOUS
<1>1. CASE byId' = byId
  BY <1>1 DEF OncePerWindow, Policy!OncePerWindow, Policy!Spread
<1>2. CASE Restart
  BY <1>2, EmptyHistory DEF Restart, OncePerWindow, Policy!OncePerWindow, Policy!Spread, UnusedIds
<1>3. ASSUME NEW d \in Devices, NEW id \in Ids, ~Duplicate(d, id), Accept(d, id)
      PROVE  OncePerWindow'
  <2>0. now \in 0..MaxTime /\ DedupeWindow \in Nat /\ 1 \in Nat \ {0} /\ id # NoId
    BY GuardAssumption DEF ListInv
  <2>1. ~Policy!Full(byId[<<d, id>>], 1, DedupeWindow)
    BY <1>3, FullIsDuplicate
  <2>2. InOrder(byId[<<d, id>>]) /\ Policy!Spread(byId[<<d, id>>], 1, DedupeWindow)
    BY DEF ListInv, HistoryInv, OncePerWindow, Policy!OncePerWindow
  <2>3. Policy!Spread(Append(byId[<<d, id>>], now), 1, DedupeWindow)
    BY <2>0, <2>1, <2>2, AppendSpread
  <2>4. byId' = [byId EXCEPT ![<<d, id>>] = Append(@, now)]
    BY <1>3, <2>0 DEF Accept
  <2>5. ASSUME NEW x \in Devices \X Ids PROVE Policy!Spread(byId'[x], 1, DedupeWindow)
    BY <2>3, <2>4 DEF OncePerWindow, Policy!OncePerWindow, ListInv, HistoryInv
  <2> QED BY <2>5 DEF OncePerWindow, Policy!OncePerWindow, Policy!Spread
<1>4. ASSUME NEW d \in Devices, NEW id \in Ids \cup {NoId}, Evaluate(d, id) PROVE OncePerWindow'
  <2>1. ASSUME NEW reason, Refuse(reason) PROVE OncePerWindow'
    BY <1>1, <2>1 DEF Refuse, history
  <2>2. CASE id = NoId /\ Accept(d, id)
    BY <1>1, <2>2 DEF Accept
  <2> QED BY <1>3, <1>4, <2>1, <2>2 DEF Evaluate
<1>5. CASE Tick
  BY <1>1, <1>5 DEF Tick, history
<1>6. CASE UNCHANGED vars
  BY <1>1, <1>6 DEF vars, history
<1> QED BY <1>2, <1>4, <1>5, <1>6 DEF Next

(* No id of a device is accepted twice within the window, even where two
   devices share a key: a shared key can only refuse more. *)
THEOREM IdsOncePerWindow == Spec => []OncePerWindow
<1>1. Init => OncePerWindow
  BY EmptyHistory DEF Init, OncePerWindow, Policy!OncePerWindow, Policy!Spread, UnusedIds
<1> QED BY <1>1, OnceStep, ListInvAlways, KeyInvAlways, PTL DEF Spec

-----------------------------------------------------------------------------
(* The guard implements the policy, where no two messages share a key      *)
(* without sharing device and id.                                          *)

KeyExact ==
  \A d \in Devices, id \in Ids :
    EventKey(d, id) \in DOMAIN seenKeys =>
      /\ byId[<<d, id>>] # <<>>
      /\ seenKeys[EventKey(d, id)] = Last(byId[<<d, id>>])

LEMMA KeyExactStep == KeysDistinct /\ ListInv /\ KeyExact /\ [Next]_vars => KeyExact'
<1> SUFFICES ASSUME KeysDistinct, ListInv, KeyExact, [Next]_vars PROVE KeyExact'
  OBVIOUS
<1>1. CASE byId' = byId /\ seenKeys' = seenKeys
  BY <1>1 DEF KeyExact, Last
<1>2. CASE byId' = byId /\ seenKeys' = RecentKeys
  BY <1>2 DEF KeyExact, RecentKeys, Last
<1>3. CASE Restart
  BY <1>3, EmptyHistory DEF Restart, KeyExact
<1>4. ASSUME NEW d \in Devices, NEW id \in Ids, Accept(d, id) PROVE KeyExact'
  <2> SUFFICES ASSUME NEW e \in Devices, NEW j \in Ids, EventKey(e, j) \in DOMAIN seenKeys'
               PROVE  /\ byId'[<<e, j>>] # <<>>
                      /\ seenKeys'[EventKey(e, j)] = Last(byId'[<<e, j>>])
    BY DEF KeyExact, Last
  <2>0. id # NoId /\ now \in 0..MaxTime
    BY GuardAssumption DEF ListInv
  <2>1. /\ DOMAIN seenKeys' = DOMAIN RecentKeys \cup {EventKey(d, id)}
        /\ seenKeys'[EventKey(d, id)] = now
        /\ \A k \in DOMAIN RecentKeys : k # EventKey(d, id) => seenKeys'[k] = RecentKeys[k]
        /\ byId' = [byId EXCEPT ![<<d, id>>] = Append(@, now)]
    BY <1>4, <2>0 DEF Accept
  <2>2. CASE e = d /\ j = id
    <3>1. byId[<<d, id>>] \in Times /\ byId'[<<d, id>>] = Append(byId[<<d, id>>], now)
      BY <2>1 DEF ListInv, HistoryInv
    <3>2. Append(byId[<<d, id>>], now) # <<>> /\ Last(Append(byId[<<d, id>>], now)) = now
      BY <2>0, <3>1, LastOfAppend
    <3> QED BY <2>1, <2>2, <3>1, <3>2
  <2>3. CASE ~(e = d /\ j = id)
    <3>1. EventKey(e, j) # EventKey(d, id)
      BY <2>3 DEF KeysDistinct
    <3>2. byId'[<<e, j>>] = byId[<<e, j>>]
      BY <2>1, <2>3 DEF ListInv, HistoryInv
    <3>3. /\ EventKey(e, j) \in DOMAIN seenKeys
          /\ seenKeys'[EventKey(e, j)] = seenKeys[EventKey(e, j)]
      BY <2>1, <3>1 DEF RecentKeys
    <3> QED BY <3>2, <3>3 DEF KeyExact
  <2> QED BY <2>2, <2>3
<1>5. ASSUME NEW d \in Devices, NEW id \in Ids \cup {NoId}, Evaluate(d, id) PROVE KeyExact'
  <2>1. ASSUME NEW reason, Refuse(reason) PROVE KeyExact'
    BY <1>2, <2>1 DEF Refuse, history
  <2>2. CASE id = NoId /\ Accept(d, id)
    BY <1>2, <2>2 DEF Accept
  <2> QED BY <1>4, <1>5, <2>1, <2>2 DEF Evaluate
<1>6. CASE Tick
  BY <1>1, <1>6 DEF Tick, history
<1>7. CASE UNCHANGED vars
  BY <1>1, <1>7 DEF vars, history
<1> QED BY <1>3, <1>5, <1>6, <1>7 DEF Next

(* With exact keys a message is a duplicate just when the policy says so. *)
LEMMA DuplicateAgrees ==
  ASSUME ListInv, KeyInv, KeyExact, NEW d \in Devices, NEW id \in Ids \cup {NoId}
  PROVE  Duplicate(d, id) <=> id # NoId /\ Policy!Full(byId[<<d, id>>], 1, DedupeWindow)
<1>1. CASE id = NoId
  BY <1>1 DEF Duplicate
<1>2. CASE id # NoId
  <2>1. id \in Ids /\ now \in Nat
    BY <1>2, AfterPrune
  <2>2. ASSUME Duplicate(d, id) PROVE Policy!Full(byId[<<d, id>>], 1, DedupeWindow)
    <3>1. /\ EventKey(d, id) \in DOMAIN seenKeys
          /\ now - seenKeys[EventKey(d, id)] <= DedupeWindow
      BY <2>2 DEF Duplicate, RecentKeys
    <3>2. /\ byId[<<d, id>>] # <<>> /\ InOrder(byId[<<d, id>>])
          /\ seenKeys[EventKey(d, id)] = Last(byId[<<d, id>>])
      BY <2>1, <3>1 DEF KeyExact, ListInv, HistoryInv
    <3> QED BY <2>1, <3>1, <3>2, LastFacts
  <2> QED BY <1>2, <2>1, <2>2, FullIsDuplicate
<1> QED BY <1>1, <1>2

LEMMA PolicyStep ==
  KeysDistinct /\ ListInv /\ KeyInv /\ KeyExact /\ [Next]_vars => [Policy!Next]_(Policy!vars)
<1> SUFFICES ASSUME ListInv, KeyInv, KeyExact, [Next]_vars PROVE [Policy!Next]_(Policy!vars)
  OBVIOUS
<1>1. CASE Tick
  BY <1>1 DEF Tick, history, Policy!Next, Policy!Tick
<1>2. CASE Restart
  BY <1>2 DEF Restart, Unused, UnusedIds, Policy!Next, Policy!Restart, Policy!Unused, Policy!UnusedIds
<1>3. ASSUME NEW d \in Devices, NEW id \in Ids \cup {NoId}, Evaluate(d, id)
      PROVE  Policy!Receive(d, id)
  <2>1. Duplicate(d, id) <=> id # NoId /\ Policy!Full(byId[<<d, id>>], 1, DedupeWindow)
    BY DuplicateAgrees
  <2>2. /\ DeviceFull(d) <=> Policy!Full(byDevice[d], MaxPerDevice, Minute)
        /\ GlobalFull <=> Policy!Full(global, MaxGlobal, Minute)
    BY LimitsAgree
  <2>3. CASE Duplicate(d, id) /\ Refuse("duplicate")
    <3>1. Policy!Answer(d, id) = "duplicate"
      BY <2>1, <2>3 DEF Policy!Answer
    <3> QED BY <2>3, <3>1 DEF Refuse, history, Policy!Receive
  <2>4. CASE ~Duplicate(d, id) /\ DeviceFull(d) /\ Refuse("rate_limited_device")
    <3>1. Policy!Answer(d, id) = "rate_limited_device"
      BY <2>1, <2>2, <2>4 DEF Policy!Answer
    <3> QED BY <2>4, <3>1 DEF Refuse, history, Policy!Receive
  <2>5. CASE ~Duplicate(d, id) /\ ~DeviceFull(d) /\ GlobalFull /\ Refuse("rate_limited_global")
    <3>1. Policy!Answer(d, id) = "rate_limited_global"
      BY <2>1, <2>2, <2>5 DEF Policy!Answer
    <3> QED BY <2>5, <3>1 DEF Refuse, history, Policy!Receive
  <2>6. CASE ~Duplicate(d, id) /\ ~DeviceFull(d) /\ ~GlobalFull /\ Accept(d, id)
    <3>1. Policy!Answer(d, id) = "accepted"
      BY <2>1, <2>2, <2>6 DEF Policy!Answer
    <3> QED BY <2>6, <3>1 DEF Accept, Policy!Receive, Policy!Note
  <2> QED BY <1>3, <2>3, <2>4, <2>5, <2>6 DEF Evaluate
<1>4. CASE UNCHANGED vars
  BY <1>4 DEF vars, history, Policy!vars
<1> QED BY <1>1, <1>2, <1>3, <1>4 DEF Next, Policy!Next

(* evaluate answers as the policy that forgets nothing, for any windows and
   limits, if no two messages share a key without sharing device and id. *)
THEOREM GuardImplementsPolicy ==
  ASSUME KeysDistinct
  PROVE  Spec => ImplementsPolicy
<1>1. Init => Policy!Init
  BY DEF Init, Unused, UnusedIds, Policy!Init, Policy!Unused, Policy!UnusedIds
<1>2. Init => KeyExact
  BY EmptyHistory DEF Init, KeyExact
<1>3. ListInv /\ KeyExact /\ [Next]_vars => KeyExact'
  BY KeyExactStep
<1>4. Spec => []KeyExact
  BY <1>2, <1>3, ListInvAlways, PTL DEF Spec
<1>5. ListInv /\ KeyInv /\ KeyExact /\ [Next]_vars => [Policy!Next]_(Policy!vars)
  BY PolicyStep
<1> QED BY <1>1, <1>4, <1>5, ListInvAlways, KeyInvAlways, PTL DEF Spec, ImplementsPolicy, Policy!Spec

-----------------------------------------------------------------------------
(* How much the guard remembers.                                           *)

\* The message a key was accepted with is one of the recent of the history: n names it.
KeyPlaces(n) ==
  /\ n \in [DOMAIN seenKeys -> (Len(global) - Len(globalTimestamps) + 1)..Len(global)]
  /\ \A k \in DOMAIN seenKeys : global[n[k]] = seenKeys[k]
  /\ \A k, j \in DOMAIN seenKeys : n[k] = n[j] => k = j

\* Every list is within its limit, and each key has a message of its own.
BoundInv ==
  /\ Len(globalTimestamps) <= MaxGlobal
  /\ \A d \in Devices : Len(Kept(d)) <= MaxPerDevice
  /\ DedupeWindow <= Minute => \E n : KeyPlaces(n)

LEMMA PruneBounds ==
  ASSUME ListInv, BoundInv
  PROVE  /\ Len(Recent(globalTimestamps)) <= MaxGlobal
         /\ \A d \in Devices : Len(TimesOf(d)) <= MaxPerDevice
<1>1. ASSUME NEW s \in Times PROVE Len(Recent(s)) <= Len(s) /\ Len(Recent(s)) \in Nat /\ Len(s) \in Nat
  BY RecentFacts, ShiftedFacts, TimesFacts
<1>2. globalTimestamps \in Times /\ \A d \in Devices : Kept(d) \in Times
  BY DEF ListInv, LeftOf
<1> QED BY <1>1, <1>2, TimesOfPrunes, GuardAssumption DEF BoundInv

(* A key that is left after a call began was accepted within the minute. *)
LEMMA PruneKeepsPlaces ==
  ASSUME ListInv, DedupeWindow <= Minute, NEW n, KeyPlaces(n), NEW k \in DOMAIN RecentKeys
  PROVE  /\ n[k] \in (Len(global) - Len(Recent(globalTimestamps)) + 1)..Len(global)
         /\ global[n[k]] = RecentKeys[k]
<1>1. /\ k \in DOMAIN seenKeys /\ RecentKeys[k] = seenKeys[k]
      /\ seenKeys[k] >= now - DedupeWindow
  BY DEF RecentKeys
<1>2. LeftOf(Recent(globalTimestamps), global) /\ now \in Nat /\ seenKeys[k] \in Nat
  BY <1>1, AfterPrune DEF ListInv, MapsInv
<1>3. /\ Len(global) \in Nat /\ Len(globalTimestamps) \in Nat /\ Len(Recent(globalTimestamps)) \in Nat
      /\ Len(globalTimestamps) <= Len(global)
  BY <1>2, TimesFacts DEF ListInv, HistoryInv, InOrder, LeftOf
<1>4. /\ n[k] \in (Len(global) - Len(globalTimestamps) + 1)..Len(global)
      /\ global[n[k]] = seenKeys[k]
  BY <1>1 DEF KeyPlaces
<1>5. ~Expired(global[n[k]])
  BY <1>1, <1>2, <1>4, GuardAssumption DEF Expired
<1>6. n[k] \notin 1..(Len(global) - Len(Recent(globalTimestamps)))
  BY <1>2, <1>5 DEF LeftOf
<1> QED BY <1>1, <1>3, <1>4, <1>6

LEMMA RefuseBounds ==
  ASSUME ListInv, BoundInv, NEW reason, Refuse(reason)
  PROVE  BoundInv'
<1>1. Len(globalTimestamps') <= MaxGlobal
  BY PruneBounds DEF Refuse
<1>2. ASSUME NEW d \in Devices PROVE Len(Kept(d)') <= MaxPerDevice
  <2>1. Kept(d)' = TimesOf(d)
    BY DEF Refuse, Kept, TimesOf
  <2> QED BY <2>1, PruneBounds
<1>3. ASSUME DedupeWindow <= Minute PROVE \E n : KeyPlaces(n)'
  <2>1. PICK n : KeyPlaces(n)
    BY <1>3 DEF BoundInv
  <2> DEFINE m == [k \in DOMAIN RecentKeys |-> n[k]]
  <2>2. seenKeys' = RecentKeys /\ globalTimestamps' = Recent(globalTimestamps) /\ global' = global
    BY DEF Refuse, history
  <2>3. DOMAIN RecentKeys \subseteq DOMAIN seenKeys
    BY DEF RecentKeys
  <2>4. \A k \in DOMAIN RecentKeys :
          /\ m[k] \in (Len(global) - Len(Recent(globalTimestamps)) + 1)..Len(global)
          /\ global[m[k]] = RecentKeys[k]
    BY <1>3, <2>1, PruneKeepsPlaces
  <2>5. \A k, j \in DOMAIN RecentKeys : m[k] = m[j] => k = j
    BY <2>1, <2>3 DEF KeyPlaces
  <2>6. m \in [DOMAIN RecentKeys -> (Len(global) - Len(Recent(globalTimestamps)) + 1)..Len(global)]
    BY <2>4
  <2> HIDE DEF m
  <2>7. PICK f : f = m
    OBVIOUS
  <2>8. KeyPlaces(f)'
    BY <2>2, <2>4, <2>5, <2>6, <2>7 DEF KeyPlaces
  <2> QED BY <2>8
<1> QED BY <1>1, <1>2, <1>3 DEF BoundInv

LEMMA AcceptBounds ==
  ASSUME ListInv, BoundInv, NEW d \in Devices, NEW id \in Ids \cup {NoId},
         ~DeviceFull(d), ~GlobalFull, Accept(d, id)
  PROVE  BoundInv'
<1> DEFINE r == Recent(globalTimestamps)
<1>0. /\ now \in 0..MaxTime /\ r \in Times /\ global \in Times /\ Len(r) <= Len(global)
      /\ Len(r) \in Nat /\ Len(global) \in Nat
  BY AfterPrune, TimesFacts DEF ListInv, HistoryInv, InOrder, LeftOf
<1>g. /\ globalTimestamps' = Append(r, now) /\ global' = Append(global, now)
      /\ Len(Append(r, now)) = Len(r) + 1 /\ Len(Append(global, now)) = Len(global) + 1
      /\ \A i \in 1..Len(global) : Append(global, now)[i] = global[i]
      /\ Append(global, now)[Len(global) + 1] = now
  BY <1>0, AppendProperties DEF Accept, Times
<1>1. Len(globalTimestamps') <= MaxGlobal
  BY <1>0, <1>g, GuardAssumption DEF GlobalFull
<1>2. ASSUME NEW e \in Devices PROVE Len(Kept(e)') <= MaxPerDevice
  <2>1. Kept(e)' = IF e = d THEN Append(TimesOf(d), now) ELSE TimesOf(e)
    BY DEF Accept, Kept, TimesOf
  <2>2. TimesOf(d) \in Times
    BY AfterPrune DEF LeftOf
  <2>3. Len(Append(TimesOf(d), now)) = Len(TimesOf(d)) + 1 /\ Len(TimesOf(d)) \in Nat
    BY <1>0, <2>2, AppendProperties, TimesFacts DEF Times
  <2> QED BY <2>1, <2>3, PruneBounds, GuardAssumption DEF DeviceFull
<1> HIDE DEF r
<1>3. ASSUME DedupeWindow <= Minute PROVE \E n : KeyPlaces(n)'
  <2>1. PICK n : KeyPlaces(n)
    BY <1>3 DEF BoundInv
  <2>2. DOMAIN RecentKeys \subseteq DOMAIN seenKeys
    BY DEF RecentKeys
  <2>3. \A k \in DOMAIN RecentKeys : /\ n[k] \in (Len(global) - Len(r) + 1)..Len(global)
                                     /\ global[n[k]] = RecentKeys[k]
    BY <1>3, <2>1, PruneKeepsPlaces DEF r
  <2>4. (Len(global) + 1) - (Len(r) + 1) + 1 = Len(global) - Len(r) + 1
    BY <1>0
  <2>5. \A k \in DOMAIN RecentKeys :
          /\ n[k] \in (Len(global') - Len(globalTimestamps') + 1)..Len(global') /\ n[k] # Len(global) + 1
          /\ global'[n[k]] = RecentKeys[k]
    BY <1>0, <1>g, <2>3, <2>4
  <2>6. \A k, j \in DOMAIN RecentKeys : n[k] = n[j] => k = j
    BY <2>1, <2>2 DEF KeyPlaces
  <2>7. CASE id = NoId
    <3> DEFINE m == [k \in DOMAIN RecentKeys |-> n[k]]
    <3>1. seenKeys' = RecentKeys
      BY <2>7 DEF Accept
    <3>2. m \in [DOMAIN RecentKeys -> (Len(global') - Len(globalTimestamps') + 1)..Len(global')]
      BY <2>5
    <3>3. \A k \in DOMAIN RecentKeys : m[k] = n[k]
      OBVIOUS
    <3> HIDE DEF m
    <3>4. PICK f : f = m
      OBVIOUS
    <3>5. KeyPlaces(f)'
      BY <2>5, <2>6, <3>1, <3>2, <3>3, <3>4 DEF KeyPlaces
    <3> QED BY <3>5
  <2>8. CASE id # NoId
    <3> DEFINE new == EventKey(d, id)
               m == [k \in DOMAIN RecentKeys \cup {new} |-> IF k = new THEN Len(global) + 1 ELSE n[k]]
    <3>1. /\ DOMAIN seenKeys' = DOMAIN RecentKeys \cup {new}
          /\ \A k \in DOMAIN seenKeys' : seenKeys'[k] = IF k = new THEN now ELSE RecentKeys[k]
      BY <2>8 DEF Accept
    <3> HIDE DEF new
    <3>2. Len(global) + 1 \in (Len(global') - Len(globalTimestamps') + 1)..Len(global')
      BY <1>0, <1>g
    <3>3. m \in [DOMAIN RecentKeys \cup {new} -> (Len(global') - Len(globalTimestamps') + 1)..Len(global')]
      BY <2>5, <3>2
    <3>4. \A k \in DOMAIN RecentKeys \cup {new} : m[k] = IF k = new THEN Len(global) + 1 ELSE n[k]
      OBVIOUS
    <3> HIDE DEF m
    <3>5. \A k \in DOMAIN seenKeys' : global'[m[k]] = seenKeys'[k]
      BY <1>g, <2>5, <3>1, <3>4
    <3>6. \A k, j \in DOMAIN seenKeys' : m[k] = m[j] => k = j
      BY <2>5, <2>6, <3>1, <3>4
    <3>7. PICK f : f = m
      OBVIOUS
    <3>8. KeyPlaces(f)'
      BY <3>1, <3>3, <3>5, <3>6, <3>7 DEF KeyPlaces
    <3> QED BY <3>8
  <2> QED BY <2>7, <2>8
<1> QED BY <1>1, <1>2, <1>3 DEF BoundInv

LEMMA EmptyBounds ==
  ASSUME seenKeys = <<>>, deviceTimestamps = <<>>, globalTimestamps = <<>>, global = <<>>
  PROVE  BoundInv
<1>1. Len(<<>>) = 0 /\ DOMAIN <<>> = {}
  BY EmptySeq
<1>2. KeyPlaces(<<>>)
  <2>1. <<>> \in [{} -> (Len(global) - Len(globalTimestamps) + 1)..Len(global)]
    BY <1>1
  <2> QED BY <1>1, <2>1 DEF KeyPlaces
<1> QED BY <1>1, <1>2, GuardAssumption DEF BoundInv, Kept

LEMMA BoundStep == ListInv /\ BoundInv /\ [Next]_vars => BoundInv'
<1> SUFFICES ASSUME ListInv, BoundInv, [Next]_vars PROVE BoundInv'
  OBVIOUS
<1>1. CASE Tick \/ UNCHANGED vars
  BY <1>1 DEF Tick, vars, history, BoundInv, KeyPlaces, Kept
<1>2. CASE Restart
  <2>1. /\ seenKeys' = <<>> /\ deviceTimestamps' = <<>> /\ globalTimestamps' = <<>> /\ global' = <<>>
        /\ Len(<<>>) = 0 /\ DOMAIN <<>> = {}
    BY <1>2, EmptySeq DEF Restart
  <2>2. <<>> \in [DOMAIN seenKeys' -> (Len(global') - Len(globalTimestamps') + 1)..Len(global')]
    BY <2>1
  <2>3. KeyPlaces(<<>>)'
    BY <2>1, <2>2 DEF KeyPlaces
  <2> QED BY <2>1, <2>3, GuardAssumption DEF BoundInv, Kept
<1>3. ASSUME NEW d \in Devices, NEW id \in Ids \cup {NoId}, Evaluate(d, id) PROVE BoundInv'
  BY <1>3, RefuseBounds, AcceptBounds DEF Evaluate
<1> QED BY <1>1, <1>2, <1>3 DEF Next

\* With a dedupe window of at most a minute the guard keeps no more than
\* maxGlobalPerMinute keys and times, and maxPerDevicePerMinute times of a device.
THEOREM MemoryAlwaysBounded == Spec => []MemoryBounded
<1>1. Init => BoundInv
  BY EmptyBounds DEF Init
<1>2. ASSUME ListInv, BoundInv PROVE MemoryBounded
  <2>1. \A d \in DOMAIN deviceTimestamps : d \in Devices /\ Kept(d) = deviceTimestamps[d]
    BY <1>2 DEF ListInv, MapsInv, Kept
  <2>2. ASSUME DedupeWindow <= Minute PROVE Cardinality(DOMAIN seenKeys) <= MaxGlobal
    <3> DEFINE lo == Len(global) - Len(globalTimestamps) + 1
               T == lo..Len(global)
    <3>1. PICK n : KeyPlaces(n)
      BY <1>2, <2>2 DEF BoundInv
    <3>2. Len(global) \in Nat /\ Len(globalTimestamps) \in Nat /\ Len(globalTimestamps) <= Len(global)
      BY <1>2, TimesFacts DEF ListInv, HistoryInv, InOrder, LeftOf
    <3>3. IsFiniteSet(T) /\ Cardinality(T) = Len(globalTimestamps)
      <4>1. lo \in Int /\ Len(global) \in Int
        BY <3>2
      <4>2. IsFiniteSet(T) /\ Cardinality(T) = IF lo > Len(global) THEN 0 ELSE Len(global) - lo + 1
        BY <4>1, FS_Interval
      <4> QED BY <3>2, <4>2
    <3>4. n \in Injection(DOMAIN seenKeys, T)
      BY <3>1 DEF KeyPlaces, Injection, IsInjective
    <3> HIDE DEF T
    <3>5. IsFiniteSet(DOMAIN seenKeys) /\ Cardinality(DOMAIN seenKeys) <= Cardinality(T)
      BY <3>3, <3>4, FS_Injection
    <3>6. Cardinality(DOMAIN seenKeys) \in Nat
      BY <3>5, FS_CardinalityType
    <3> QED BY <1>2, <3>2, <3>3, <3>5, <3>6, GuardAssumption DEF BoundInv
  <2> QED BY <1>2, <2>1, <2>2 DEF BoundInv, MemoryBounded
<1> QED BY <1>1, <1>2, BoundStep, ListInvAlways, PTL DEF Spec

=============================================================================
