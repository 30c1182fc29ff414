-------------------------- MODULE AlgorithmProofs ---------------------------
(***************************************************************************)
(* Proofs about three of the algorithms: the samples of a link, for every  *)
(* size of the ring, every window and every way a node announces them; the *)
(* retain loop, for every run of announcements; and the path search, for   *)
(* every graph without negative costs and every order of its links.        *)
(***************************************************************************)
EXTENDS LinkState, RetainLoop, PathSearch, SublistProofs, SequenceTheorems, TLAPS

-----------------------------------------------------------------------------
(* The ring.                                                                *)

\* A remainder, where one turn more or less is enough to find it.
LEMMA Remainder ==
  ASSUME NEW x \in Int, NEW q \in {-1, 0, 1}, x - q * Slots \in 0..(Slots - 1)
  PROVE  x % Slots = x - q * Slots
  <1> DEFINE d == x \div Slots
             r == x % Slots
  <1>1. Slots \in Nat \ {0} /\ q \in Int
    BY SlotsAssumption
  <1>2. d \in Int /\ r \in 0..(Slots - 1) /\ x = Slots * d + r
    BY <1>1
  <1> HIDE DEF d, r
  <1>3. Slots * (d - q) = (x - q * Slots) - r
    BY <1>1, <1>2
  <1>4. d - q = 0
    <2> DEFINE k == d - q
    <2>1. k \in Int /\ Slots * k < Slots /\ Slots * k > -Slots
      BY <1>1, <1>2, <1>3
    <2> HIDE DEF k
    <2>2. k >= 1 => Slots * k >= Slots
      BY <1>1, <2>1
    <2>3. k <= -1 => Slots * k <= -Slots
      BY <1>1, <2>1
    <2>4. k = 0
      BY <1>1, <2>1, <2>2, <2>3
    <2> QED BY <2>4 DEF k
  <1>5. d = q
    BY <1>1, <1>2, <1>4
  <1> QED BY <1>1, <1>2, <1>5 DEF r

\* The remainder of a number at most one turn off the ring.
LEMMA Remainders ==
  ASSUME NEW x \in Int
  PROVE  /\ x \in 0..(Slots - 1) => x % Slots = x
         /\ x \in Slots..(2 * Slots - 1) => x % Slots = x - Slots
         /\ x \in (-Slots)..(-1) => x % Slots = x + Slots
  <1>1. Slots \in Nat \ {0}
    BY SlotsAssumption
  <1>2. /\ x - 0 * Slots = x /\ x - 1 * Slots = x - Slots /\ x - (-1) * Slots = x + Slots
    BY <1>1
  <1>3. /\ x \in 0..(Slots - 1) => x - 0 * Slots \in 0..(Slots - 1)
        /\ x \in Slots..(2 * Slots - 1) => x - 1 * Slots \in 0..(Slots - 1)
        /\ x \in (-Slots)..(-1) => x - (-1) * Slots \in 0..(Slots - 1)
    BY <1>1
  <1>4. \A q \in {-1, 0, 1} : x - q * Slots \in 0..(Slots - 1) => x % Slots = x - q * Slots
    BY Remainder
  <1>5. x - 0 * Slots \in 0..(Slots - 1) => x % Slots = x - 0 * Slots
    BY <1>4
  <1>6. x - 1 * Slots \in 0..(Slots - 1) => x % Slots = x - 1 * Slots
    BY <1>4
  <1>7. x - (-1) * Slots \in 0..(Slots - 1) => x % Slots = x - (-1) * Slots
    BY <1>4
  <1> QED BY <1>2, <1>3, <1>5, <1>6, <1>7

\* The j-th step of the walk meets the sample j before the newest of a full ring, if the
\* report has that many.
LEMMA WalkMeets ==
  ASSUME NEW sp \in 0..(Slots - 1), NEW samples \in Seq(Sample), Len(samples) \in 1..Slots,
         NEW j \in 1..(Slots - 1)
  PROVE  /\ j \in DOMAIN Walk(sp)
         /\ Ring(sp, samples)[Walk(sp)[j]]
              = IF Slots + 1 - j <= Len(samples) THEN samples[Slots + 1 - j] ELSE None
  <1> DEFINE i == Walk(sp)[j]
             here == { n \in DOMAIN samples : (sp + n - 1) % Slots = i }
             k == Slots + 1 - j
  <1>1. Slots \in Nat \ {0} /\ sp \in Int /\ j \in Int /\ k \in 2..Slots
    BY SlotsAssumption
  <1>2. j \in DOMAIN Walk(sp) /\ i = (sp - j) % Slots
    BY DEF Walk
  <1>3. i = IF j <= sp THEN sp - j ELSE sp - j + Slots
    <2> DEFINE x == sp - j
    <2>1. x \in Int /\ (j <= sp => x \in 0..(Slots - 1)) /\ (~(j <= sp) => x \in (-Slots)..(-1))
      BY <1>1
    <2> HIDE DEF x
    <2>2. x % Slots = IF j <= sp THEN x ELSE x + Slots
      BY <2>1, Remainders
    <2> QED BY <1>2, <2>2 DEF x
  <1>4. i \in 0..(Slots - 1)
    BY <1>1, <1>3
  <1> HIDE DEF i
  <1>5. ASSUME NEW n \in DOMAIN samples
        PROVE  (sp + n - 1) % Slots = i <=> n = k
    <2>1. n \in 1..Slots /\ n \in Int
      BY <1>1
    <2>2. PICK x \in Int : x = sp + n - 1
      BY <1>1, <2>1
    <2>3. /\ x < Slots => x \in 0..(Slots - 1)
          /\ ~(x < Slots) => x \in Slots..(2 * Slots - 1)
      BY <1>1, <2>1, <2>2
    <2>4. x % Slots = IF x < Slots THEN x ELSE x - Slots
      BY <2>3, Remainders
    <2>5. PICK r \in Int : r = x % Slots
      BY <1>1, <2>3, <2>4
    <2>6. r = i <=> n = k
      BY SMTT(30), <1>1, <1>3, <1>4, <2>1, <2>2, <2>4, <2>5
    <2> QED BY <2>2, <2>5, <2>6
  <1>6. Ring(sp, samples)[i] = IF here = {} THEN None ELSE samples[CHOOSE n \in here : \A m \in here : m <= n]
    BY <1>4 DEF Ring
  <1>7. DOMAIN samples = 1..Len(samples)
    OBVIOUS
  <1>8. CASE k <= Len(samples)
    <2>1. here = {k}
      BY SMTT(30), <1>1, <1>5, <1>7, <1>8
    <2>2. (CHOOSE n \in here : \A m \in here : m <= n) = k
      BY <1>1, <2>1
    <2> QED BY <1>2, <1>6, <1>8, <2>1, <2>2 DEF i
  <1>9. CASE ~(k <= Len(samples))
    <2>1. here = {}
      BY <1>1, <1>5, <1>7, <1>9
    <2> QED BY <1>2, <1>6, <1>9, <2>1 DEF i
  <1> QED BY <1>8, <1>9

\* The walk gives every sample of a report but the oldest the timeslot it was taken in.
LEMMA WalkRecords ==
  ASSUME NEW sp \in 0..(Slots - 1), NEW samples \in Seq(Sample), Len(samples) \in 1..Slots,
         NEW ts \in Nat, Len(samples) <= ts
  PROVE  /\ DOMAIN Walked(Ring(sp, samples), sp, ts) = (ts - Len(samples) + 2)..ts
         /\ \A t \in (ts - Len(samples) + 2)..ts :
              Walked(Ring(sp, samples), sp, ts)[t] = samples[t - (ts - Len(samples))]
  <1> DEFINE ring == Ring(sp, samples)
             n == Len(samples)
             first == Slots + 1 - n
             hits == Hits(ring, sp)
             T(j) == TimeOf(ring, sp, ts, j)
  <1>1. Slots \in Nat \ {0} /\ n \in 1..Slots /\ first \in Int /\ DOMAIN samples = 1..n
    BY SlotsAssumption
  <1>2. DOMAIN Walk(sp) = 1..(Slots - 1)
    BY DEF Walk
  <1>3. hits = first..(Slots - 1)
    <2>1. ASSUME NEW j \in 1..(Slots - 1)
          PROVE  ring[Walk(sp)[j]] # None <=> j >= first
      <3>1. ring[Walk(sp)[j]] = IF Slots + 1 - j <= n THEN samples[Slots + 1 - j] ELSE None
        BY WalkMeets
      <3>2. Slots + 1 - j \in 2..Slots /\ (Slots + 1 - j <= n <=> j >= first)
        BY <1>1
      <3>3. Slots + 1 - j <= n => samples[Slots + 1 - j] \in Sample
        BY <1>1, <3>2
      <3> QED BY <3>1, <3>2, <3>3, LinkNoneAssumption
    <2>2. \A j : j \in hits <=> j \in 1..(Slots - 1) /\ ring[Walk(sp)[j]] # None
      BY <1>2 DEF Hits
    <2>3. \A j : j \in first..(Slots - 1) <=> j \in 1..(Slots - 1) /\ j >= first
      BY <1>1
    <2> HIDE DEF hits, first, ring
    <2> QED BY <2>1, <2>2, <2>3
  <1>4. ASSUME NEW j \in hits PROVE T(j) = ts - (j - first)
    <2>1. j \in first..(Slots - 1)
      BY <1>3
    <2>2. { i \in hits : i < j } = first..(j - 1)
      BY <1>1, <1>3, <2>1
    <2>3. Cardinality(first..(j - 1)) = j - first
      <3>1. first \in Int /\ j \in Int /\ j - 1 \in Int /\ j >= first
        BY <1>1, <2>1
      <3> HIDE DEF first
      <3>2. Cardinality(first..(j - 1)) = IF first > j - 1 THEN 0 ELSE (j - 1) - first + 1
        BY <3>1, FS_Interval
      <3> QED BY <3>1, <3>2
    <2> QED BY <2>2, <2>3 DEF TimeOf
  <1>5. \A j \in hits : ring[Walk(sp)[j]] = samples[Slots + 1 - j]
    <2> TAKE j \in hits
    <2>1. j \in 1..(Slots - 1) /\ Slots + 1 - j <= n
      BY <1>1, <1>3
    <2> QED BY <2>1, WalkMeets
  <1>6. /\ DOMAIN Walked(ring, sp, ts) = { T(j) : j \in hits }
        /\ \A t \in { T(j) : j \in hits } :
             Walked(ring, sp, ts)[t] = ring[Walk(sp)[CHOOSE j \in hits : T(j) = t]]
    BY DEF Walked
  <1> HIDE DEF ring, hits, T
  <1>7. { T(j) : j \in hits } = (ts - n + 2)..ts
    <2>1. ASSUME NEW j \in hits PROVE T(j) \in (ts - n + 2)..ts
      BY <1>1, <1>3, <1>4
    <2>2. ASSUME NEW t \in (ts - n + 2)..ts PROVE t \in { T(j) : j \in hits }
      <3>1. ts + first - t \in hits
        BY <1>1, <1>3
      <3>2. T(ts + first - t) = t
        BY <1>1, <1>4, <3>1
      <3> QED BY <3>1, <3>2
    <2> QED BY <2>1, <2>2
  <1>8. ASSUME NEW t \in (ts - n + 2)..ts
        PROVE  Walked(ring, sp, ts)[t] = samples[t - (ts - n)]
    <2>1. \E j \in hits : T(j) = t
      BY <1>7
    <2>2. PICK k \in hits : k = CHOOSE j \in hits : T(j) = t
      BY <2>1
    <2>3. T(k) = t
      BY <2>1, <2>2
    <2>4. k \in Int /\ t = ts - (k - first)
      BY <1>1, <1>3, <1>4, <2>3
    <2>5. Slots + 1 - k = t - (ts - n)
      BY <1>1, <2>4
    <2>6. Walked(ring, sp, ts)[t] = ring[Walk(sp)[k]]
      BY <1>6, <1>7, <2>2
    <2> QED BY <1>5, <2>5, <2>6
  <1> QED BY <1>6, <1>7, <1>8 DEF ring

-----------------------------------------------------------------------------
\* What a report does to the record.
LEMMA Reported ==
  ASSUME TypeOK, Report
  PROVE  \E oldest \in 1..Clock :
           /\ reported < oldest /\ oldest >= Clock - Slots + 1
           /\ oldest = reported + 1 \/ oldest = Clock - Slots + 1
           /\ DOMAIN state' = Kept(Clock) \cup (oldest + 1)..Clock
           /\ \A t \in DOMAIN state' : state'[t] = IF t \in (oldest + 1)..Clock THEN taken[t] ELSE state[t]
           /\ recent' = Clock /\ reported' = Clock /\ taken' = taken
           /\ decayed' = decayed \/ (recent > Clock /\ decayed' = decayed + (recent - Clock))
  <1> DEFINE ts == Clock
             n == IF Clock - reported < Slots THEN Clock - reported ELSE Slots
             sp == (ts - n) % Slots
             samples == SubSeq(taken, ts - n + 1, ts)
             new == Walked(Ring(sp, samples), sp, ts)
  <1>1. /\ ts \in Nat /\ Slots \in Nat \ {0} /\ reported \in 0..ts /\ ts > reported
        /\ taken \in Seq(Sample) /\ Len(taken) = ts
    BY SlotsAssumption DEF TypeOK, Report, Clock
  <1>2. n \in 1..Slots /\ n <= ts - reported /\ (n = ts - reported \/ n = Slots) /\ ts - n \in Nat
    BY <1>1
  <1>3. /\ reported' = ts /\ recent' = ts /\ taken' = taken
        /\ state' = [t \in Kept(ts) \cup DOMAIN new |-> IF t \in DOMAIN new THEN new[t] ELSE state[t]]
        /\ decayed' = IF recent > ts THEN decayed + (recent - ts) ELSE decayed
    BY DEF Report
  <1> HIDE DEF ts, n
  <1>4. /\ samples \in Seq(Sample) /\ Len(samples) = n
        /\ \A i \in 1..n : samples[i] = taken[ts - n + i]
    BY <1>1, <1>2
  <1>5. sp \in 0..(Slots - 1)
    BY <1>1, <1>2
  <1> HIDE DEF sp, samples
  <1>6. /\ DOMAIN new = (ts - n + 2)..ts
        /\ \A t \in (ts - n + 2)..ts : new[t] = samples[t - (ts - n)]
    <2>1. Len(samples) \in 1..Slots /\ Len(samples) <= ts
      BY <1>1, <1>2, <1>4
    <2>2. /\ DOMAIN new = (ts - Len(samples) + 2)..ts
          /\ \A t \in (ts - Len(samples) + 2)..ts : new[t] = samples[t - (ts - Len(samples))]
      BY <1>1, <1>4, <1>5, <2>1, WalkRecords
    <2> HIDE DEF new
    <2> QED BY <1>4, <2>2
  <1> HIDE DEF new
  <1>7. PICK oldest \in 1..ts : oldest = ts - n + 1
    BY <1>1, <1>2
  <1>8. DOMAIN new = (oldest + 1)..ts
    BY <1>1, <1>2, <1>6, <1>7
  <1>9. ASSUME NEW t \in (oldest + 1)..ts PROVE new[t] = taken[t]
    <2>1. t - (ts - n) \in 1..n /\ ts - n + (t - (ts - n)) = t /\ t \in (ts - n + 2)..ts
      BY <1>1, <1>2, <1>7
    <2> QED BY <1>4, <1>6, <2>1
  <1>10. /\ DOMAIN state' = Kept(ts) \cup (oldest + 1)..ts
         /\ \A t \in DOMAIN state' : state'[t] = IF t \in (oldest + 1)..ts THEN taken[t] ELSE state[t]
    BY <1>3, <1>8, <1>9
  <1>11. reported < oldest /\ oldest >= ts - Slots + 1 /\ (oldest = reported + 1 \/ oldest = ts - Slots + 1)
    BY <1>1, <1>2, <1>7
  <1> QED BY <1>3, <1>7, <1>10, <1>11 DEF ts

\* However many samples the reports carry and wherever in the ring they start, the supernode
\* records of each timeslot what the node found in it, and nothing older than the window.
\* (link_state_update1)
THEOREM SamplesRight == Spec => []SamplesInPlace
  <1> USE DEF SamplesInPlace
  <1>1. Init => SamplesInPlace
    BY DEF Init, TypeOK, RightSlot, InWindow, Clock
  <1>2. SamplesInPlace /\ [Next]_vars => SamplesInPlace'
    <2> SUFFICES ASSUME SamplesInPlace, [Next]_vars PROVE SamplesInPlace'
      OBVIOUS
    <2>1. ASSUME NEW v \in Sample, TakeSample(v) PROVE SamplesInPlace'
      <3>1. /\ taken' \in Seq(Sample) /\ Len(taken') = Len(taken) + 1 /\ Len(taken) \in Nat
            /\ DOMAIN taken' = 1..(Len(taken) + 1) /\ DOMAIN taken = 1..Len(taken)
            /\ \A t \in DOMAIN taken : taken'[t] = taken[t]
            /\ UNCHANGED <<reported, state, recent, decayed>>
        BY <2>1 DEF TakeSample, TypeOK
      <3>2. TypeOK'
        BY <3>1 DEF TypeOK, Clock
      <3>3. RightSlot' /\ InWindow'
        BY <3>1 DEF RightSlot, InWindow
      <3> QED BY <3>2, <3>3
    <2>2. CASE Report
      <3>1. PICK oldest \in 1..Clock :
           /\ reported < oldest /\ oldest >= Clock - Slots + 1
           /\ DOMAIN state' = Kept(Clock) \cup (oldest + 1)..Clock
           /\ \A t \in DOMAIN state' : state'[t] = IF t \in (oldest + 1)..Clock THEN taken[t] ELSE state[t]
           /\ recent' = Clock /\ reported' = Clock /\ taken' = taken
           /\ decayed' = decayed \/ (recent > Clock /\ decayed' = decayed + (recent - Clock))
        BY <2>2, Reported
      <3>2. /\ Clock \in Nat /\ Slots \in Nat \ {0} /\ Window \in Nat /\ Slots <= Window
            /\ taken \in Seq(Sample) /\ DOMAIN taken = 1..Clock
            /\ recent \in 0..Clock /\ reported \in 0..Clock /\ decayed \in Nat
        BY SlotsAssumption DEF TypeOK, Clock
      <3>3. ASSUME NEW t \in DOMAIN state'
            PROVE  /\ t \in 1..Clock /\ state'[t] = taken[t] /\ state'[t] \in Sample
                   /\ Clock - Window <= t
        <4>1. CASE t \in (oldest + 1)..Clock
          <5>1. t \in 1..Clock /\ state'[t] = taken[t] /\ Clock - Window <= t
            BY <3>1, <3>2, <4>1
          <5> QED BY <3>2, <5>1
        <4>2. CASE t \in Kept(Clock) /\ t \notin (oldest + 1)..Clock
          <5>1. t \in DOMAIN state /\ t >= Clock - Window /\ state'[t] = state[t]
            BY <3>1, <4>2 DEF Kept
          <5> QED BY <3>2, <5>1 DEF TypeOK, RightSlot
        <4> QED BY <3>1, <4>1, <4>2
      <3>4. Clock' = Clock
        BY <3>1 DEF Clock
      <3>5. TypeOK'
        BY <3>1, <3>2, <3>3, <3>4 DEF TypeOK
      <3>6. RightSlot'
        BY <3>1, <3>2, <3>3 DEF RightSlot
      <3>7. InWindow'
        BY <3>1, <3>2, <3>3 DEF InWindow
      <3> QED BY <3>5, <3>6, <3>7
    <2>3. CASE UNCHANGED vars
      BY <2>3 DEF vars, TypeOK, RightSlot, InWindow, Clock
    <2> QED BY <2>1, <2>2, <2>3 DEF Next
  <1> QED BY <1>1, <1>2, PTL DEF Spec

\* A report records all of its samples but the oldest, which the walk stops short of.
\* (link_state_update1)
THEOREM OneSampleShort == Spec => AllButOldest
  <1> DEFINE Step == reported' # reported =>
       \A t \in DOMAIN taken : (t > reported + 1 /\ t > Clock - Slots + 1) => t \in DOMAIN state'
  <1>1. SamplesInPlace /\ [Next]_vars => [Step]_vars
    <2> SUFFICES ASSUME TypeOK, [Next]_vars PROVE [Step]_vars
      BY DEF SamplesInPlace
    <2>1. CASE Report
      <3>1. PICK oldest \in 1..Clock :
           /\ oldest = reported + 1 \/ oldest = Clock - Slots + 1
           /\ DOMAIN state' = Kept(Clock) \cup (oldest + 1)..Clock
        BY <2>1, Reported
      <3>2. Clock \in Nat /\ Slots \in Nat /\ DOMAIN taken = 1..Clock
        BY SlotsAssumption DEF TypeOK, Clock
      <3>3. Step
        BY <3>1, <3>2 DEF TypeOK
      <3> QED BY <3>3
    <2>2. CASE \E v \in Sample : TakeSample(v)
      BY <2>2 DEF TakeSample
    <2>3. CASE UNCHANGED vars
      BY <2>3
    <2> QED BY <2>1, <2>2, <2>3 DEF Next
  <1>2. Spec => [][Step]_vars
    BY <1>1, SamplesRight, PTL DEF Spec
  <1> QED BY <1>2 DEF AllButOldest

-----------------------------------------------------------------------------
(* The retain loop.                                                         *)

\* What a list with one more holds.
LEMMA ToSetAppend ==
  ASSUME NEW S, NEW s \in Seq(S), NEW e \in S
  PROVE  Append(s, e) \in Seq(S) /\ ToSet(Append(s, e)) = ToSet(s) \cup {e}
<1> DEFINE r == Append(s, e)
<1>1. /\ r \in Seq(S) /\ Len(r) = Len(s) + 1
      /\ \A n \in 1..Len(s) : r[n] = s[n]
      /\ r[Len(s) + 1] = e
  BY AppendProperties
<1>2. Len(s) \in Nat /\ DOMAIN s = 1..Len(s)
  BY LenProperties
<1> HIDE DEF r
<1>3. DOMAIN r = 1..(Len(s) + 1)
  BY <1>1, LenProperties
<1>4. \A n \in DOMAIN r : n \in DOMAIN s \/ n = Len(s) + 1
  BY <1>2, <1>3
<1>5. (\A n \in DOMAIN s : n \in DOMAIN r) /\ Len(s) + 1 \in DOMAIN r
  BY <1>2, <1>3
<1>6. ToSet(r) = ToSet(s) \cup {e}
  BY <1>1, <1>2, <1>4, <1>5 DEF ToSet
<1> QED BY <1>1, <1>6 DEF r

\* One more position at the end of those that are picked.
LEMMA PickMore ==
  ASSUME NEW S, NEW s \in Seq(S), NEW n \in DOMAIN s, NEW K \in SUBSET (1..(n - 1))
  PROVE  Pick(s, K \cup {n}) = Append(Pick(s, K), s[n])
<1> DEFINE C == Cardinality(K)
           M == K \cup {n}
<1>1. n \in Nat /\ IsFiniteSet(K) /\ K \subseteq Int /\ n \notin K /\ \A i \in K : i < n /\ i \in Nat
  <2>1. n \in Nat
    BY LenProperties
  <2>2. IsFiniteSet(1..(n - 1))
    BY <2>1, FS_Interval
  <2>3. IsFiniteSet(K)
    BY <2>2, FS_Subset
  <2> QED BY <2>1, <2>3
<1>2. IsFiniteSet(M) /\ M \subseteq Int /\ Cardinality(M) = C + 1 /\ C \in Nat
  <2>1. IsFiniteSet(M) /\ Cardinality(M) = C + 1
    BY <1>1, FS_AddElement
  <2>2. C \in Nat
    BY <1>1, FS_CardinalityType
  <2>3. n \in Int
    BY <1>1
  <2> QED BY <1>1, <2>1, <2>2, <2>3
<1>0. n \in M /\ \A i \in M : i = n \/ i \in K
  OBVIOUS
<1>3. \A i \in K : Rank(M, i) = Rank(K, i)
  <2> TAKE i \in K
  <2>1. { j \in M : j <= i } = { j \in K : j <= i }
    BY <1>1
  <2> QED BY <2>1 DEF Rank
<1>4. Rank(M, n) = C + 1
  <2>1. \A j \in M : j <= n
    BY <1>0, <1>1
  <2>3. { j \in M : j <= n } = M
    BY <2>1
  <2> QED BY <1>2, <2>3 DEF Rank
<1>5. ASSUME NEW m \in 1..C
      PROVE  (CHOOSE i \in M : Rank(M, i) = m) = (CHOOSE i \in K : Rank(K, i) = m)
  <2>1. \A i \in M : Rank(M, i) = m <=> i \in K /\ Rank(K, i) = m
    <3> TAKE i \in M
    <3>1. m # C + 1
      BY <1>2
    <3>2. CASE i = n
      BY <1>1, <1>4, <3>1, <3>2
    <3>3. CASE i \in K
      BY <1>3, <3>3
    <3> QED BY <1>0, <3>2, <3>3
  <2>2. PICK i \in K : Rank(K, i) = m
    BY <1>1, RankBijective
  <2>3. \A j \in K : Rank(K, j) = m => j = i
    BY <1>1, <2>2, RankBijective
  <2>4. (CHOOSE j \in K : Rank(K, j) = m) = i
    BY <2>2, <2>3
  <2>5. (CHOOSE j \in M : Rank(M, j) = m) = i
    BY <2>1, <2>2, <2>3
  <2> QED BY <2>4, <2>5
<1>6. (CHOOSE i \in M : Rank(M, i) = C + 1) = n
  <2>1. \A i \in M : Rank(M, i) = C + 1 => i = n
    BY <1>2, <1>4, RankBijective
  <2> QED BY <1>4, <2>1
<1>7. Pick(s, M) = [m \in 1..(C + 1) |-> s[CHOOSE i \in M : Rank(M, i) = m]]
  BY <1>2 DEF Pick
<1>8. Pick(s, K) = [m \in 1..C |-> s[CHOOSE i \in K : Rank(K, i) = m]] /\ Pick(s, K) \in Seq(S)
  <2>1. K \in SUBSET DOMAIN s
    BY <1>1, LenProperties
  <2> QED BY <2>1, PickElements DEF Pick
<1>9. Len(Pick(s, K)) = C /\ DOMAIN Pick(s, K) = 1..C
  BY <1>2, <1>8, LenProperties
<1> DEFINE p == Pick(s, K)
           q == Pick(s, M)
<1>10. \A m \in 1..C : q[m] = p[m]
  <2>1. \A m \in 1..C : m \in 1..(C + 1)
    BY <1>2
  <2> TAKE m \in 1..C
  <2>2. q[m] = s[CHOOSE i \in M : Rank(M, i) = m]
    BY <1>7, <2>1
  <2>3. p[m] = s[CHOOSE i \in K : Rank(K, i) = m]
    BY <1>8
  <2> QED BY <1>5, <2>2, <2>3
<1>11. q[C + 1] = s[n]
  <2>1. C + 1 \in 1..(C + 1)
    BY <1>2
  <2>2. q[C + 1] = s[CHOOSE i \in M : Rank(M, i) = C + 1]
    BY <1>7, <2>1
  <2> QED BY <1>6, <2>2
<1>12. DOMAIN q = 1..(C + 1)
  BY <1>7
<1>13. q = [m \in 1..(C + 1) |-> q[m]]
  BY <1>7
<1> HIDE DEF p, q, M, C
<1>14. Append(p, s[n]) = [m \in 1..(C + 1) |-> IF m <= C THEN p[m] ELSE s[n]]
  <2>1. s[n] \in S /\ p \in Seq(S)
    BY <1>8, ElementOfSeq, LenProperties DEF p
  <2>2. Len(p) = C /\ C \in Nat
    BY <1>2, <1>9 DEF p
  <2>3. /\ Append(p, s[n]) \in Seq(S) /\ Len(Append(p, s[n])) = C + 1
        /\ \A m \in 1..C : Append(p, s[n])[m] = p[m]
        /\ Append(p, s[n])[C + 1] = s[n]
    BY <2>1, <2>2, AppendProperties
  <2> DEFINE r == Append(p, s[n])
  <2> HIDE DEF r
  <2>4. DOMAIN r = 1..(C + 1) /\ r = [m \in DOMAIN r |-> r[m]]
    BY <2>3, LenProperties DEF r
  <2>5. \A m \in 1..(C + 1) : r[m] = IF m <= C THEN p[m] ELSE s[n]
    <3> TAKE m \in 1..(C + 1)
    <3>1. (m \in 1..C /\ m <= C) \/ (m = C + 1 /\ ~(m <= C))
      BY <2>2
    <3> QED BY <2>3, <3>1 DEF r
  <2> QED BY <2>4, <2>5 DEF r
<1>15. \A m \in 1..(C + 1) : q[m] = IF m <= C THEN p[m] ELSE s[n]
  <2> TAKE m \in 1..(C + 1)
  <2>1. (m \in 1..C /\ m <= C) \/ (m = C + 1 /\ ~(m <= C))
    BY <1>2
  <2> QED BY <1>10, <1>11, <2>1
<1> QED BY <1>13, <1>14, <1>15 DEF p, q, M

\* What announcements and their entities are.
LEMMA EntitiesTyped ==
  ASSUME NEW a \in Announcement
  PROVE  /\ a.ts \in Nat /\ a.entities \in Seq(Entity) /\ ~Expired(a, a)
         /\ Len(a.entities) \in Nat /\ DOMAIN a.entities = 1..Len(a.entities)
         /\ \A i \in DOMAIN a.entities : a.entities[i] \in Entity
<1>1. a.ts \in Nat /\ a.entities \in Seq(Entity)
  BY DEF Announcement
<1>2. ~Expired(a, a)
  BY <1>1, AgreedTimeoutAssumption DEF Expired
<1> QED BY <1>1, <1>2, LenProperties, ElementOfSeq

\* What replaces one another fills one slot.
LEMMA Replaces ==
  ASSUME NEW e \in Entity, NEW f \in Entity
  PROVE  /\ ~IsEphemeral(e) => IsReplacement(e, e) /\ (Slot(e) = Slot(f) <=> IsReplacement(e, f))
         /\ IsReplacement(e, f) => IsReplacement(f, e) /\ ~IsEphemeral(f)
         /\ \A g \in Entity : IsReplacement(e, f) /\ IsReplacement(f, g) => IsReplacement(e, g)
BY DEF Entity, IsEphemeral, IsReplacement, Slot

\* The loop is before or at entity k of announcement i of the list s.
Passed(i, k, j, m) == j < i \/ (j = i /\ m <= k)

\* What has been announced when entity k of announcement i of s has been visited.
Known(s, new, i, k, seen) ==
  /\ seen \in Seq(Entity)
  /\ \A e \in ToSet(seen) : \E j \in DOMAIN s : \E m \in DOMAIN s[j].entities :
       Passed(i, k, j, m) /\ ~Expired(s[j], new) /\ Fresh(s, new, j, m) /\ e = s[j].entities[m]
  /\ \A j \in DOMAIN s : \A m \in DOMAIN s[j].entities :
       (Passed(i, k, j, m) /\ ~Expired(s[j], new) /\ ~IsEphemeral(s[j].entities[m])) =>
         /\ \E e \in ToSet(seen) : IsReplacement(s[j].entities[m], e)
         /\ Fresh(s, new, j, m) => s[j].entities[m] \in ToSet(seen)

\* An entity is announced exactly when it is the first of its kind that has not expired.
LEMMA EntityVisited ==
  ASSUME NEW s \in Seq(Announcement), NEW i \in DOMAIN s, ~Expired(s[i], ann),
         NEW k \in DOMAIN s[i].entities, NEW seen, Known(s, ann, i, k - 1, seen)
  PROVE  LET r == Announce(seen, s[i].entities[k]) IN
         /\ Known(s, ann, i, k, r)
         /\ Fresh(s, ann, i, k) => Len(r) = Len(seen) + 1
         /\ ~Fresh(s, ann, i, k) => r = seen
<1> DEFINE e == s[i].entities[k]
           r == Announce(seen, e)
<1>1. /\ DOMAIN s = 1..Len(s) /\ Len(s) \in Nat /\ \A j \in DOMAIN s : s[j] \in Announcement /\ j \in Nat
      /\ \A j \in DOMAIN s : \A m \in DOMAIN s[j].entities : s[j].entities[m] \in Entity /\ m \in Nat
  BY LenProperties, ElementOfSeq, EntitiesTyped
<1>2. e \in Entity /\ i \in Nat /\ k \in Nat
  BY <1>1
<1>3. \A j \in DOMAIN s : \A m \in DOMAIN s[j].entities :
        /\ Passed(i, k, j, m) <=> (Passed(i, k - 1, j, m) \/ (j = i /\ m = k))
        /\ Passed(i, k - 1, j, m) <=> (j \in 1..i /\ (j = i => m < k))
  BY <1>1, <1>2 DEF Passed
<1>4. /\ seen \in Seq(Entity)
      /\ \A f \in ToSet(seen) : \E j \in DOMAIN s : \E m \in DOMAIN s[j].entities :
           Passed(i, k - 1, j, m) /\ ~Expired(s[j], ann) /\ Fresh(s, ann, j, m) /\ f = s[j].entities[m]
      /\ \A j \in DOMAIN s : \A m \in DOMAIN s[j].entities :
           (Passed(i, k - 1, j, m) /\ ~Expired(s[j], ann) /\ ~IsEphemeral(s[j].entities[m])) =>
             /\ \E f \in ToSet(seen) : IsReplacement(s[j].entities[m], f)
             /\ Fresh(s, ann, j, m) => s[j].entities[m] \in ToSet(seen)
  BY DEF Known
<1>5. \A f \in ToSet(seen) : f \in Entity
  BY <1>1, <1>4
<1>6. Fresh(s, ann, i, k) => ~IsEphemeral(e) /\ \A f \in ToSet(seen) : ~IsReplacement(e, f)
  <2> SUFFICES ASSUME Fresh(s, ann, i, k)
               PROVE  ~IsEphemeral(e) /\ \A f \in ToSet(seen) : ~IsReplacement(e, f)
    OBVIOUS
  <2>1. ~IsEphemeral(e)
    BY DEF Fresh
  <2>2. ASSUME NEW f \in ToSet(seen) PROVE ~IsReplacement(e, f)
    <3>1. PICK j \in DOMAIN s : \E m \in DOMAIN s[j].entities :
           Passed(i, k - 1, j, m) /\ ~Expired(s[j], ann) /\ Fresh(s, ann, j, m) /\ f = s[j].entities[m]
      BY <1>4, <2>2
    <3>2. PICK m \in DOMAIN s[j].entities :
           Passed(i, k - 1, j, m) /\ ~Expired(s[j], ann) /\ Fresh(s, ann, j, m) /\ f = s[j].entities[m]
      BY <3>1
    <3>3. j \in 1..i /\ (j = i => m < k)
      BY <1>3, <3>2
    <3>4. ~IsEphemeral(f)
      BY <3>2 DEF Fresh
    <3> QED BY <3>2, <3>3, <3>4 DEF Fresh
  <2> QED BY <2>1, <2>2
<1>7. (~IsEphemeral(e) /\ \A f \in ToSet(seen) : ~IsReplacement(e, f)) => Fresh(s, ann, i, k)
  <2> SUFFICES ASSUME ~IsEphemeral(e), \A f \in ToSet(seen) : ~IsReplacement(e, f)
               PROVE  Fresh(s, ann, i, k)
    OBVIOUS
  <2>1. ASSUME NEW j \in 1..i, ~Expired(s[j], ann), NEW m \in DOMAIN s[j].entities, j = i => m < k,
               ~IsEphemeral(s[j].entities[m])
        PROVE  ~IsReplacement(e, s[j].entities[m])
    <3>1. j \in DOMAIN s
      BY <1>1, <1>2
    <3>2. Passed(i, k - 1, j, m) /\ s[j].entities[m] \in Entity
      BY <1>1, <1>3, <2>1, <3>1
    <3>3. PICK f \in ToSet(seen) : IsReplacement(s[j].entities[m], f)
      BY <1>4, <2>1, <3>1, <3>2
    <3> QED BY <1>2, <1>5, <3>2, <3>3, Replaces
  <2> QED BY <2>1 DEF Fresh
<1>8. CASE Fresh(s, ann, i, k)
  <2>1. r = Append(seen, e)
    BY <1>6, <1>8 DEF Announce
  <2>2. r \in Seq(Entity) /\ Len(r) = Len(seen) + 1
    BY <1>2, <1>4, <2>1, AppendProperties
  <2>3. ToSet(r) = ToSet(seen) \cup {e}
    BY <1>2, <1>4, <2>1, ToSetAppend
  <2>4. ~IsEphemeral(e) /\ IsReplacement(e, e)
    BY <1>2, <1>6, <1>8, Replaces
  <2> HIDE DEF r
  <2>5. ASSUME NEW f \in ToSet(r)
        PROVE  \E j \in DOMAIN s : \E m \in DOMAIN s[j].entities :
                 Passed(i, k, j, m) /\ ~Expired(s[j], ann) /\ Fresh(s, ann, j, m) /\ f = s[j].entities[m]
    <3>1. CASE f = e
      BY <1>3, <1>8, <3>1
    <3>2. CASE f \in ToSet(seen)
      BY <1>3, <1>4, <3>2
    <3> QED BY <2>3, <3>1, <3>2
  <2>6. ASSUME NEW j \in DOMAIN s, NEW m \in DOMAIN s[j].entities,
               Passed(i, k, j, m), ~Expired(s[j], ann), ~IsEphemeral(s[j].entities[m])
        PROVE  /\ \E f \in ToSet(r) : IsReplacement(s[j].entities[m], f)
               /\ Fresh(s, ann, j, m) => s[j].entities[m] \in ToSet(r)
    <3>1. CASE j = i /\ m = k
      BY <2>3, <2>4, <3>1
    <3>2. CASE Passed(i, k - 1, j, m)
      BY <1>4, <2>3, <2>6, <3>2
    <3> QED BY <1>3, <2>6, <3>1, <3>2
  <2>7. Known(s, ann, i, k, r)
    BY <2>2, <2>5, <2>6 DEF Known
  <2> QED BY <1>8, <2>2, <2>7 DEF r
<1>9. CASE ~Fresh(s, ann, i, k)
  <2>1. r = seen
    BY <1>7, <1>9 DEF Announce
  <2>2. ASSUME NEW f \in ToSet(seen)
        PROVE  \E j \in DOMAIN s : \E m \in DOMAIN s[j].entities :
                 Passed(i, k, j, m) /\ ~Expired(s[j], ann) /\ Fresh(s, ann, j, m) /\ f = s[j].entities[m]
    BY <1>3, <1>4, <2>2
  <2>3. ASSUME NEW j \in DOMAIN s, NEW m \in DOMAIN s[j].entities,
               Passed(i, k, j, m), ~Expired(s[j], ann), ~IsEphemeral(s[j].entities[m])
        PROVE  /\ \E f \in ToSet(seen) : IsReplacement(s[j].entities[m], f)
               /\ Fresh(s, ann, j, m) => s[j].entities[m] \in ToSet(seen)
    <3>1. CASE j = i /\ m = k
      BY <1>7, <1>9, <2>3, <3>1
    <3>2. CASE Passed(i, k - 1, j, m)
      BY <1>4, <2>3, <3>2
    <3> QED BY <1>3, <2>3, <3>1, <3>2
  <2>4. Known(s, ann, i, k, seen)
    BY <1>4, <2>2, <2>3 DEF Known
  <2> QED BY <1>9, <2>1, <2>4
<1> QED BY <1>8, <1>9

\* up is what the loop over the entities of a has announced after each of them.
Announces(up, seen, a) ==
  up = [k \in 0..Len(a.entities) |-> IF k = 0 THEN seen ELSE Announce(up[k - 1], a.entities[k])]

\* AnnounceAll is the last of that.
LEMMA AnnouncesAll ==
  ASSUME NEW a \in Announcement, NEW seen \in Seq(Entity)
  PROVE  \E up : /\ up[0] = seen
                 /\ \A k \in 1..Len(a.entities) : up[k] = Announce(up[k - 1], a.entities[k])
                 /\ AnnounceAll(seen, a) = up[Len(a.entities)]
<1> DEFINE n == Len(a.entities)
           S == Seq(Entity)
           F == [x \in Nat \X S |-> IF x[1] \in DOMAIN a.entities THEN Announce(x[2], a.entities[x[1]]) ELSE x[2]]
<1>1. n \in Nat /\ DOMAIN a.entities = 1..n /\ \A k \in 1..n : a.entities[k] \in Entity
  BY EntitiesTyped
<1>2. ASSUME NEW t \in S, NEW e \in Entity PROVE Announce(t, e) \in S
  <2>1. Append(t, e) \in S
    BY AppendProperties
  <2> QED BY <2>1 DEF Announce
<1>3. F \in [Nat \X S -> S]
  <2>1. \A x \in Nat \X S : F[x] \in S
    BY <1>1, <1>2
  <2> QED BY <2>1
<1>4. \A k \in 1..n, t \in S : F[<<k, t>>] = Announce(t, a.entities[k])
  BY <1>1
<1> HIDE DEF F, S
<1>5. PICK f : Iteration(f, S, n, seen, F)
  <2>1. seen \in S
    BY DEF S
  <2> HIDE DEF n
  <2> QED BY <1>1, <1>3, <2>1, Iterates
<1>6. f \in [0..n -> S] /\ f[0] = seen /\ \A k \in 1..n : f[k] = F[<<k, f[k - 1]>>]
  BY <1>5 DEF Iteration
<1>7. \A k \in 1..n : f[k] = Announce(f[k - 1], a.entities[k])
  <2> TAKE k \in 1..n
  <2>1. k - 1 \in 0..n
    BY <1>1
  <2> QED BY <1>4, <1>6, <2>1
<1>8. Announces(f, seen, a)
  <2> DEFINE rhs == [k \in 0..n |-> IF k = 0 THEN seen ELSE Announce(f[k - 1], a.entities[k])]
  <2>1. \A k \in 0..n : k = 0 \/ k \in 1..n
    BY <1>1
  <2>2. \A k \in 0..n : f[k] = rhs[k]
    BY <1>1, <1>6, <1>7, <2>1
  <2>3. f = rhs
    BY <1>6, <2>2
  <2> QED BY <2>3 DEF Announces
<1> DEFINE up == CHOOSE u : Announces(u, seen, a)
<1>9. Announces(up, seen, a)
  BY <1>8
<1>10. AnnounceAll(seen, a) = up[n]
  BY DEF AnnounceAll, Announces
<1> HIDE DEF up
<1>11. up[0] = seen /\ \A k \in 1..n : up[k] = Announce(up[k - 1], a.entities[k])
  <2>1. 0 \in 0..n /\ \A k \in 1..n : k \in 0..n /\ k # 0
    BY <1>1
  <2> QED BY <1>9, <2>1 DEF Announces
<1> QED BY <1>10, <1>11

\* One announcement: what it is first to say is known, and it said something so exactly when
\* the announced have grown.
LEMMA AnnouncementVisited ==
  ASSUME NEW s \in Seq(Announcement), NEW i \in DOMAIN s, ~Expired(s[i], ann),
         NEW seen, Known(s, ann, i, 0, seen)
  PROVE  LET r == AnnounceAll(seen, s[i]) IN
         /\ Known(s, ann, i, Len(s[i].entities), r)
         /\ r # seen <=> \E k \in DOMAIN s[i].entities : Fresh(s, ann, i, k)
<1> DEFINE n == Len(s[i].entities)
<1>1. s[i] \in Announcement /\ n \in Nat /\ DOMAIN s[i].entities = 1..n /\ seen \in Seq(Entity)
  BY LenProperties, ElementOfSeq, EntitiesTyped DEF Known
<1>2. PICK up : /\ up[0] = seen
                /\ \A k \in 1..n : up[k] = Announce(up[k - 1], s[i].entities[k])
                /\ AnnounceAll(seen, s[i]) = up[n]
  BY <1>1, AnnouncesAll
<1> DEFINE Good(k) == /\ Known(s, ann, i, k, up[k])
                      /\ (\A m \in 1..k : ~Fresh(s, ann, i, m)) => up[k] = seen
                      /\ (\E m \in 1..k : Fresh(s, ann, i, m)) => Len(up[k]) > Len(seen)
                      /\ Len(up[k]) >= Len(seen)
           T == { k \in Nat : k <= n => Good(k) }
<1>3. Len(seen) \in Nat
  BY <1>1, LenProperties
<1>4. 0 \in T
  <2>1. Good(0)
    BY <1>2, <1>3
  <2> QED BY <2>1
<1>5. ASSUME NEW k \in Nat, k \in T PROVE k + 1 \in T
  <2> SUFFICES ASSUME k + 1 <= n PROVE Good(k + 1)
    OBVIOUS
  <2> DEFINE t == up[k]
             u == up[k + 1]
  <2>1. k + 1 \in 1..n /\ (k + 1) - 1 = k /\ k <= n
    BY <1>1
  <2>2. /\ Known(s, ann, i, k, t) /\ Len(t) >= Len(seen)
        /\ (\A m \in 1..k : ~Fresh(s, ann, i, m)) => t = seen
        /\ (\E m \in 1..k : Fresh(s, ann, i, m)) => Len(t) > Len(seen)
    BY <1>5, <2>1
  <2>3. u = Announce(t, s[i].entities[k + 1])
    BY <1>2, <2>1
  <2> HIDE DEF t, u
  <2>4. PICK p : p = k + 1
    OBVIOUS
  <2>5. p \in DOMAIN s[i].entities /\ p - 1 = k
    BY <1>1, <2>1, <2>4
  <2>6. Known(s, ann, i, p - 1, t) /\ u = Announce(t, s[i].entities[p])
    BY <2>2, <2>3, <2>4, <2>5
  <2>7. /\ Known(s, ann, i, p, u)
        /\ Fresh(s, ann, i, p) => Len(u) = Len(t) + 1
        /\ ~Fresh(s, ann, i, p) => u = t
    BY <2>5, <2>6, EntityVisited
  <2>8. \A m \in 1..p : m \in 1..k \/ m = p
    BY <2>4
  <2>9. \A m \in 1..k : m \in 1..p
    BY <2>4
  <2>10. p \in 1..p /\ Len(t) \in Nat
    BY <2>2, <2>4, LenProperties DEF Known
  <2>11. (\A m \in 1..p : ~Fresh(s, ann, i, m)) => u = seen
    BY <2>2, <2>7, <2>9, <2>10
  <2>12. Len(u) >= Len(t)
    BY <2>7, <2>10
  <2>13. Len(u) \in Nat
    BY <2>7, LenProperties DEF Known
  <2>14. ASSUME NEW m \in 1..p, Fresh(s, ann, i, m) PROVE Len(u) > Len(seen)
    <3>1. CASE m = p
      BY <1>3, <2>2, <2>7, <2>10, <2>14, <3>1
    <3>2. CASE m \in 1..k
      <4>1. Len(t) > Len(seen)
        BY <2>2, <2>14, <3>2
      <4> QED BY <1>3, <2>10, <2>12, <2>13, <4>1
    <3> QED BY <2>8, <3>1, <3>2
  <2>15. Len(u) >= Len(seen)
    BY <1>3, <2>2, <2>10, <2>12, <2>13
  <2> QED BY <2>4, <2>7, <2>11, <2>14, <2>15 DEF u
<1> HIDE DEF T
<1>6. \A k \in Nat : k \in T
  BY <1>4, <1>5, Induction
<1>7. Good(n)
  BY <1>1, <1>6 DEF T
<1>8. (\E k \in 1..n : Fresh(s, ann, i, k)) => up[n] # seen
  BY <1>3, <1>7
<1> QED BY <1>1, <1>2, <1>7, <1>8

\* The loop goes on to the next announcement.
LEMMA KnownNext ==
  ASSUME NEW s \in Seq(Announcement), NEW i \in DOMAIN s, NEW k \in Nat, NEW seen,
         Known(s, ann, i, k, seen), Expired(s[i], ann) \/ k = Len(s[i].entities)
  PROVE  Known(s, ann, i + 1, 0, seen)
<1>1. /\ DOMAIN s = 1..Len(s) /\ Len(s) \in Nat /\ s[i] \in Announcement /\ i \in Nat
      /\ \A j \in DOMAIN s : j \in Nat /\ \A m \in DOMAIN s[j].entities : m \in Nat /\ m >= 1
      /\ DOMAIN s[i].entities = 1..Len(s[i].entities) /\ Len(s[i].entities) \in Nat
  <2>1. DOMAIN s = 1..Len(s) /\ Len(s) \in Nat /\ \A j \in DOMAIN s : s[j] \in Announcement
    BY LenProperties, ElementOfSeq
  <2>2. \A j \in DOMAIN s : DOMAIN s[j].entities = 1..Len(s[j].entities) /\ Len(s[j].entities) \in Nat
    BY <2>1, EntitiesTyped
  <2> QED BY <2>1, <2>2
<1>2. \A j \in DOMAIN s : \A m \in DOMAIN s[j].entities :
        /\ Passed(i, k, j, m) => Passed(i + 1, 0, j, m)
        /\ Passed(i + 1, 0, j, m) /\ ~Expired(s[j], ann) => Passed(i, k, j, m)
  <2> TAKE j \in DOMAIN s
  <2> TAKE m \in DOMAIN s[j].entities
  <2>1. j \in Nat /\ m \in Nat /\ m >= 1
    BY <1>1
  <2>2. Passed(i, k, j, m) => Passed(i + 1, 0, j, m)
    BY <1>1, <2>1 DEF Passed
  <2>3. ASSUME Passed(i + 1, 0, j, m), ~Expired(s[j], ann) PROVE Passed(i, k, j, m)
    <3>1. j < i \/ j = i
      BY <1>1, <2>1, <2>3 DEF Passed
    <3>2. j = i => m <= k
      BY <1>1, <2>1, <2>3
    <3> QED BY <3>1, <3>2 DEF Passed
  <2> QED BY <2>2, <2>3
<1> QED BY <1>2 DEF Known

\* The loop is over with n announcements of the list it met.
Over(n) ==
  /\ n \in 0..Len(Met)
  /\ visits \in Seq(Ann) /\ Len(visits) = Len(Met) - n /\ \A i \in 1..Len(visits) : visits[i] = Met[n + i]
  /\ anns = Pick(Met, { i \in Retained(Met, ann) : i <= n })
  /\ dropped \in Seq(Ann) /\ ToSet(dropped) = { Met[i] : i \in (1..n) \ Retained(Met, ann) }
  /\ Known(Met, ann, n + 1, 0, announced)

\* The inductive invariant of the loop.
RetainInv ==
  /\ ann \in Ann /\ before \in Seq(Ann) /\ anns \in Seq(Ann) /\ adds \in Nat
  /\ IF adds = 0 THEN visits = <<>> ELSE \E n : Over(n)

\* The list with the announcement in front.
LEMMA MetTyped ==
  ASSUME NEW a \in Ann, NEW l \in Seq(Ann)
  PROVE  LET s == <<a>> \o l IN
         /\ s \in Seq(Ann) /\ s \in Seq(Announcement) /\ Len(s) \in Nat /\ Len(s) >= 1 /\ DOMAIN s = 1..Len(s)
         /\ s[1] = a /\ a \in Announcement /\ 1 \in Retained(s, a) /\ Retained(s, a) \subseteq DOMAIN s
         /\ \A i \in DOMAIN s : s[i] \in Ann /\ s[i] \in Announcement
<1> DEFINE s == <<a>> \o l
<1>1. s \in Seq(Ann) /\ Len(s) \in Nat /\ Len(s) >= 1 /\ DOMAIN s = 1..Len(s) /\ s[1] = a
  <2>1. <<a>> \in Seq(Ann) /\ Len(<<a>>) = 1 /\ <<a>>[1] = a
    OBVIOUS
  <2>2. s \in Seq(Ann) /\ Len(s) = Len(<<a>>) + Len(l) /\ \A i \in 1..Len(s) : s[i] = IF i <= Len(<<a>>) THEN <<a>>[i] ELSE l[i - Len(<<a>>)]
    BY <2>1, ConcatProperties
  <2>3. Len(l) \in Nat /\ DOMAIN s = 1..Len(s)
    BY <2>2, LenProperties
  <2> HIDE DEF s
  <2>4. Len(s) \in Nat /\ Len(s) >= 1 /\ 1 \in 1..Len(s)
    BY <2>1, <2>2, <2>3
  <2> QED BY <2>1, <2>2, <2>3, <2>4
<1> HIDE DEF s
<1>2. a \in Announcement /\ \A i \in DOMAIN s : s[i] \in Ann /\ s[i] \in Announcement
  BY <1>1, ElementOfSeq, RetainAssumption
<1>3. s \in Seq(Announcement)
  BY <1>1, <1>2
<1>4. ~Expired(a, a)
  BY <1>2, EntitiesTyped
<1>5. 1 \in Retained(s, a) /\ Retained(s, a) \subseteq DOMAIN s
  BY <1>1, <1>4 DEF Retained
<1> QED BY <1>1, <1>2, <1>3, <1>5 DEF s

\* What the loop is about to visit, and what the list and the dropped become with it.
LEMMA NextVisit ==
  ASSUME RetainInv, visits # <<>>
  PROVE  \E p \in DOMAIN Met :
           /\ adds # 0 /\ Over(p - 1) /\ p - 1 \in Nat
           /\ Head(visits) = Met[p] /\ Tail(visits) \in Seq(Ann) /\ Len(Tail(visits)) = Len(Met) - p
           /\ \A i \in 1..Len(Tail(visits)) : Tail(visits)[i] = Met[p + i]
           /\ p \in Retained(Met, ann) =>
                Pick(Met, { i \in Retained(Met, ann) : i <= p }) = Append(anns, Met[p])
           /\ p \notin Retained(Met, ann) =>
                /\ Pick(Met, { i \in Retained(Met, ann) : i <= p }) = anns
                /\ Append(dropped, Met[p]) \in Seq(Ann)
                /\ ToSet(Append(dropped, Met[p])) = { Met[i] : i \in (1..p) \ Retained(Met, ann) }
           /\ p \in Retained(Met, ann) =>
                ToSet(dropped) = { Met[i] : i \in (1..p) \ Retained(Met, ann) }
<1> DEFINE s == Met
           R == Retained(s, ann)
<1>1. /\ s \in Seq(Ann) /\ Len(s) \in Nat /\ DOMAIN s = 1..Len(s) /\ R \subseteq DOMAIN s
      /\ \A i \in DOMAIN s : s[i] \in Ann
  BY MetTyped DEF RetainInv, Met
<1>2. adds # 0 /\ \E n : Over(n)
  BY DEF RetainInv
<1>3. PICK n : Over(n)
  BY <1>2
<1> HIDE DEF s, R
<1>4. /\ n \in 0..Len(s)
      /\ visits \in Seq(Ann) /\ Len(visits) = Len(s) - n /\ \A i \in 1..Len(visits) : visits[i] = s[n + i]
      /\ anns = Pick(s, { i \in R : i <= n })
      /\ dropped \in Seq(Ann) /\ ToSet(dropped) = { s[i] : i \in (1..n) \ R }
  BY <1>3 DEF Over, s, R
<1>5. Len(visits) \in Nat /\ Len(visits) # 0 /\ n \in Nat /\ n <= Len(s) /\ Len(visits) = Len(s) - n
  <2>1. Len(visits) \in Nat /\ Len(visits) # 0
    BY <1>4, EmptySeq, LenProperties
  <2>2. n \in Nat /\ n <= Len(s)
    BY <1>1, <1>4
  <2> QED BY <1>4, <2>1, <2>2
<1>6. PICK p \in DOMAIN s : p = n + 1
  <2>1. PICK l \in Nat, v \in Nat : l = Len(s) /\ v = Len(visits)
    BY <1>1, <1>5
  <2>2. n + 1 \in 1..l
    BY <1>5, <2>1
  <2> QED BY <1>1, <2>1, <2>2
<1>7. p \in Nat /\ n \in Nat /\ p - 1 = n
  BY <1>1, <1>4, <1>6
<1>8. /\ Head(visits) = visits[1] /\ Tail(visits) \in Seq(Ann) /\ Len(Tail(visits)) = Len(visits) - 1
      /\ \A i \in 1..Len(Tail(visits)) : Tail(visits)[i] = visits[i + 1]
  BY <1>4, HeadTailProperties
<1>9. Head(visits) = s[p] /\ Len(Tail(visits)) = Len(s) - p
  <2>0. PICK l \in Nat, v \in Nat : l = Len(s) /\ v = Len(visits)
    BY <1>1, <1>5
  <2>1. 1 \in 1..v /\ v - 1 = l - p
    BY <1>5, <1>6, <2>0
  <2> QED BY <1>4, <1>6, <1>8, <2>0, <2>1
<1>10. ASSUME NEW i \in 1..Len(Tail(visits)) PROVE Tail(visits)[i] = s[p + i]
  <2>1. i + 1 \in 1..Len(visits) /\ n + (i + 1) = p + i
    BY <1>1, <1>4, <1>6, <1>8
  <2> QED BY <1>4, <1>8, <2>1
<1>11. \A i \in R : i \in Nat /\ (i <= p <=> (i <= n \/ i = p)) /\ i >= 1
  BY <1>1, <1>6, <1>7
<1>12. ASSUME p \in R
       PROVE  Pick(s, { i \in R : i <= p }) = Append(anns, s[p])
  <2>1. { i \in R : i <= p } = { i \in R : i <= n } \cup {p}
    BY <1>7, <1>11, <1>12
  <2>2. { i \in R : i <= n } \in SUBSET (1..(p - 1))
    BY <1>7, <1>11
  <2> QED BY <1>1, <1>4, <2>1, <2>2, PickMore
<1>13. ASSUME p \notin R
       PROVE  Pick(s, { i \in R : i <= p }) = anns
  <2>1. { i \in R : i <= p } = { i \in R : i <= n }
    BY <1>11, <1>13
  <2> QED BY <1>4, <2>1
<1>14. \A i : i \in 1..p <=> (i \in 1..n \/ i = p)
  BY <1>6, <1>7
<1>15. p \in R => ToSet(dropped) = { s[i] : i \in (1..p) \ R }
  BY <1>4, <1>14
<1>16. ASSUME p \notin R
       PROVE  /\ Append(dropped, s[p]) \in Seq(Ann)
              /\ ToSet(Append(dropped, s[p])) = { s[i] : i \in (1..p) \ R }
  <2>1. s[p] \in Ann
    BY <1>1
  <2>2. Append(dropped, s[p]) \in Seq(Ann) /\ ToSet(Append(dropped, s[p])) = ToSet(dropped) \cup {s[p]}
    BY <1>4, <2>1, ToSetAppend
  <2>3. { s[i] : i \in (1..p) \ R } = { s[i] : i \in (1..n) \ R } \cup {s[p]}
    BY <1>14, <1>16
  <2> QED BY <1>4, <2>2, <2>3
<1>17. Over(p - 1) /\ p - 1 \in Nat
  BY <1>3, <1>7
<1> QED BY <1>2, <1>8, <1>9, <1>10, <1>12, <1>13, <1>15, <1>16, <1>17 DEF s, R

\* The loop starts over with an announcement that is inserted.
LEMMA InsertKeeps ==
  ASSUME RetainInv, NEW a \in Ann, Insert(a)
  PROVE  RetainInv'
<1> DEFINE s == <<a>> \o anns
<1>1. /\ adds' = adds + 1 /\ ann' = a /\ before' = anns /\ visits' = s
      /\ anns' = <<>> /\ announced' = <<>> /\ dropped' = <<>>
  BY DEF Insert
<1>2. adds \in Nat /\ anns \in Seq(Ann)
  BY DEF RetainInv
<1>3. /\ s \in Seq(Ann) /\ s \in Seq(Announcement) /\ Len(s) \in Nat
      /\ Retained(s, a) \subseteq DOMAIN s /\ DOMAIN s = 1..Len(s) /\ \A i \in DOMAIN s : s[i] \in Announcement
  BY <1>2, MetTyped
<1>4. Met' = s
  BY <1>1 DEF Met
<1> HIDE DEF s
<1>5. Pick(s, { i \in Retained(s, a) : i <= 0 }) = <<>>
  <2>1. { i \in Retained(s, a) : i <= 0 } = {}
    BY <1>3
  <2>2. Cardinality({}) = 0
    BY FS_EmptySet
  <2>3. Pick(s, {}) = [n \in 1..0 |-> s[CHOOSE i \in {} : Rank({}, i) = n]]
    BY <2>2 DEF Pick
  <2>4. 1..0 = {}
    OBVIOUS
  <2>5. Pick(s, {}) = <<>>
    BY <2>3, <2>4
  <2> QED BY <2>1, <2>5
<1>6. ToSet(<<>>) = {} /\ 1..0 = {}
  BY DEF ToSet
<1>7. Known(s, a, 1, 0, <<>>)
  <2>1. \A j \in DOMAIN s : \A m \in DOMAIN s[j].entities : j \in Nat /\ j >= 1 /\ m \in Nat /\ m >= 1
    BY <1>3, EntitiesTyped
  <2>2. \A j \in DOMAIN s : \A m \in DOMAIN s[j].entities : ~Passed(1, 0, j, m)
    BY <2>1 DEF Passed
  <2>3. <<>> \in Seq(Entity)
    OBVIOUS
  <2> QED BY <1>6, <2>2, <2>3 DEF Known
<1>8. Over(0)'
  <2>1. 0 \in 0..Len(s) /\ Len(s) = Len(s) - 0 /\ 0 + 1 = 1 /\ \A i \in 1..Len(s) : 0 + i = i
    BY <1>3
  <2>2. <<>> \in Seq(Ann)
    OBVIOUS
  <2>3. \A i \in 1..Len(s) : s[i] = s[0 + i]
    BY <2>1
  <2>4. { s[i] : i \in (1..0) \ Retained(s, a) } = {}
    BY <1>6
  <2>5. Known(s, a, 0 + 1, 0, <<>>)
    BY <1>7
  <2> QED BY <1>1, <1>3, <1>4, <1>5, <1>6, <2>1, <2>2, <2>3, <2>4, <2>5 DEF Over
<1>9. adds' \in Nat /\ adds' # 0 /\ <<>> \in Seq(Ann)
  BY <1>1, <1>2
<1> QED BY <1>1, <1>2, <1>8, <1>9 DEF RetainInv

\* The step that is over with the p-th announcement.
LEMMA Goes ==
  ASSUME RetainInv, NEW p \in DOMAIN Met, adds # 0, p - 1 \in Nat,
         UNCHANGED <<adds, ann, before>>, anns' \in Seq(Ann),
         visits' \in Seq(Ann), Len(visits') = Len(Met) - p,
         \A i \in 1..Len(visits') : visits'[i] = Met[p + i],
         anns' = Pick(Met, { i \in Retained(Met, ann) : i <= p }),
         dropped' \in Seq(Ann), ToSet(dropped') = { Met[i] : i \in (1..p) \ Retained(Met, ann) },
         Known(Met, ann, p + 1, 0, announced')
  PROVE  RetainInv'
<1>1. Met' = Met
  BY DEF Met
<1>2. p \in 0..Len(Met)
  <2>1. Met \in Seq(Ann)
    BY MetTyped DEF RetainInv, Met
  <2>2. DOMAIN Met = 1..Len(Met)
    BY <2>1, LenProperties
  <2> QED BY <2>2
<1>3. Over(p)'
  BY <1>1, <1>2 DEF Over
<1> QED BY <1>3 DEF RetainInv

\* An announcement that has expired is dropped and says nothing.
LEMMA ExpireKeeps ==
  ASSUME RetainInv, Expire
  PROVE  RetainInv'
<1>1. /\ visits # <<>> /\ Expired(Head(visits), ann) /\ dropped' = Append(dropped, Head(visits))
      /\ visits' = Tail(visits) /\ UNCHANGED <<anns, adds, ann, before, announced>>
  BY DEF Expire
<1>2. PICK p \in DOMAIN Met :
           /\ adds # 0 /\ Over(p - 1) /\ p - 1 \in Nat
           /\ Head(visits) = Met[p] /\ Tail(visits) \in Seq(Ann) /\ Len(Tail(visits)) = Len(Met) - p
           /\ \A i \in 1..Len(Tail(visits)) : Tail(visits)[i] = Met[p + i]
           /\ p \notin Retained(Met, ann) =>
                /\ Pick(Met, { i \in Retained(Met, ann) : i <= p }) = anns
                /\ Append(dropped, Met[p]) \in Seq(Ann)
                /\ ToSet(Append(dropped, Met[p])) = { Met[i] : i \in (1..p) \ Retained(Met, ann) }
  BY <1>1, NextVisit
<1>3. p \notin Retained(Met, ann)
  BY <1>1, <1>2 DEF Retained
<1>4. Met \in Seq(Announcement) /\ anns \in Seq(Ann)
  BY MetTyped DEF RetainInv, Met
<1>5. Known(Met, ann, p, 0, announced)
  <2>1. (p - 1) + 1 = p
    BY <1>2
  <2> QED BY <1>2, <2>1 DEF Over
<1>6. Known(Met, ann, p + 1, 0, announced)
  BY <1>1, <1>2, <1>4, <1>5, KnownNext
<1> QED BY <1>1, <1>2, <1>3, <1>4, <1>6, Goes

\* Any other is kept if it was first to say something, or is the one that was added.
LEMMA VisitKeeps ==
  ASSUME RetainInv, Visit
  PROVE  RetainInv'
<1> DEFINE a == Head(visits)
           seen == AnnounceAll(announced, a)
           keep == seen # announced \/ a = ann
<1>1. /\ visits # <<>> /\ ~Expired(a, ann) /\ announced' = seen
      /\ anns' = IF keep THEN Append(anns, a) ELSE anns
      /\ dropped' = IF keep THEN dropped ELSE Append(dropped, a)
      /\ visits' = Tail(visits) /\ UNCHANGED <<adds, ann, before>>
  BY DEF Visit
<1> HIDE DEF a, seen
<1>2. PICK p \in DOMAIN Met :
           /\ adds # 0 /\ Over(p - 1) /\ p - 1 \in Nat
           /\ Head(visits) = Met[p] /\ Tail(visits) \in Seq(Ann) /\ Len(Tail(visits)) = Len(Met) - p
           /\ \A i \in 1..Len(Tail(visits)) : Tail(visits)[i] = Met[p + i]
           /\ p \in Retained(Met, ann) =>
                Pick(Met, { i \in Retained(Met, ann) : i <= p }) = Append(anns, Met[p])
           /\ p \notin Retained(Met, ann) =>
                /\ Pick(Met, { i \in Retained(Met, ann) : i <= p }) = anns
                /\ Append(dropped, Met[p]) \in Seq(Ann)
                /\ ToSet(Append(dropped, Met[p])) = { Met[i] : i \in (1..p) \ Retained(Met, ann) }
           /\ p \in Retained(Met, ann) =>
                ToSet(dropped) = { Met[i] : i \in (1..p) \ Retained(Met, ann) }
  BY <1>1, NextVisit
<1>3. /\ Met \in Seq(Announcement) /\ anns \in Seq(Ann) /\ Met[p] \in Ann /\ Met[p] \in Announcement
      /\ a = Met[p] /\ seen = AnnounceAll(announced, Met[p])
  BY <1>2, MetTyped DEF RetainInv, Met, a, seen
<1>4. Known(Met, ann, p, 0, announced)
  <2>1. (p - 1) + 1 = p
    BY <1>2
  <2> QED BY <1>2, <2>1 DEF Over
<1>5. /\ Known(Met, ann, p, Len(Met[p].entities), seen)
      /\ seen # announced <=> \E k \in DOMAIN Met[p].entities : Fresh(Met, ann, p, k)
  BY <1>1, <1>2, <1>3, <1>4, AnnouncementVisited
<1>6. keep <=> p \in Retained(Met, ann)
  BY <1>1, <1>2, <1>3, <1>5 DEF Retained
<1>7. Len(Met[p].entities) \in Nat
  BY <1>3, EntitiesTyped
<1>8. Known(Met, ann, p + 1, 0, seen)
  BY <1>2, <1>3, <1>5, <1>7, KnownNext
<1>9. Append(anns, Met[p]) \in Seq(Ann)
  BY <1>3, AppendProperties
<1>10. dropped \in Seq(Ann)
  BY <1>2 DEF Over
<1> HIDE DEF keep
<1>11. CASE p \in Retained(Met, ann)
  <2>1. anns' = Append(anns, Met[p]) /\ dropped' = dropped
    BY <1>1, <1>3, <1>6, <1>11
  <2> QED BY <1>1, <1>2, <1>8, <1>9, <1>10, <1>11, <2>1, Goes
<1>12. CASE p \notin Retained(Met, ann)
  <2>1. anns' = anns /\ dropped' = Append(dropped, Met[p])
    BY <1>1, <1>3, <1>6, <1>12
  <2> QED BY <1>1, <1>2, <1>3, <1>8, <1>12, <2>1, Goes
<1> QED BY <1>11, <1>12

\* What is announced when the loop has ended is what is first in the list, and what is first in the
\* list is what is in force in what the loop keeps.
LEMMA KeptInForce ==
  ASSUME NEW l \in Seq(Ann), NEW a \in Ann, NEW seen,
         Known(<<a>> \o l, a, Len(<<a>> \o l) + 1, 0, seen)
  PROVE  LET s == <<a>> \o l
             First(e) == \E i \in DOMAIN s : \E k \in DOMAIN s[i].entities :
                           ~Expired(s[i], a) /\ Fresh(s, a, i, k) /\ e = s[i].entities[k] IN
         /\ \A e : e \in ToSet(seen) <=> First(e)
         /\ \A e : e \in InForce(Pick(s, Retained(s, a))) <=> First(e)
<1> DEFINE s == <<a>> \o l
           R == Retained(s, a)
           r == Pick(s, R)
           First(e) == \E i \in DOMAIN s : \E k \in DOMAIN s[i].entities :
                           ~Expired(s[i], a) /\ Fresh(s, a, i, k) /\ e = s[i].entities[k]
<1>1. /\ s \in Seq(Ann) /\ Len(s) \in Nat /\ DOMAIN s = 1..Len(s) /\ s[1] = a /\ 1 \in R /\ R \subseteq DOMAIN s
      /\ \A i \in DOMAIN s : s[i] \in Ann /\ s[i] \in Announcement
  BY MetTyped
<1>2. Known(s, a, Len(s) + 1, 0, seen)
  OBVIOUS
<1> HIDE DEF s
<1>3. \A j \in DOMAIN s : \A m \in DOMAIN s[j].entities :
        Passed(Len(s) + 1, 0, j, m) /\ s[j].entities[m] \in Entity /\ m \in Nat /\ j \in Nat
  BY <1>1, EntitiesTyped DEF Passed
<1>4. \A e : e \in ToSet(seen) <=> First(e)
  <2>1. \A e : e \in ToSet(seen) => First(e)
    BY <1>2 DEF Known
  <2>2. ASSUME NEW e, First(e) PROVE e \in ToSet(seen)
    <3>1. PICK i \in DOMAIN s : \E k \in DOMAIN s[i].entities :
                           ~Expired(s[i], a) /\ Fresh(s, a, i, k) /\ e = s[i].entities[k]
      BY <2>2
    <3>2. PICK k \in DOMAIN s[i].entities : ~Expired(s[i], a) /\ Fresh(s, a, i, k) /\ e = s[i].entities[k]
      BY <3>1
    <3>3. ~IsEphemeral(s[i].entities[k])
      BY <3>2 DEF Fresh
    <3> QED BY <1>2, <1>3, <3>2, <3>3 DEF Known
  <2> QED BY <2>1, <2>2
<1>5. PICK at \in [DOMAIN r -> R] :
        /\ \A n \in DOMAIN r : r[n] = s[at[n]]
        /\ \A n, m \in DOMAIN r : n < m => at[n] < at[m]
        /\ \A i \in R : \E n \in DOMAIN r : at[n] = i
  BY <1>1, PickOrder
<1>6. r \in Seq(Ann) /\ DOMAIN r = 1..Len(r) /\ Len(r) \in Nat
  BY <1>1, PickElements, LenProperties
<1>7. \A i \in R : ~Expired(s[i], a)
  BY DEF Retained
<1>8. \A i \in DOMAIN s : \A k \in DOMAIN s[i].entities :
        (~Expired(s[i], a) /\ Fresh(s, a, i, k)) => i \in R
  BY DEF Retained
<1> HIDE DEF R, r
<1>9. \A n \in DOMAIN r : at[n] \in R /\ at[n] \in DOMAIN s /\ at[n] \in Nat /\ n \in Nat /\ n >= 1
  BY <1>1, <1>5, <1>6
<1>10. \A n, m \in DOMAIN r : at[n] <= at[m] => n <= m
  <2> SUFFICES ASSUME NEW n \in DOMAIN r, NEW m \in DOMAIN r, at[n] <= at[m] PROVE n <= m
    OBVIOUS
  <2>1. m < n => at[m] < at[n]
    BY <1>5
  <2> QED BY <1>9, <2>1
<1>11. r[1] = a
  <2>1. PICK n \in DOMAIN r : at[n] = 1
    BY <1>1, <1>5
  <2>2. 1 \in DOMAIN r
    BY <1>6, <1>9, <2>1
  <2>3. at[1] >= 1
    BY <1>1, <1>9, <2>2
  <2>4. n <= 1
    BY <1>10, <2>1, <2>2, <2>3
  <2>5. n = 1
    BY <1>9, <2>4
  <2> QED BY <1>1, <1>5, <2>1, <2>5
<1>12. ASSUME NEW n \in DOMAIN r, NEW k \in DOMAIN r[n].entities, Fresh(s, a, at[n], k)
       PROVE  Fresh(r, a, n, k)
  <2>1. r[n] = s[at[n]]
    BY <1>5
  <2>2. ASSUME NEW j \in 1..n, ~Expired(r[j], a), NEW m \in DOMAIN r[j].entities, j = n => m < k
        PROVE  IsEphemeral(r[j].entities[m]) \/ ~IsReplacement(r[n].entities[k], r[j].entities[m])
    <3>1. j \in DOMAIN r /\ j \in Nat
      BY <1>6, <1>9
    <3>2. r[j] = s[at[j]] /\ at[j] \in Nat /\ at[j] >= 1
      BY <1>1, <1>5, <1>9, <3>1
    <3>3. at[j] \in 1..at[n] /\ (at[j] = at[n] => j = n)
      <4>1. CASE j = n
        BY <1>9, <3>2, <4>1
      <4>2. CASE j # n
        <5>1. j < n
          BY <1>9, <3>1, <4>2
        <5>2. at[j] < at[n]
          BY <1>5, <3>1, <5>1
        <5> QED BY <1>9, <3>2, <5>2
      <4> QED BY <4>1, <4>2
    <3> QED BY <1>12, <2>1, <2>2, <3>2, <3>3 DEF Fresh
  <2>3. ~IsEphemeral(r[n].entities[k])
    BY <1>12, <2>1 DEF Fresh
  <2> QED BY <2>2, <2>3 DEF Fresh
<1>13. ASSUME NEW n \in DOMAIN r, NEW k \in DOMAIN r[n].entities, Fresh(r, a, n, k)
       PROVE  Fresh(s, a, at[n], k)
  <2> DEFINE i == at[n]
             e == s[i].entities[k]
  <2>1. r[n] = s[i] /\ i \in DOMAIN s /\ i \in R /\ i \in Nat /\ k \in DOMAIN s[i].entities
    BY <1>5, <1>9
  <2> HIDE DEF i
  <2>2. e \in Entity /\ ~IsEphemeral(e) /\ k \in Nat
    BY <1>3, <1>13, <2>1 DEF Fresh
  <2>3. ASSUME NEW j \in 1..i, ~Expired(s[j], a), NEW m \in DOMAIN s[j].entities, j = i => m < k,
               ~IsEphemeral(s[j].entities[m]), IsReplacement(e, s[j].entities[m])
        PROVE  FALSE
    <3> DEFINE f == s[j].entities[m]
    <3>1. j \in DOMAIN s /\ j \in Nat /\ j <= i
      BY <1>1, <2>1
    <3>2. f \in Entity /\ Passed(Len(s) + 1, 0, j, m) /\ m \in Nat
      BY <1>3, <3>1
    <3>3. PICK x \in ToSet(seen) : IsReplacement(f, x)
      BY <1>2, <2>3, <3>1, <3>2 DEF Known
    <3>4. First(x)
      BY <1>4
    <3>5. PICK p \in DOMAIN s : \E q \in DOMAIN s[p].entities :
             ~Expired(s[p], a) /\ Fresh(s, a, p, q) /\ x = s[p].entities[q]
      BY <3>4
    <3>6. PICK q \in DOMAIN s[p].entities : ~Expired(s[p], a) /\ Fresh(s, a, p, q) /\ x = s[p].entities[q]
      BY <3>5
    <3>7. x \in Entity /\ p \in Nat /\ q \in Nat /\ ~IsEphemeral(x)
      BY <1>3, <3>6 DEF Fresh
    <3>8. IsReplacement(x, f) /\ IsReplacement(e, x)
      BY <2>2, <2>3, <3>2, <3>3, <3>7, Replaces
    <3>9. ~(j \in 1..p /\ (j = p => m < q))
      <4> SUFFICES ASSUME j \in 1..p, j = p => m < q PROVE FALSE
        OBVIOUS
      <4> QED BY <2>3, <3>6, <3>8 DEF Fresh
    <3>10. p <= j /\ (p = j => q <= m)
      BY <1>1, <3>1, <3>2, <3>7, <3>9
    <3>11. p <= i /\ (p = i => q < k)
      BY <2>1, <2>2, <2>3, <3>1, <3>2, <3>7, <3>10
    <3>12. p \in R
      BY <1>8, <3>6
    <3>13. PICK w \in DOMAIN r : at[w] = p
      BY <1>5, <3>12
    <3>14. w <= n
      BY <1>10, <3>11, <3>13 DEF i
    <3>15. w \in 1..n /\ (w = n => q < k) /\ r[w] = s[p]
      BY <1>5, <1>9, <3>11, <3>13, <3>14 DEF i
    <3> QED BY <1>13, <2>1, <3>6, <3>7, <3>8, <3>15 DEF Fresh
  <2> QED BY <2>2, <2>3 DEF Fresh, i
<1>14. ASSUME NEW e PROVE e \in InForce(r) <=> First(e)
  <2>1. e \in InForce(r) <=> \E n \in DOMAIN r : \E k \in DOMAIN r[n].entities : Fresh(r, a, n, k) /\ e = r[n].entities[k]
    BY <1>11 DEF InForce
  <2>2. ASSUME NEW n \in DOMAIN r, NEW k \in DOMAIN r[n].entities, Fresh(r, a, n, k), e = r[n].entities[k]
        PROVE  First(e)
    BY <1>5, <1>7, <1>9, <1>13, <2>2
  <2>3. ASSUME NEW i \in DOMAIN s, NEW k \in DOMAIN s[i].entities,
               ~Expired(s[i], a), Fresh(s, a, i, k), e = s[i].entities[k]
        PROVE  \E n \in DOMAIN r : \E m \in DOMAIN r[n].entities : Fresh(r, a, n, m) /\ e = r[n].entities[m]
    <3>1. PICK n \in DOMAIN r : at[n] = i
      BY <1>5, <1>8, <2>3
    <3>2. r[n] = s[i]
      BY <1>5, <3>1
    <3> QED BY <1>12, <2>3, <3>1, <3>2
  <2> QED BY <2>1, <2>2, <2>3
<1> QED BY <1>4, <1>14 DEF s, R, r

\* The newest to fill their slots are what is first in the list.
LEMMA NewestIsFirst ==
  ASSUME RetainInv
  PROVE  \A e : e \in NewestValues <=>
           \E i \in DOMAIN Met : \E k \in DOMAIN Met[i].entities :
             ~Expired(Met[i], ann) /\ Fresh(Met, ann, i, k) /\ e = Met[i].entities[k]
<1>1. DOMAIN Met = 1..Len(Met) /\ Len(Met) \in Nat /\ \A i \in DOMAIN Met : Met[i] \in Announcement
  BY MetTyped DEF RetainInv, Met
<1>2. \A i \in DOMAIN Met : \A k \in DOMAIN Met[i].entities : Met[i].entities[k] \in Entity
  BY <1>1, EntitiesTyped
<1>3. \A i \in DOMAIN Met : \A j \in 1..i : j \in DOMAIN Met
  BY <1>1
<1>4. ASSUME NEW i \in DOMAIN Met, NEW k \in DOMAIN Met[i].entities
      PROVE  Newest(i, k) <=> ~Expired(Met[i], ann) /\ Fresh(Met, ann, i, k)
  <2> DEFINE e == Met[i].entities[k]
  <2>1. e \in Entity
    BY <1>2
  <2>2. ASSUME ~IsEphemeral(e), NEW j \in 1..i, NEW m \in DOMAIN Met[j].entities
        PROVE  Slot(Met[j].entities[m]) # Slot(e) <=>
                 (IsEphemeral(Met[j].entities[m]) \/ ~IsReplacement(e, Met[j].entities[m]))
    <3>1. Met[j].entities[m] \in Entity
      BY <1>2, <1>3
    <3> QED BY <2>1, <2>2, <3>1, Replaces
  <2> QED BY <2>2 DEF Newest, Fresh
<1> QED BY <1>4 DEF NewestValues

\* The invariant implies what the runs check.
LEMMA RetainMeans ==
  ASSUME RetainInv
  PROVE  LoopKeepsLast
<1> SUFFICES ASSUME visits = <<>>, adds > 0
             PROVE  /\ anns = AfterAdd(before, ann) /\ ToSet(dropped) = DroppedByAdd(before, ann)
                    /\ InForce(anns) = NewestValues /\ ToSet(announced) = NewestValues
  BY DEF LoopKeepsLast, LoopIsAfterAdd, LastValueWins
<1>1. adds \in Nat /\ adds # 0 /\ ann \in Ann /\ before \in Seq(Ann)
  BY DEF RetainInv
<1>2. PICK n : Over(n)
  BY <1>1 DEF RetainInv
<1>3. /\ Len(Met) \in Nat /\ DOMAIN Met = 1..Len(Met) /\ Retained(Met, ann) \subseteq DOMAIN Met
  BY <1>1, MetTyped DEF Met
<1>4. n = Len(Met)
  <2>1. Len(visits) = 0 /\ Len(visits) = Len(Met) - n /\ n \in 0..Len(Met)
    BY <1>2, EmptySeq DEF Over
  <2>2. PICK l \in Nat : l = Len(Met)
    BY <1>3
  <2>3. n \in 0..l /\ 0 = l - n
    BY <2>1, <2>2
  <2> QED BY <2>2, <2>3
<1>5. /\ anns = Pick(Met, { i \in Retained(Met, ann) : i <= n })
      /\ ToSet(dropped) = { Met[i] : i \in (1..n) \ Retained(Met, ann) }
      /\ Known(Met, ann, n + 1, 0, announced)
  BY <1>2 DEF Over
<1>6. { i \in Retained(Met, ann) : i <= n } = Retained(Met, ann)
  BY <1>3, <1>4
<1>7. anns = Pick(Met, Retained(Met, ann))
  BY <1>5, <1>6
<1>8. anns = AfterAdd(before, ann) /\ ToSet(dropped) = DroppedByAdd(before, ann)
  BY <1>3, <1>4, <1>5, <1>7 DEF AfterAdd, DroppedByAdd, Met
<1> DEFINE First(e) == \E i \in DOMAIN Met : \E k \in DOMAIN Met[i].entities :
                         ~Expired(Met[i], ann) /\ Fresh(Met, ann, i, k) /\ e = Met[i].entities[k]
<1>9. /\ \A e : e \in ToSet(announced) <=> First(e)
      /\ \A e : e \in InForce(anns) <=> First(e)
  <2> DEFINE s == <<ann>> \o before
  <2>1. Known(s, ann, Len(s) + 1, 0, announced) /\ Met = s
    BY <1>4, <1>5 DEF Met
  <2>2. /\ \A e : e \in ToSet(announced) <=>
               \E i \in DOMAIN s : \E k \in DOMAIN s[i].entities :
                 ~Expired(s[i], ann) /\ Fresh(s, ann, i, k) /\ e = s[i].entities[k]
        /\ \A e : e \in InForce(Pick(s, Retained(s, ann))) <=>
               \E i \in DOMAIN s : \E k \in DOMAIN s[i].entities :
                 ~Expired(s[i], ann) /\ Fresh(s, ann, i, k) /\ e = s[i].entities[k]
    BY <1>1, <2>1, KeptInForce
  <2> HIDE DEF s
  <2> QED BY <1>7, <2>1, <2>2
<1>10. \A e : e \in NewestValues <=> First(e)
  BY NewestIsFirst
<1> HIDE DEF First
<1>11. InForce(anns) = NewestValues /\ ToSet(announced) = NewestValues
  BY <1>9, <1>10
<1> QED BY <1>8, <1>11

\* Whatever arrives of a node, in any order and however often, the retain loop leaves the list that
\* the one step of the handler's model leaves and drops what that drops; and in what it keeps, every
\* slot of the node's state has the value that was added last and has not expired.  (add_announcement)
THEOREM RetainKeepsLast == RetainSpec => []LoopKeepsLast
<1>1. RetainInit => RetainInv
  <2> SUFFICES ASSUME RetainInit PROVE RetainInv
    OBVIOUS
  <2>1. <<>> \in Seq(Ann) /\ 0 \in Nat
    OBVIOUS
  <2> QED BY <2>1 DEF RetainInit, RetainInv
<1>2. RetainInv /\ [RetainNext]_retainVars => RetainInv'
  <2> SUFFICES ASSUME RetainInv, [RetainNext]_retainVars PROVE RetainInv'
    OBVIOUS
  <2>1. CASE \E a \in Ann : Insert(a)
    BY <2>1, InsertKeeps
  <2>2. CASE Expire
    BY <2>2, ExpireKeeps
  <2>3. CASE Visit
    BY <2>3, VisitKeeps
  <2>4. CASE UNCHANGED retainVars
    <3>1. Met' = Met /\ \A n : Over(n)' <=> Over(n)
      BY <2>4 DEF retainVars, Met, Over
    <3> QED BY <2>4, <3>1 DEF retainVars, RetainInv
  <2> QED BY <2>1, <2>2, <2>3, <2>4 DEF RetainNext
<1>3. RetainInv => LoopKeepsLast
  BY RetainMeans
<1> QED BY <1>1, <1>2, <1>3, PTL DEF RetainSpec

-----------------------------------------------------------------------------
(* The frontier: a list in order and an index of it.                        *)

\* Insertion puts an element at its place and moves those from there on up.
LEMMA Inserted ==
  ASSUME NEW S, NEW s \in Seq(S), NEW e \in S, NEW pos \in 1..(Len(s) + 1)
  PROVE  LET r == InsertAt(s, pos, e) IN
         /\ r \in Seq(S) /\ Len(r) = Len(s) + 1
         /\ \A i \in 1..(pos - 1) : r[i] = s[i]
         /\ r[pos] = e
         /\ \A i \in pos..Len(s) : r[i + 1] = s[i]
<1>1. Len(s) \in Nat /\ pos \in Nat /\ 1 <= pos /\ pos <= Len(s) + 1 /\ \A i \in 1..Len(s) : s[i] \in S
  BY EmptySeq, ElementOfSeq
<1> DEFINE a == SubSeq(s, 1, pos - 1)
           m == <<e>>
           b == SubSeq(s, pos, Len(s))
<1>2. a \in Seq(S) /\ Len(a) = pos - 1 /\ \A i \in 1..(pos - 1) : a[i] = s[i]
  <2>1. \A i \in 1..(pos - 1) : s[i] \in S
    BY <1>1
  <2>2. 1 \in Int /\ pos - 1 \in Int
    BY <1>1
  <2> DEFINE n == pos - 1
  <2>3. a \in Seq(S) /\ Len(a) = (IF 1 <= n THEN (n - 1) + 1 ELSE 0) /\ \A i \in 1..((n - 1) + 1) : a[i] = s[(1 + i) - 1]
    BY <2>1, <2>2, SubSeqProperties
  <2>4. n \in Nat /\ (IF 1 <= n THEN (n - 1) + 1 ELSE 0) = n /\ (n - 1) + 1 = n /\ \A i \in 1..n : (1 + i) - 1 = i
    BY <1>1
  <2> HIDE DEF n, a
  <2>5. Len(a) = n /\ \A i \in 1..n : a[i] = s[i]
    BY <2>3, <2>4
  <2> QED BY <2>3, <2>5 DEF n
<1>3. b \in Seq(S) /\ Len(b) = (Len(s) - pos) + 1 /\ \A i \in 1..((Len(s) - pos) + 1) : b[i] = s[(pos + i) - 1]
  <2>1. \A i \in pos..Len(s) : s[i] \in S
    BY <1>1
  <2>2. pos \in Int /\ Len(s) \in Int
    BY <1>1
  <2> DEFINE n == Len(s)
  <2>3. b \in Seq(S) /\ Len(b) = (IF pos <= n THEN (n - pos) + 1 ELSE 0) /\ \A i \in 1..((n - pos) + 1) : b[i] = s[(pos + i) - 1]
    BY <2>1, <2>2, SubSeqProperties
  <2>4. (IF pos <= n THEN (n - pos) + 1 ELSE 0) = (n - pos) + 1
    BY <1>1
  <2> QED BY <2>3, <2>4
<1> HIDE DEF a, b
<1>4. m \in Seq(S) /\ Len(m) = 1 /\ m[1] = e
  OBVIOUS
<1> HIDE DEF m
<1> DEFINE c == a \o m
           r == c \o b
<1>5. /\ c \in Seq(S) /\ Len(c) = Len(a) + Len(m)
      /\ \A i \in 1..(Len(a) + Len(m)) : c[i] = IF i <= Len(a) THEN a[i] ELSE m[i - Len(a)]
  BY <1>2, <1>4, ConcatProperties
<1> HIDE DEF c
<1>6. /\ r \in Seq(S) /\ Len(r) = Len(c) + Len(b)
      /\ \A i \in 1..(Len(c) + Len(b)) : r[i] = IF i <= Len(c) THEN c[i] ELSE b[i - Len(c)]
  <2>1. b \in Seq(S) /\ c \in Seq(S)
    BY <1>3, <1>5
  <2> QED BY <2>1, ConcatProperties
<1> HIDE DEF r
<1>7. Len(c) = pos /\ Len(r) = Len(s) + 1
  BY <1>1, <1>2, <1>3, <1>4, <1>5, <1>6
<1>8. ASSUME NEW i \in 1..(pos - 1)  PROVE r[i] = s[i]
  <2>1. i \in 1..(Len(c) + Len(b)) /\ i <= Len(c) /\ i \in 1..(Len(a) + Len(m)) /\ i <= Len(a)
    BY <1>1, <1>2, <1>3, <1>4, <1>7
  <2> QED BY <1>2, <1>5, <1>6, <2>1
<1>9. r[pos] = e
  <2>1. pos \in 1..(Len(c) + Len(b)) /\ pos <= Len(c) /\ pos \in 1..(Len(a) + Len(m)) /\ ~(pos <= Len(a)) /\ pos - Len(a) = 1
    BY <1>1, <1>2, <1>3, <1>4, <1>7
  <2> QED BY <1>4, <1>5, <1>6, <2>1
<1>10. ASSUME NEW i \in pos..Len(s)  PROVE r[i + 1] = s[i]
  <2>1. /\ i + 1 \in 1..(Len(c) + Len(b)) /\ ~(i + 1 <= Len(c)) /\ (i + 1) - Len(c) \in 1..((Len(s) - pos) + 1)
        /\ (pos + ((i + 1) - Len(c))) - 1 = i
    BY <1>1, <1>3, <1>7
  <2> QED BY <1>3, <1>6, <2>1
<1>11. r = InsertAt(s, pos, e)
  BY DEF InsertAt, r, c, a, m, b
<1> QED BY <1>6, <1>7, <1>8, <1>9, <1>10, <1>11

\* Removal moves those behind the place down.
LEMMA Removed ==
  ASSUME NEW S, NEW s \in Seq(S), NEW pos \in 1..Len(s)
  PROVE  LET r == RemoveAt(s, pos) IN
         /\ r \in Seq(S) /\ Len(r) = Len(s) - 1
         /\ \A i \in 1..(pos - 1) : r[i] = s[i]
         /\ \A i \in pos..(Len(s) - 1) : r[i] = s[i + 1]
<1>1. Len(s) \in Nat /\ pos \in Nat /\ 1 <= pos /\ pos <= Len(s) /\ \A i \in 1..Len(s) : s[i] \in S
  BY EmptySeq, ElementOfSeq
<1> DEFINE a == SubSeq(s, 1, pos - 1)
           b == SubSeq(s, pos + 1, Len(s))
<1>2. a \in Seq(S) /\ Len(a) = pos - 1 /\ \A i \in 1..(pos - 1) : a[i] = s[i]
  <2>1. \A i \in 1..(pos - 1) : s[i] \in S
    BY <1>1
  <2>2. 1 \in Int /\ pos - 1 \in Int
    BY <1>1
  <2> DEFINE n == pos - 1
  <2>3. a \in Seq(S) /\ Len(a) = (IF 1 <= n THEN (n - 1) + 1 ELSE 0) /\ \A i \in 1..((n - 1) + 1) : a[i] = s[(1 + i) - 1]
    BY <2>1, <2>2, SubSeqProperties
  <2>4. n \in Nat /\ (IF 1 <= n THEN (n - 1) + 1 ELSE 0) = n /\ (n - 1) + 1 = n /\ \A i \in 1..n : (1 + i) - 1 = i
    BY <1>1
  <2> HIDE DEF n, a
  <2>5. Len(a) = n /\ \A i \in 1..n : a[i] = s[i]
    BY <2>3, <2>4
  <2> QED BY <2>3, <2>5 DEF n
<1>3. b \in Seq(S) /\ Len(b) = Len(s) - pos /\ \A i \in 1..(Len(s) - pos) : b[i] = s[pos + i]
  <2> DEFINE n == Len(s)
             k == pos + 1
  <2>1. \A i \in k..n : s[i] \in S
    BY <1>1
  <2>2. k \in Int /\ n \in Int
    BY <1>1
  <2>3. (IF k <= n THEN (n - k) + 1 ELSE 0) = n - pos /\ (n - k) + 1 = n - pos /\ \A i \in 1..(n - pos) : (k + i) - 1 = pos + i
    BY <1>1
  <2> HIDE DEF k
  <2>4. /\ SubSeq(s, k, n) \in Seq(S) /\ Len(SubSeq(s, k, n)) = (IF k <= n THEN (n - k) + 1 ELSE 0)
        /\ \A i \in 1..((n - k) + 1) : SubSeq(s, k, n)[i] = s[(k + i) - 1]
    BY <2>1, <2>2, SubSeqProperties
  <2> DEFINE v == SubSeq(s, k, n)
  <2> HIDE DEF v
  <2>5. v \in Seq(S) /\ Len(v) = n - pos /\ \A i \in 1..(n - pos) : v[i] = s[pos + i]
    BY <2>3, <2>4 DEF v
  <2> QED BY <2>5 DEF v, k
<1> HIDE DEF a, b
<1> DEFINE r == a \o b
<1>4. /\ r \in Seq(S) /\ Len(r) = Len(a) + Len(b)
      /\ \A i \in 1..(Len(a) + Len(b)) : r[i] = IF i <= Len(a) THEN a[i] ELSE b[i - Len(a)]
  BY <1>2, <1>3, ConcatProperties
<1> HIDE DEF r
<1>5. Len(r) = Len(s) - 1
  BY <1>1, <1>2, <1>3, <1>4
<1>6. ASSUME NEW i \in 1..(pos - 1)  PROVE r[i] = s[i]
  <2>1. i \in 1..(Len(a) + Len(b)) /\ i <= Len(a)
    BY <1>1, <1>2, <1>3
  <2> QED BY <1>2, <1>4, <2>1
<1>7. ASSUME NEW i \in pos..(Len(s) - 1)  PROVE r[i] = s[i + 1]
  <2>1. /\ i \in 1..(Len(a) + Len(b)) /\ ~(i <= Len(a)) /\ i - Len(a) \in 1..(Len(s) - pos)
        /\ pos + (i - Len(a)) = i + 1
    BY <1>1, <1>2, <1>3
  <2> QED BY <1>3, <1>4, <2>1
<1>8. r = RemoveAt(s, pos)
  BY DEF RemoveAt, r, a, b
<1> QED BY <1>4, <1>5, <1>6, <1>7, <1>8

\* What is before pos in an order of numbers without gaps.
LEMMA Initial ==
  ASSUME NEW n \in Nat, NEW D \in SUBSET (1..n), \A i \in D, j \in 1..n : j < i => j \in D
  PROVE  Cardinality(D) \in 0..n /\ D = 1..Cardinality(D)
<1> DEFINE T == { i \in 1..(n + 1) : i \notin D }
<1>1. T \subseteq Nat /\ n + 1 \in T
  OBVIOUS
<1>2. PICK x \in T : \A y \in T : x <= y
  <2> HIDE DEF T
  <2> QED BY <1>1, LeastOfSet
<1>3. x \in 1..(n + 1) /\ x \notin D /\ x - 1 \in 0..n
  BY <1>2
<1>4. ASSUME NEW i \in 1..n  PROVE i \in D <=> i \in 1..(x - 1)
  <2>1. i <= x - 1 => i \in D
    <3>1. SUFFICES ASSUME i <= x - 1, i \notin D  PROVE FALSE
      OBVIOUS
    <3>2. i \in T
      BY <3>1
    <3> QED BY <1>2, <1>3, <3>1, <3>2
  <2>2. i \in D => i <= x - 1
    <3>1. SUFFICES ASSUME i \in D, ~(i <= x - 1)  PROVE FALSE
      OBVIOUS
    <3>2. x \in 1..n /\ (x < i \/ x = i)
      BY <1>3, <3>1
    <3> QED BY <1>3, <3>1, <3>2
  <2> QED BY <1>3, <2>1, <2>2
<1>5. D = 1..(x - 1)
  <2>1. \A i \in 1..(x - 1) : i \in 1..n
    BY <1>3
  <2> HIDE DEF T
  <2> QED BY <1>4, <2>1
<1>6. Cardinality(1..(x - 1)) = x - 1
  <2>1. 1 \in Int /\ x - 1 \in Int
    BY <1>3
  <2>2. Cardinality(1..(x - 1)) = (IF 1 > x - 1 THEN 0 ELSE (x - 1) - 1 + 1)
    BY <2>1, FS_Interval
  <2>3. (IF 1 > x - 1 THEN 0 ELSE (x - 1) - 1 + 1) = x - 1
    BY <1>3
  <2> QED BY <2>2, <2>3
<1> QED BY <1>3, <1>5, <1>6

\* The queue in its order, and the index of it.
Ordered(q) == \A i, j \in 1..Len(q) : i < j => Precedes(q[i], q[j])
FrontierOK(f) ==
  /\ f.queue \in Seq(Tag \X Nat)
  /\ DOMAIN f.index = { f.queue[i][1] : i \in 1..Len(f.queue) }
  /\ \A i \in 1..Len(f.queue) : f.index[f.queue[i][1]] = i
  /\ Ordered(f.queue)

\* What is in the queue.
Entries(f) == { f.queue[i] : i \in 1..Len(f.queue) }

\* Where Push inserts, all before come first and none from there on do.
LEMMA Position ==
  ASSUME Tag \subseteq Int, NEW q \in Seq(Tag \X Nat), Ordered(q), NEW item \in Tag \X Nat,
         \A i \in 1..Len(q) : q[i][1] # item[1]
  PROVE  LET pos == InsertionPos(q, item) IN
         /\ pos \in 1..(Len(q) + 1)
         /\ \A i \in 1..(pos - 1) : Precedes(q[i], item)
         /\ \A i \in pos..Len(q) : Precedes(item, q[i])
<1> DEFINE D == { i \in 1..Len(q) : Precedes(q[i], item) }
           k == Cardinality(D)
<1>1. Len(q) \in Nat /\ DOMAIN q = 1..Len(q)
  BY EmptySeq, LenProperties
<1>2. \A i \in 1..Len(q) : q[i] \in Tag \X Nat /\ q[i][1] \in Int /\ q[i][2] \in Nat
  <2>1. \A i \in 1..Len(q) : q[i] \in Tag \X Nat
    BY ElementOfSeq
  <2>2. \A e \in Tag \X Nat : e[1] \in Int /\ e[2] \in Nat
    OBVIOUS
  <2> QED BY <2>1, <2>2
<1>3. item[1] \in Int /\ item[2] \in Nat
  OBVIOUS
<1>4. ASSUME NEW i \in D, NEW j \in 1..Len(q), j < i  PROVE j \in D
  <2>1. i \in 1..Len(q) /\ Precedes(q[i], item) /\ Precedes(q[j], q[i])
    BY <1>4 DEF Ordered
  <2>2. Precedes(q[j], item)
    BY <1>2, <1>3, <2>1 DEF Precedes
  <2> QED BY <2>2
<1>5. k \in 0..Len(q) /\ D = 1..k
  <2>1. D \in SUBSET (1..Len(q))
    OBVIOUS
  <2> HIDE DEF D
  <2> QED BY <1>1, <1>4, <2>1, Initial
<1>6. InsertionPos(q, item) = 1 + k
  BY <1>1 DEF InsertionPos
<1> HIDE DEF k
<1>7. \A i \in 1..Len(q) : i \in D <=> i <= k
  BY <1>1, <1>5
<1>8. ASSUME NEW i \in 1..Len(q), ~(i <= k)  PROVE Precedes(item, q[i])
  <2>1. ~Precedes(q[i], item)
    BY <1>7, <1>8
  <2> QED BY <1>2, <1>3, <2>1 DEF Precedes
<1>9. \A i \in 1..Len(q) : i <= k => Precedes(q[i], item)
  BY <1>7
<1> HIDE DEF D
<1>10. 1 + k \in 1..(Len(q) + 1) /\ (\A i \in 1..((1 + k) - 1) : i \in 1..Len(q) /\ i <= k)
       /\ (\A i \in (1 + k)..Len(q) : i \in 1..Len(q) /\ ~(i <= k))
  BY <1>1, <1>5
<1> QED BY <1>6, <1>8, <1>9, <1>10

\* What is queued is a tag with its cost.
LEMMA QueueTypes ==
  ASSUME NEW f, FrontierOK(f)
  PROVE  /\ Len(f.queue) \in Nat /\ f.queue \in Seq(Tag \X Nat)
         /\ \A i \in 1..Len(f.queue) : /\ f.queue[i] \in Tag \X Nat /\ f.queue[i][1] \in Tag /\ f.queue[i][2] \in Nat
                                       /\ f.queue[i] = <<f.queue[i][1], f.queue[i][2]>>
         /\ \A i, j \in 1..Len(f.queue) : f.queue[i][1] = f.queue[j][1] => i = j
         /\ \A t \in DOMAIN f.index : f.index[t] \in 1..Len(f.queue) /\ f.queue[f.index[t]][1] = t
<1>1. Len(f.queue) \in Nat /\ f.queue \in Seq(Tag \X Nat)
  BY EmptySeq DEF FrontierOK
<1>2. \A i \in 1..Len(f.queue) : f.queue[i] \in Tag \X Nat
  BY <1>1, ElementOfSeq
<1>3. \A e \in Tag \X Nat : e[1] \in Tag /\ e[2] \in Nat /\ e = <<e[1], e[2]>>
  OBVIOUS
<1>4. \A i, j \in 1..Len(f.queue) : f.queue[i][1] = f.queue[j][1] => i = j
  BY DEF FrontierOK
<1>5. \A t \in DOMAIN f.index : f.index[t] \in 1..Len(f.queue) /\ f.queue[f.index[t]][1] = t
  BY DEF FrontierOK
<1> QED BY <1>1, <1>2, <1>3, <1>4, <1>5

\* A tag that is not queued is put at its place.
LEMMA PushKeeps ==
  ASSUME Tag \subseteq Int, NEW f, FrontierOK(f), NEW t \in Tag, t \notin DOMAIN f.index, NEW cost \in Nat
  PROVE  LET g == Push(f, t, cost) IN
         /\ FrontierOK(g)
         /\ Entries(g) = Entries(f) \cup {<<t, cost>>}
<1> DEFINE q == f.queue
           item == <<t, cost>>
           pos == InsertionPos(q, item)
           r == InsertAt(q, pos, item)
           g == Push(f, t, cost)
           n == Len(q)
<1>1. n \in Nat /\ q \in Seq(Tag \X Nat) /\ item \in Tag \X Nat /\ item[1] = t
  BY QueueTypes
<1>2. \A i \in 1..n : q[i][1] # item[1]
  BY <1>1 DEF FrontierOK
<1>3. /\ pos \in 1..(n + 1)
      /\ \A i \in 1..(pos - 1) : Precedes(q[i], item)
      /\ \A i \in pos..n : Precedes(item, q[i])
  <2>1. Ordered(q)
    BY DEF FrontierOK
  <2> HIDE DEF q, item
  <2> QED BY <1>1, <1>2, <2>1, Position
<1>4. g.queue = r
      /\ g.index = [u \in DOMAIN f.index \cup {t} |->
                      IF u = t THEN pos ELSE IF f.index[u] >= pos THEN f.index[u] + 1 ELSE f.index[u]]
  BY DEF Push, Shifted
<1> HIDE DEF pos, g
<1>5. /\ r \in Seq(Tag \X Nat) /\ Len(r) = n + 1
      /\ \A i \in 1..(pos - 1) : r[i] = q[i]
      /\ r[pos] = item
      /\ \A i \in pos..n : r[i + 1] = q[i]
  <2>1. q \in Seq(Tag \X Nat) /\ item \in Tag \X Nat /\ pos \in 1..(Len(q) + 1)
    BY <1>1, <1>3
  <2> HIDE DEF q, item
  <2> DEFINE S == Tag \X Nat
  <2>2. q \in Seq(S) /\ item \in S
    BY <2>1
  <2> HIDE DEF S
  <2>3. /\ InsertAt(q, pos, item) \in Seq(S) /\ Len(InsertAt(q, pos, item)) = Len(q) + 1
        /\ \A i \in 1..(pos - 1) : InsertAt(q, pos, item)[i] = q[i]
        /\ InsertAt(q, pos, item)[pos] = item
        /\ \A i \in pos..Len(q) : InsertAt(q, pos, item)[i + 1] = q[i]
    BY <2>1, <2>2, Inserted
  <2> QED BY <2>3 DEF S
<1> HIDE DEF r
<1>6. ASSUME NEW i \in 1..(n + 1)
      PROVE  \/ i \in 1..(pos - 1) /\ i \in 1..n /\ r[i] = q[i]
             \/ i = pos /\ r[i] = item
             \/ i - 1 \in pos..n /\ i - 1 \in 1..n /\ r[i] = q[i - 1]
  <2>1. pos \in Nat /\ 1 <= pos /\ pos <= n + 1
    BY <1>1, <1>3
  <2> HIDE DEF q, item, n
  <2>2. CASE i < pos
    <3>1. i \in 1..(pos - 1) /\ i \in 1..n
      BY <1>1, <2>1, <2>2
    <3> QED BY <1>5, <3>1
  <2>3. CASE i = pos
    BY <1>5, <2>3
  <2>4. CASE i > pos
    <3>1. i - 1 \in pos..n /\ i - 1 \in 1..n /\ (i - 1) + 1 = i
      BY <1>1, <2>1, <2>4
    <3>2. r[(i - 1) + 1] = q[i - 1]
      BY <1>5, <3>1
    <3> QED BY <3>1, <3>2
  <2>5. i < pos \/ i = pos \/ i > pos
    BY <1>1, <2>1
  <2> QED BY <2>2, <2>3, <2>4, <2>5
<1>7. ASSUME NEW i \in 1..n
      PROVE  \/ i \in 1..(pos - 1) /\ r[i] = q[i] /\ i \in 1..(n + 1)
             \/ i \in pos..n /\ r[i + 1] = q[i] /\ i + 1 \in 1..(n + 1)
  <2>1. pos \in Nat /\ 1 <= pos /\ pos <= n + 1
    BY <1>1, <1>3
  <2> HIDE DEF q, item, n
  <2>2. CASE i < pos
    <3>1. i \in 1..(pos - 1) /\ i \in 1..(n + 1)
      BY <1>1, <2>1, <2>2
    <3> QED BY <1>5, <3>1
  <2>3. CASE i >= pos
    <3>1. i \in pos..n /\ i + 1 \in 1..(n + 1)
      BY <1>1, <2>1, <2>3
    <3> QED BY <1>5, <3>1
  <2>4. i < pos \/ i >= pos
    BY <1>1, <2>1
  <2> QED BY <2>2, <2>3, <2>4
<1>8. pos \in 1..(n + 1) /\ pos \in Nat
  BY <1>1, <1>3
<1>9. Entries(g) = Entries(f) \cup {item}
  <2>1. Entries(g) = { r[i] : i \in 1..(n + 1) } /\ Entries(f) = { q[i] : i \in 1..n }
    BY <1>4, <1>5 DEF Entries
  <2> HIDE DEF q, item, n
  <2>2. \A i \in 1..(n + 1) : r[i] \in { q[j] : j \in 1..n } \cup {item}
    BY <1>6
  <2>3. \A j \in 1..n : q[j] \in { r[i] : i \in 1..(n + 1) }
    BY <1>7
  <2>4. item \in { r[i] : i \in 1..(n + 1) }
    BY <1>5, <1>8
  <2> QED BY <2>1, <2>2, <2>3, <2>4
<1>10. DOMAIN g.index = { g.queue[i][1] : i \in 1..Len(g.queue) }
  <2>1. DOMAIN g.index = DOMAIN f.index \cup {t} /\ DOMAIN f.index = { q[i][1] : i \in 1..n }
    BY <1>4 DEF FrontierOK
  <2>2. { g.queue[i][1] : i \in 1..Len(g.queue) } = { r[i][1] : i \in 1..(n + 1) }
    BY <1>4, <1>5
  <2>3. item[1] = t
    OBVIOUS
  <2> HIDE DEF q, item, n
  <2>4. \A i \in 1..(n + 1) : r[i][1] \in { q[j][1] : j \in 1..n } \cup {t}
    BY <1>6, <2>3
  <2>5. \A j \in 1..n : q[j][1] \in { r[i][1] : i \in 1..(n + 1) }
    BY <1>7
  <2>6. t \in { r[i][1] : i \in 1..(n + 1) }
    BY <1>5, <1>8, <2>3
  <2> DEFINE A == { q[j][1] : j \in 1..n }
             B == { r[i][1] : i \in 1..(n + 1) }
  <2>7. DOMAIN g.index = A \cup {t} /\ { g.queue[i][1] : i \in 1..Len(g.queue) } = B
    BY <2>1, <2>2
  <2>8. B \subseteq A \cup {t} /\ A \subseteq B /\ t \in B
    BY <2>4, <2>5, <2>6
  <2> HIDE DEF A, B
  <2>9. B = A \cup {t}
    BY <2>8
  <2> QED BY <2>7, <2>9
<1>11. ASSUME NEW i \in 1..(n + 1)  PROVE g.index[r[i][1]] = i
  <2>1. item[1] = t /\ \A j \in 1..n : q[j][1] \in DOMAIN f.index /\ f.index[q[j][1]] = j /\ q[j][1] # t
    BY DEF FrontierOK
  <2>2. g.index[t] = pos
    BY <1>4
  <2>3. \A j \in 1..n : g.index[q[j][1]] = IF j >= pos THEN j + 1 ELSE j
    BY <1>4, <2>1
  <2> HIDE DEF q, item, n
  <2>4. CASE i \in 1..(pos - 1) /\ i \in 1..n /\ r[i] = q[i]
    <3>1. ~(i >= pos)
      BY <1>8, <2>4
    <3> QED BY <2>3, <2>4, <3>1
  <2>5. CASE i = pos /\ r[i] = item
    BY <2>1, <2>2, <2>5
  <2>6. CASE i - 1 \in pos..n /\ i - 1 \in 1..n /\ r[i] = q[i - 1]
    <3>1. i - 1 >= pos /\ (i - 1) + 1 = i
      BY <1>8, <2>6
    <3> QED BY <2>3, <2>6, <3>1
  <2> QED BY <1>6, <2>4, <2>5, <2>6
<1>12. ASSUME NEW i \in 1..(n + 1), NEW j \in 1..(n + 1), i < j  PROVE Precedes(r[i], r[j])
  <2>1. \A k, l \in 1..n : k < l => Precedes(q[k], q[l])
    BY DEF FrontierOK, Ordered
  <2> HIDE DEF q, item
  <2>2. CASE i \in 1..(pos - 1) /\ i \in 1..n /\ r[i] = q[i]
    <3>1. CASE j \in 1..(pos - 1) /\ j \in 1..n /\ r[j] = q[j]
      BY <1>12, <2>1, <2>2, <3>1
    <3>2. CASE j = pos /\ r[j] = item
      BY <1>3, <2>2, <3>2
    <3>3. CASE j - 1 \in pos..n /\ j - 1 \in 1..n /\ r[j] = q[j - 1]
      <4>1. i < j - 1
        BY <1>1, <1>8, <2>2, <3>3
      <4> QED BY <2>1, <2>2, <3>3, <4>1
    <3> QED BY <1>6, <3>1, <3>2, <3>3
  <2>3. CASE i = pos /\ r[i] = item
    <3>1. CASE j <= pos
      BY <1>8, <1>12, <2>3, <3>1
    <3>2. CASE j - 1 \in pos..n /\ j - 1 \in 1..n /\ r[j] = q[j - 1]
      BY <1>3, <2>3, <3>2
    <3> QED BY <1>6, <1>8, <3>1, <3>2
  <2>4. CASE i - 1 \in pos..n /\ i - 1 \in 1..n /\ r[i] = q[i - 1]
    <3>1. CASE j <= pos
      BY <1>8, <1>12, <2>4, <3>1
    <3>2. CASE j - 1 \in pos..n /\ j - 1 \in 1..n /\ r[j] = q[j - 1]
      <4>1. i - 1 < j - 1
        BY <1>12
      <4> QED BY <2>1, <2>4, <3>2, <4>1
    <3> QED BY <1>6, <1>8, <3>1, <3>2
  <2> QED BY <1>6, <2>2, <2>3, <2>4
<1>13. FrontierOK(g)
  <2>1. g.queue = r /\ Len(r) = n + 1 /\ r \in Seq(Tag \X Nat)
    BY <1>4, <1>5
  <2>2. Ordered(r)
    BY <1>12, <2>1 DEF Ordered
  <2>3. \A i \in 1..Len(r) : g.index[r[i][1]] = i
    BY <1>11, <2>1
  <2> HIDE DEF q, item, n
  <2> QED BY <1>10, <2>1, <2>2, <2>3 DEF FrontierOK
<1> QED BY <1>9, <1>13 DEF g

\* Taking one out moves those behind it up.
LEMMA RemoveKeeps ==
  ASSUME NEW f, FrontierOK(f), NEW t \in DOMAIN f.index
  PROVE  LET i == f.index[t]
             g == [queue |-> RemoveAt(f.queue, i), index |-> Shifted(Without(f.index, t), i, -1)] IN
         /\ FrontierOK(g) /\ t \notin DOMAIN g.index
         /\ Entries(g) = Entries(f) \ {f.queue[i]}
<1> DEFINE q == f.queue
           p == f.index[t]
           n == Len(q)
           r == RemoveAt(q, p)
           g == [queue |-> RemoveAt(q, p), index |-> Shifted(Without(f.index, t), p, -1)]
<1>1. /\ n \in Nat /\ q \in Seq(Tag \X Nat) /\ p \in 1..n /\ q[p][1] = t
      /\ \A i, j \in 1..n : q[i][1] = q[j][1] => i = j
  BY QueueTypes
<1>2. g.queue = r
      /\ g.index = [u \in DOMAIN f.index \ {t} |-> IF f.index[u] >= p THEN f.index[u] + (-1) ELSE f.index[u]]
  BY DEF Shifted, Without
<1> HIDE DEF g
<1>3. /\ r \in Seq(Tag \X Nat) /\ Len(r) = n - 1
      /\ \A i \in 1..(p - 1) : r[i] = q[i]
      /\ \A i \in p..(n - 1) : r[i] = q[i + 1]
  <2>1. q \in Seq(Tag \X Nat) /\ p \in 1..Len(q)
    BY <1>1
  <2> HIDE DEF q, p
  <2> DEFINE S == Tag \X Nat
  <2>2. q \in Seq(S)
    BY <2>1
  <2> HIDE DEF S
  <2>3. /\ RemoveAt(q, p) \in Seq(S) /\ Len(RemoveAt(q, p)) = Len(q) - 1
        /\ \A i \in 1..(p - 1) : RemoveAt(q, p)[i] = q[i]
        /\ \A i \in p..(Len(q) - 1) : RemoveAt(q, p)[i] = q[i + 1]
    BY <2>1, <2>2, Removed
  <2> QED BY <2>3 DEF S
<1> HIDE DEF r
<1>4. p \in Nat /\ 1 <= p /\ p <= n
  BY <1>1
<1>5. ASSUME NEW i \in 1..(n - 1)
      PROVE  \/ i < p /\ i \in 1..n /\ r[i] = q[i]
             \/ i >= p /\ i + 1 \in 1..n /\ r[i] = q[i + 1]
  <2> HIDE DEF q, p, n
  <2>1. CASE i < p
    <3>1. i \in 1..(p - 1) /\ i \in 1..n
      BY <1>1, <1>4, <2>1
    <3> QED BY <1>3, <2>1, <3>1
  <2>2. CASE i >= p
    <3>1. i \in p..(n - 1) /\ i + 1 \in 1..n
      BY <1>1, <1>4, <2>2
    <3> QED BY <1>3, <2>2, <3>1
  <2>3. i < p \/ i >= p
    BY <1>4
  <2> QED BY <2>1, <2>2, <2>3
<1>6. ASSUME NEW j \in 1..n, j # p
      PROVE  \/ j \in 1..(n - 1) /\ r[j] = q[j]
             \/ j - 1 \in 1..(n - 1) /\ r[j - 1] = q[j]
  <2> HIDE DEF q, p, n
  <2>1. CASE j < p
    <3>1. j \in 1..(p - 1) /\ j \in 1..(n - 1)
      BY <1>1, <1>4, <2>1
    <3> QED BY <1>3, <3>1
  <2>2. CASE j > p
    <3>1. j - 1 \in p..(n - 1) /\ j - 1 \in 1..(n - 1) /\ (j - 1) + 1 = j
      BY <1>1, <1>4, <2>2
    <3>2. r[j - 1] = q[(j - 1) + 1]
      BY <1>3, <3>1
    <3> QED BY <3>1, <3>2
  <2>3. j < p \/ j > p
    BY <1>4, <1>6
  <2> QED BY <2>1, <2>2, <2>3
<1>7. \A i \in 1..(n - 1) : r[i] \in { q[j] : j \in 1..n } /\ r[i][1] \in { q[j][1] : j \in 1..n } /\ r[i][1] # t
  <2> TAKE i \in 1..(n - 1)
  <2>1. \A j \in 1..n : q[j][1] = t => j = p
    BY <1>1
  <2> HIDE DEF q, p, n
  <2>2. CASE i < p /\ i \in 1..n /\ r[i] = q[i]
    BY <1>4, <2>1, <2>2
  <2>3. CASE i >= p /\ i + 1 \in 1..n /\ r[i] = q[i + 1]
    <3>1. i + 1 # p
      BY <1>4, <2>3
    <3> QED BY <2>1, <2>3, <3>1
  <2> QED BY <1>5, <2>2, <2>3
<1>8. \A j \in 1..n : j # p => q[j] \in { r[i] : i \in 1..(n - 1) } /\ q[j][1] \in { r[i][1] : i \in 1..(n - 1) }
  <2> HIDE DEF q, p, n
  <2> QED BY <1>6
<1>9. Entries(g) = Entries(f) \ {q[p]}
  <2>1. Entries(g) = { r[i] : i \in 1..(n - 1) } /\ Entries(f) = { q[i] : i \in 1..n }
    BY <1>2, <1>3 DEF Entries
  <2>2. \A e \in { r[i] : i \in 1..(n - 1) } : e[1] # t
    BY <1>7
  <2>3. q[p][1] = t
    BY <1>1
  <2> HIDE DEF q, p, n
  <2> DEFINE A == { q[j] : j \in 1..n }
             B == { r[i] : i \in 1..(n - 1) }
  <2>4. B \subseteq A /\ q[p] \notin B
    BY <1>7, <2>2, <2>3
  <2>5. \A e \in A : e # q[p] => e \in B
    BY <1>8
  <2> HIDE DEF A, B
  <2>6. B = A \ {q[p]}
    BY <2>4, <2>5
  <2> QED BY <2>1, <2>6 DEF A, B
<1>10. DOMAIN g.index = { g.queue[i][1] : i \in 1..Len(g.queue) }
  <2>1. DOMAIN g.index = DOMAIN f.index \ {t} /\ DOMAIN f.index = { q[i][1] : i \in 1..n }
    BY <1>2 DEF FrontierOK
  <2>2. { g.queue[i][1] : i \in 1..Len(g.queue) } = { r[i][1] : i \in 1..(n - 1) }
    BY <1>2, <1>3
  <2>3. q[p][1] = t
    BY <1>1
  <2> HIDE DEF q, p, n
  <2> DEFINE A == { q[j][1] : j \in 1..n }
             B == { r[i][1] : i \in 1..(n - 1) }
  <2>4. B \subseteq A /\ t \notin B
    BY <1>7
  <2>5. \A e \in A : e # t => e \in B
    BY <1>8, <2>3
  <2>6. DOMAIN g.index = A \ {t} /\ { g.queue[i][1] : i \in 1..Len(g.queue) } = B
    BY <2>1, <2>2
  <2> HIDE DEF A, B
  <2>7. B = A \ {t}
    BY <2>4, <2>5
  <2> QED BY <2>6, <2>7
<1>11. ASSUME NEW i \in 1..(n - 1)  PROVE g.index[r[i][1]] = i
  <2>1. \A j \in 1..n : q[j][1] \in DOMAIN f.index /\ f.index[q[j][1]] = j
    BY DEF FrontierOK
  <2>2. \A j \in 1..n : q[j][1] # t => g.index[q[j][1]] = IF j >= p THEN j + (-1) ELSE j
    BY <1>2, <2>1
  <2>3. r[i][1] # t
    BY <1>7
  <2> HIDE DEF q, p, n
  <2>4. CASE i < p /\ i \in 1..n /\ r[i] = q[i]
    <3>1. ~(i >= p)
      BY <1>4, <2>4
    <3> QED BY <2>2, <2>3, <2>4, <3>1
  <2>5. CASE i >= p /\ i + 1 \in 1..n /\ r[i] = q[i + 1]
    <3>1. i + 1 >= p /\ (i + 1) + (-1) = i
      BY <1>4, <2>5
    <3> QED BY <2>2, <2>3, <2>5, <3>1
  <2> QED BY <1>5, <2>4, <2>5
<1>12. ASSUME NEW i \in 1..(n - 1), NEW j \in 1..(n - 1), i < j  PROVE Precedes(r[i], r[j])
  <2>1. \A k, l \in 1..n : k < l => Precedes(q[k], q[l])
    BY DEF FrontierOK, Ordered
  <2> HIDE DEF q, p, n
  <2>2. CASE i < p /\ i \in 1..n /\ r[i] = q[i]
    <3>1. CASE j < p /\ j \in 1..n /\ r[j] = q[j]
      BY <1>12, <2>1, <2>2, <3>1
    <3>2. CASE j >= p /\ j + 1 \in 1..n /\ r[j] = q[j + 1]
      <4>1. i < j + 1
        BY <1>12
      <4> QED BY <2>1, <2>2, <3>2, <4>1
    <3> QED BY <1>5, <3>1, <3>2
  <2>3. CASE i >= p /\ i + 1 \in 1..n /\ r[i] = q[i + 1]
    <3>1. j >= p /\ i + 1 < j + 1
      BY <1>4, <1>12, <2>3
    <3>2. j + 1 \in 1..n /\ r[j] = q[j + 1]
      BY <1>4, <1>5, <3>1
    <3> QED BY <2>1, <2>3, <3>1, <3>2
  <2> QED BY <1>5, <2>2, <2>3
<1>13. FrontierOK(g)
  <2>1. g.queue = r /\ Len(r) = n - 1 /\ r \in Seq(Tag \X Nat)
    BY <1>2, <1>3
  <2>2. Ordered(r)
    BY <1>12, <2>1 DEF Ordered
  <2>3. \A i \in 1..Len(r) : g.index[r[i][1]] = i
    BY <1>11, <2>1
  <2> HIDE DEF q, p, n
  <2> QED BY <1>10, <2>1, <2>2, <2>3 DEF FrontierOK
<1>14. t \notin DOMAIN g.index
  BY <1>2
<1> QED BY <1>9, <1>13, <1>14 DEF g

\* What is queued, and for what cost.
LEMMA EntryOf ==
  ASSUME NEW f, FrontierOK(f)
  PROVE  /\ Entries(f) \subseteq Tag \X Nat
         /\ \A e \in Entries(f) : e[1] \in DOMAIN f.index
         /\ \A t \in DOMAIN f.index : <<t, f.queue[f.index[t]][2]>> \in Entries(f) /\ f.queue[f.index[t]] = <<t, f.queue[f.index[t]][2]>>
         /\ \A e1, e2 \in Entries(f) : e1[1] = e2[1] => e1 = e2
         /\ f.queue = <<>> <=> Entries(f) = {}
<1> DEFINE q == f.queue
           n == Len(q)
<1>1. /\ n \in Nat /\ q \in Seq(Tag \X Nat)
      /\ \A i \in 1..n : /\ q[i] \in Tag \X Nat /\ q[i][1] \in Tag /\ q[i][2] \in Nat
                         /\ q[i] = <<q[i][1], q[i][2]>>
      /\ \A i, j \in 1..n : q[i][1] = q[j][1] => i = j
      /\ \A t \in DOMAIN f.index : f.index[t] \in 1..n /\ q[f.index[t]][1] = t
  BY QueueTypes
<1>2. DOMAIN f.index = { q[i][1] : i \in 1..n } /\ Entries(f) = { q[i] : i \in 1..n }
  BY DEF FrontierOK, Entries
<1>3. q = <<>> <=> n = 0
  BY <1>1, EmptySeq
<1> HIDE DEF q, n
<1>4. q = <<>> <=> Entries(f) = {}
  <2>1. n # 0 => 1 \in 1..n
    BY <1>1
  <2>2. n = 0 => 1..n = {}
    OBVIOUS
  <2> QED BY <1>2, <1>3, <2>1, <2>2
<1>5. \A t \in DOMAIN f.index : q[f.index[t]] = <<t, q[f.index[t]][2]>> /\ q[f.index[t]] \in Entries(f)
  BY <1>1, <1>2
<1>6. Entries(f) \subseteq Tag \X Nat /\ \A e \in Entries(f) : e[1] \in DOMAIN f.index
  BY <1>1, <1>2
<1>7. \A t \in DOMAIN f.index : <<t, q[f.index[t]][2]>> \in Entries(f)
  <2> TAKE t \in DOMAIN f.index
  <2>1. q[f.index[t]] = <<t, q[f.index[t]][2]>> /\ q[f.index[t]] \in Entries(f)
    BY <1>5
  <2> QED BY <2>1
<1>8. ASSUME NEW e1 \in Entries(f), NEW e2 \in Entries(f), e1[1] = e2[1]  PROVE e1 = e2
  <2>1. PICK i \in 1..n : e1 = q[i]
    BY <1>2
  <2>2. PICK j \in 1..n : e2 = q[j]
    BY <1>2
  <2>3. i = j
    BY <1>1, <1>8, <2>1, <2>2
  <2> QED BY <2>1, <2>2, <2>3
<1> QED BY <1>4, <1>5, <1>6, <1>7, <1>8 DEF q

\* A node that is queued for more is queued for less.
LEMMA DecreaseKeeps ==
  ASSUME Tag \subseteq Int, NEW f, FrontierOK(f), NEW t \in Tag, NEW cost \in Nat
  PROVE  LET g == InsertOrDecrease(f, t, cost) IN
         /\ FrontierOK(g)
         /\ Entries(g) = { e \in Entries(f) : e[1] # t } \cup {<<t, cost>>}
<1> DEFINE g == InsertOrDecrease(f, t, cost)
           rest == { e \in Entries(f) : e[1] # t }
<1>1. CASE t \notin DOMAIN f.index
  <2>1. g = Push(f, t, cost)
    BY <1>1 DEF InsertOrDecrease
  <2>2. rest = Entries(f)
    BY <1>1, EntryOf
  <2> QED BY <1>1, <2>1, <2>2, PushKeeps
<1>2. CASE t \in DOMAIN f.index
  <2> DEFINE i == f.index[t]
             m == [queue |-> RemoveAt(f.queue, i), index |-> Shifted(Without(f.index, t), i, -1)]
  <2>1. g = Push(m, t, cost)
    BY <1>2 DEF InsertOrDecrease
  <2>2. FrontierOK(m) /\ t \notin DOMAIN m.index /\ Entries(m) = Entries(f) \ {f.queue[i]}
    BY <1>2, RemoveKeeps
  <2> HIDE DEF m, g
  <2>3. FrontierOK(g) /\ Entries(g) = Entries(m) \cup {<<t, cost>>}
    BY <2>1, <2>2, PushKeeps
  <2>4. /\ f.queue[i] \in Entries(f) /\ f.queue[i][1] = t
        /\ \A e1, e2 \in Entries(f) : e1[1] = e2[1] => e1 = e2
    <3>1. <<t, f.queue[i][2]>>[1] = t
      OBVIOUS
    <3>2. f.queue[i] = <<t, f.queue[i][2]>> /\ <<t, f.queue[i][2]>> \in Entries(f)
      BY <1>2, EntryOf
    <3>3. \A e1, e2 \in Entries(f) : e1[1] = e2[1] => e1 = e2
      BY EntryOf
    <3> QED BY <3>1, <3>2, <3>3
  <2>5. Entries(m) = rest
    BY <2>2, <2>4
  <2> QED BY <2>3, <2>5 DEF g
<1> QED BY <1>1, <1>2

\* The last of the queue is the cheapest.
LEMMA PopKeeps ==
  ASSUME Tag \subseteq Int, NEW f, FrontierOK(f), f.queue # <<>>
  PROVE  LET e == Last(f.queue)
             g == [queue |-> Front(f.queue), index |-> Without(f.index, e[1])] IN
         /\ FrontierOK(g)
         /\ e \in Entries(f) /\ Entries(g) = Entries(f) \ {e}
         /\ \A x \in Entries(f) : e[2] <= x[2]
<1> DEFINE q == f.queue
           n == Len(q)
           e == Last(q)
           t == e[1]
<1>1. /\ n \in Nat /\ q \in Seq(Tag \X Nat)
      /\ \A i \in 1..n : q[i] \in Tag \X Nat /\ q[i][1] \in Tag /\ q[i][2] \in Nat
  BY QueueTypes
<1>2. n \in 1..n /\ n # 0
  BY <1>1, EmptySeq
<1>3. e = q[n] /\ t \in DOMAIN f.index /\ f.index[t] = n
  BY <1>2 DEF Last, FrontierOK
<1>4. Front(q) = RemoveAt(q, n)
  <2>1. SubSeq(q, n + 1, n) = <<>>
    <3>1. n + 1 \in Int /\ n \in Int /\ n < n + 1
      BY <1>1
    <3> HIDE DEF q, n
    <3> QED BY <3>1, SubSeqEmpty
  <2>2. Front(q) \in Seq(Tag \X Nat)
    <3>1. \A i \in 1..(n - 1) : q[i] \in Tag \X Nat
      BY <1>1
    <3>2. 1 \in Int /\ n - 1 \in Int
      BY <1>1
    <3>3. Front(q) = SubSeq(q, 1, n - 1)
      BY DEF Front
    <3> HIDE DEF q, n
    <3> DEFINE S == Tag \X Nat
               k == n - 1
    <3>4. \A i \in 1..k : q[i] \in S
      BY <3>1
    <3>5. 1 \in Int /\ k \in Int
      BY <3>2
    <3> HIDE DEF S, k
    <3>6. SubSeq(q, 1, k) \in Seq(S)
      BY <3>4, <3>5, SubSeqProperties
    <3> QED BY <3>3, <3>6 DEF S, k
  <2>3. Front(q) \o <<>> = Front(q)
    <3> DEFINE a == Front(q)
               S == Tag \X Nat
    <3>1. a \in Seq(S)
      BY <2>2
    <3> HIDE DEF a, S
    <3>2. a \o <<>> = a
      BY <3>1, ConcatEmptySeq
    <3> QED BY <3>2 DEF a
  <2>4. RemoveAt(q, n) = SubSeq(q, 1, n - 1) \o SubSeq(q, n + 1, n)
    BY DEF RemoveAt
  <2>5. Front(q) = SubSeq(q, 1, n - 1)
    BY DEF Front
  <2> QED BY <2>1, <2>3, <2>4, <2>5
<1>5. Without(f.index, t) = Shifted(Without(f.index, t), n, -1)
  <2>1. \A u \in DOMAIN f.index : u # t => ~(f.index[u] >= n)
    <3>1. \A u \in DOMAIN f.index : f.index[u] \in 1..n /\ q[f.index[u]][1] = u
      BY QueueTypes
    <3>2. q[n][1] = t
      BY <1>3
    <3> HIDE DEF q, n, t
    <3> QED BY <1>1, <3>1, <3>2
  <2> HIDE DEF n, t
  <2> QED BY <2>1 DEF Without, Shifted
<1> DEFINE g == [queue |-> Front(q), index |-> Without(f.index, t)]
<1>6. FrontierOK(g) /\ Entries(g) = Entries(f) \ {e}
  <2> DEFINE i == f.index[t]
             h == [queue |-> RemoveAt(f.queue, i), index |-> Shifted(Without(f.index, t), i, -1)]
  <2>1. FrontierOK(h) /\ Entries(h) = Entries(f) \ {f.queue[i]}
    <3> HIDE DEF t
    <3> QED BY <1>3, RemoveKeeps
  <2>2. g = h /\ f.queue[i] = e
    BY <1>3, <1>4, <1>5
  <2> HIDE DEF g, h
  <2> QED BY <2>1, <2>2
<1>7. e \in Entries(f)
  BY <1>2, <1>3 DEF Entries
<1>8. ASSUME NEW i \in 1..n  PROVE e[2] <= q[i][2]
  <2>1. i < n => Precedes(q[i], q[n])
    BY <1>2 DEF FrontierOK, Ordered
  <2>2. q[i][2] \in Nat /\ q[n][2] \in Nat /\ (i < n \/ i = n)
    BY <1>1, <1>2
  <2> HIDE DEF q, n, e
  <2>3. CASE i = n
    BY <1>3, <2>2, <2>3
  <2>4. CASE i < n
    <3>1. Precedes(q[i], q[n])
      BY <2>1, <2>4
    <3>2. q[i][2] > q[n][2] \/ q[i][2] = q[n][2]
      BY <3>1 DEF Precedes
    <3> QED BY <1>3, <2>2, <3>2
  <2> QED BY <2>2, <2>3, <2>4
<1>9. \A x \in Entries(f) : e[2] <= x[2]
  BY <1>8 DEF Entries
<1> QED BY <1>6, <1>7, <1>9

-----------------------------------------------------------------------------
(* The chain of predecessors.                                               *)

\* The walk over the predecessors, turn by turn.
BackWalk(cur, t) ==
  cur = [n \in 1..Cardinality(Tag) |->
           IF n = 1 THEN t
           ELSE IF cur[n - 1] \in DOMAIN previous THEN previous[cur[n - 1]] ELSE cur[n - 1]]

\* The turns the chain holds.
Turns(cur) == { m \in 1..Cardinality(Tag) : cur[m] \in DOMAIN previous }

\* The chain is the turns of the walk.
LEMMA WalkIs ==
  ASSUME IsFiniteSet(Tag), NEW t \in Tag, \A u \in DOMAIN previous : previous[u] \in Tag
  PROVE  \E cur : BackWalk(cur, t) /\ cur \in [1..Cardinality(Tag) -> Tag]
                  /\ Chain(t) = [n \in Turns(cur) |-> cur[n]]
<1> DEFINE N == Cardinality(Tag)
           k == N - 1
           F == [a \in Nat \X Tag |-> IF a[2] \in DOMAIN previous THEN previous[a[2]] ELSE a[2]]
<1>1. N \in Nat /\ N # 0 /\ k \in Nat /\ k + 1 = N
  <2>1. N \in Nat /\ N # 0
    BY FS_CardinalityType, FS_EmptySet
  <2> HIDE DEF N
  <2> QED BY <2>1
<1> HIDE DEF N
<1>2. F \in [Nat \X Tag -> Tag]
  OBVIOUS
<1>3. \A n \in Nat, u \in Tag : F[<<n, u>>] = IF u \in DOMAIN previous THEN previous[u] ELSE u
  OBVIOUS
<1> HIDE DEF F, k
<1>4. PICK f : Iteration(f, Tag, k, t, F)
  BY <1>1, <1>2, Iterates
<1>5. f \in [0..k -> Tag] /\ f[0] = t /\ \A i \in 1..k : f[i] = F[<<i, f[i - 1]>>]
  BY <1>4 DEF Iteration
<1> DEFINE c == [n \in 1..N |-> f[n - 1]]
<1>6. \A n \in 1..N : n - 1 \in 0..k
  BY <1>1
<1>7. c \in [1..N -> Tag]
  BY <1>5, <1>6
<1>8. ASSUME NEW n \in 1..N
      PROVE  c[n] = IF n = 1 THEN t
                    ELSE IF c[n - 1] \in DOMAIN previous THEN previous[c[n - 1]] ELSE c[n - 1]
  <2>1. CASE n = 1
    BY <1>5, <2>1
  <2>2. CASE n # 1
    <3>1. n - 1 \in 1..N /\ n - 1 \in 1..k /\ n - 1 \in Nat /\ (n - 1) - 1 \in 0..k
      BY <1>1, <2>2
    <3>2. c[n - 1] = f[(n - 1) - 1] /\ c[n] = f[n - 1]
      BY <3>1
    <3> HIDE DEF c
    <3>3. f[n - 1] = F[<<n - 1, f[(n - 1) - 1]>>] /\ f[(n - 1) - 1] \in Tag
      BY <1>5, <3>1
    <3> QED BY <1>3, <2>2, <3>1, <3>2, <3>3
  <2> QED BY <2>1, <2>2
<1>9. BackWalk(c, t)
  <2> DEFINE rhs == [n \in 1..N |-> IF n = 1 THEN t
                       ELSE IF c[n - 1] \in DOMAIN previous THEN previous[c[n - 1]] ELSE c[n - 1]]
  <2>1. DOMAIN c = DOMAIN rhs /\ \A n \in 1..N : c[n] = rhs[n]
    BY <1>8
  <2>2. c = rhs
    BY <2>1
  <2> QED BY <2>2 DEF BackWalk, N
<1> DEFINE e == CHOOSE cur : BackWalk(cur, t)
<1>10. BackWalk(e, t)
  <2> HIDE DEF c
  <2> QED BY <1>9
<1>11. Chain(t) = [n \in Turns(e) |-> e[n]]
  BY DEF Chain, BackWalk, Turns
<1> HIDE DEF c, e
<1>12. DOMAIN e = 1..N /\ \A n \in 1..N : e[n] = IF n = 1 THEN t
                    ELSE IF e[n - 1] \in DOMAIN previous THEN previous[e[n - 1]] ELSE e[n - 1]
  BY <1>10 DEF BackWalk, N
<1>13. e = [n \in 1..N |-> e[n]]
  BY <1>10 DEF BackWalk, N
<1>14. \A n \in 1..N : e[n] = c[n]
  <2> DEFINE S == { m \in Nat : m + 1 \in 1..N => e[m + 1] = c[m + 1] }
  <2>1. 0 \in S
    BY <1>8, <1>12
  <2>2. ASSUME NEW m \in Nat, m \in S  PROVE m + 1 \in S
    <3>1. SUFFICES ASSUME (m + 1) + 1 \in 1..N  PROVE e[(m + 1) + 1] = c[(m + 1) + 1]
      OBVIOUS
    <3>2. m + 1 \in 1..N /\ ((m + 1) + 1) - 1 = m + 1 /\ (m + 1) + 1 # 1
      BY <1>1, <3>1
    <3>3. e[m + 1] = c[m + 1]
      BY <2>2, <3>2
    <3> QED BY <1>8, <1>12, <3>1, <3>2, <3>3
  <2> HIDE DEF S
  <2>3. \A m \in Nat : m \in S
    BY <2>1, <2>2, Induction
  <2>4. \A n \in 1..N : n - 1 \in Nat /\ (n - 1) + 1 = n
    BY <1>1
  <2> QED BY <2>3, <2>4 DEF S
<1>15. e \in [1..N -> Tag]
  BY <1>7, <1>13, <1>14
<1> QED BY <1>10, <1>11, <1>15 DEF N

\* Everything explored and queued leads back to the start, over what was explored before.
Height(h, t) == IF t \in explored THEN h[t] ELSE Cardinality(explored)
Back(h) ==
  /\ from \in Tag /\ from \notin DOMAIN previous
  /\ DOMAIN previous \subseteq Tag /\ explored \subseteq Tag
  /\ explored \subseteq DOMAIN previous \cup {from}
  /\ \A t \in explored : h[t] \in 0..(Cardinality(explored) - 1)
  /\ \A t \in DOMAIN previous : previous[t] \in explored /\ (t \in explored => h[previous[t]] < h[t])

\* cur goes back from t to the start in k links.
Leads(cur, k, t) ==
  /\ k \in Nat /\ k < Cardinality(Tag) /\ cur \in [1..(k + 1) -> Tag]
  /\ cur[1] = t /\ cur[k + 1] = from
  /\ \A n \in 1..k : cur[n] \in DOMAIN previous /\ cur[n + 1] = previous[cur[n]]
  /\ \A i, j \in 1..(k + 1) : cur[i] = cur[j] => i = j

\* A predecessor is less high than what it precedes.
LEMMA Heights ==
  ASSUME IsFiniteSet(Tag), NEW h, Back(h), NEW t \in Tag
  PROVE  /\ Height(h, t) \in 0..(Cardinality(Tag) - 1)
         /\ t \in DOMAIN previous => /\ previous[t] \in Tag /\ Height(h, previous[t]) < Height(h, t)
                                     /\ previous[t] \in DOMAIN previous \cup {from}
<1> DEFINE N == Cardinality(Tag)
           E == Cardinality(explored)
<1>1. IsFiniteSet(explored) /\ E \in Nat /\ N \in Nat /\ E <= N /\ (explored # Tag => E < N)
  <2>1. explored \subseteq Tag
    BY DEF Back
  <2>2. IsFiniteSet(explored) /\ E <= N /\ (E = N => explored = Tag)
    BY <2>1, FS_Subset
  <2>3. E \in Nat /\ N \in Nat
    BY <2>2, FS_CardinalityType
  <2> QED BY <2>2, <2>3
<1>2. \A u \in explored : h[u] \in 0..(E - 1)
  BY DEF Back
<1> HIDE DEF N, E
<1>3. Height(h, t) = IF t \in explored THEN h[t] ELSE E
  BY DEF Height, E
<1>4. Height(h, t) \in 0..(N - 1)
  <2>1. CASE t \in explored
    <3>1. h[t] \in 0..(E - 1)
      BY <1>2, <2>1
    <3> QED BY <1>1, <1>3, <2>1, <3>1
  <2>2. CASE t \notin explored
    BY <1>1, <1>3, <2>2
  <2> QED BY <2>1, <2>2
<1>5. ASSUME t \in DOMAIN previous
      PROVE  previous[t] \in Tag /\ Height(h, previous[t]) < Height(h, t) /\ previous[t] \in DOMAIN previous \cup {from}
  <2>1. previous[t] \in explored /\ (t \in explored => h[previous[t]] < h[t]) /\ explored \subseteq Tag
        /\ explored \subseteq DOMAIN previous \cup {from}
    BY <1>5 DEF Back
  <2>2. Height(h, previous[t]) = h[previous[t]] /\ h[previous[t]] \in 0..(E - 1)
    BY <1>2, <2>1 DEF Height
  <2>3. h[previous[t]] < Height(h, t)
    BY <1>1, <1>3, <2>1, <2>2
  <2> QED BY <2>1, <2>2, <2>3
<1> QED BY <1>4, <1>5 DEF N

LEMMA ChainEnds ==
  ASSUME IsFiniteSet(Tag), NEW h, Back(h), NEW t \in DOMAIN previous \cup {from}
  PROVE  \E cur, k : Leads(cur, k, t) /\ Chain(t) = [n \in 1..k |-> cur[n]]
<1> DEFINE N == Cardinality(Tag)
<1>1. N \in Nat /\ N # 0 /\ t \in Tag /\ \A u \in DOMAIN previous : u \in Tag /\ previous[u] \in Tag
  <2>1. t \in Tag /\ \A u \in DOMAIN previous : u \in Tag /\ previous[u] \in Tag
    BY Heights DEF Back
  <2> QED BY <2>1, FS_CardinalityType, FS_EmptySet
<1>2. PICK c : BackWalk(c, t) /\ c \in [1..N -> Tag] /\ Chain(t) = [n \in Turns(c) |-> c[n]]
  BY <1>1, WalkIs
<1>3. Turns(c) = { m \in 1..N : c[m] \in DOMAIN previous }
  BY DEF Turns
<1>4. \A n \in 1..N : c[n] = IF n = 1 THEN t
                    ELSE IF c[n - 1] \in DOMAIN previous THEN previous[c[n - 1]] ELSE c[n - 1]
  BY <1>2 DEF BackWalk
<1> HIDE DEF N
<1>5. \A n \in 1..(N - 1) : n \in 1..N /\ n + 1 \in 1..N
        /\ c[n + 1] = IF c[n] \in DOMAIN previous THEN previous[c[n]] ELSE c[n]
  <2> TAKE n \in 1..(N - 1)
  <2>1. n \in 1..N /\ n + 1 \in 1..N /\ n + 1 # 1 /\ (n + 1) - 1 = n
    BY <1>1
  <2> QED BY <1>4, <2>1
<1>6. c[1] = t /\ 1 \in 1..N
  BY <1>1, <1>4
<1> DEFINE H(n) == Height(h, c[n])
<1>7. \A n \in 1..N : H(n) \in 0..(N - 1)
  BY <1>2, Heights DEF N
<1>8. \A n \in 1..(N - 1) : c[n] \in DOMAIN previous => H(n + 1) < H(n)
  <2> TAKE n \in 1..(N - 1)
  <2>1. HAVE c[n] \in DOMAIN previous
  <2>2. c[n] \in Tag /\ c[n + 1] = previous[c[n]]
    BY <1>2, <1>5, <2>1
  <2> QED BY <2>1, <2>2, Heights
<1>9. \A n \in 1..N : c[n] \in DOMAIN previous \cup {from}
  <2> DEFINE S == { m \in Nat : m + 1 \in 1..N => c[m + 1] \in DOMAIN previous \cup {from} }
  <2>1. 0 \in S
    BY <1>6
  <2>2. ASSUME NEW m \in Nat, m \in S  PROVE m + 1 \in S
    <3>1. SUFFICES ASSUME (m + 1) + 1 \in 1..N  PROVE c[(m + 1) + 1] \in DOMAIN previous \cup {from}
      OBVIOUS
    <3>2. m + 1 \in 1..N /\ m + 1 \in 1..(N - 1)
      BY <1>1, <3>1
    <3>3. c[m + 1] \in DOMAIN previous \cup {from} /\ c[m + 1] \in Tag
      BY <1>2, <2>2, <3>2
    <3>4. c[m + 1] \in DOMAIN previous => previous[c[m + 1]] \in DOMAIN previous \cup {from}
      BY <3>3, Heights
    <3> QED BY <1>5, <3>2, <3>3, <3>4
  <2> HIDE DEF S
  <2>3. \A m \in Nat : m \in S
    BY <2>1, <2>2, Induction
  <2>4. \A n \in 1..N : n - 1 \in Nat /\ (n - 1) + 1 = n
    BY <1>1
  <2> QED BY <2>3, <2>4 DEF S
\* The height falls from turn to turn, so the walk is over in time.
<1>10. \A m \in Nat : m + 1 \in 1..N => (c[m + 1] \in DOMAIN previous => H(m + 1) + m < N)
  <2> DEFINE S == { m \in Nat : m + 1 \in 1..N => (c[m + 1] \in DOMAIN previous => H(m + 1) + m < N) }
  <2>1. 0 \in S
    BY <1>1, <1>6, <1>7
  <2>2. ASSUME NEW m \in Nat, m \in S  PROVE m + 1 \in S
    <3>1. SUFFICES ASSUME (m + 1) + 1 \in 1..N, c[(m + 1) + 1] \in DOMAIN previous  PROVE H((m + 1) + 1) + (m + 1) < N
      OBVIOUS
    <3>2. m + 1 \in 1..N /\ m + 1 \in 1..(N - 1)
      BY <1>1, <3>1
    <3>3. c[m + 1] \in DOMAIN previous
      BY <1>5, <3>1, <3>2
    <3>4. H(m + 1) + m < N /\ H((m + 1) + 1) < H(m + 1)
      BY <1>8, <2>2, <3>2, <3>3
    <3>5. H((m + 1) + 1) \in Nat /\ H(m + 1) \in Nat
      BY <1>7, <3>1, <3>2
    <3> HIDE DEF H
    <3> QED BY <1>1, <3>4, <3>5
  <2> HIDE DEF S
  <2>3. \A m \in Nat : m \in S
    BY <2>1, <2>2, Induction
  <2> QED BY <2>3 DEF S
<1> DEFINE T == Turns(c)
           k == Cardinality(T)
<1>11. k \in 0..N /\ T = 1..k
  <2>1. T \in SUBSET (1..N)
    BY <1>3
  <2>2. ASSUME NEW i \in T, NEW j \in 1..N, j < i  PROVE j \in T
    <3> DEFINE S == { m \in Nat : i - m \in 1..N => i - m \in T }
    <3>1. 0 \in S
      BY <2>1
    <3>2. ASSUME NEW m \in Nat, m \in S  PROVE m + 1 \in S
      <4>1. SUFFICES ASSUME i - (m + 1) \in 1..N  PROVE i - (m + 1) \in T
        OBVIOUS
      <4>2. i \in 1..N
        BY <2>1
      <4>3. i - m \in 1..N /\ i - (m + 1) \in 1..(N - 1) /\ (i - (m + 1)) + 1 = i - m
        BY <1>1, <4>1, <4>2
      <4>4. c[i - m] \in DOMAIN previous
        BY <1>3, <3>2, <4>3
      <4>5. c[i - (m + 1)] \in DOMAIN previous
        BY <1>5, <4>3, <4>4
      <4> QED BY <1>3, <4>1, <4>5
    <3> HIDE DEF S
    <3>3. \A m \in Nat : m \in S
      BY <3>1, <3>2, Induction
    <3>4. i - j \in Nat /\ i - (i - j) = j
      BY <2>1, <2>2
    <3> QED BY <3>3, <3>4 DEF S
  <2> HIDE DEF T
  <2> QED BY <1>1, <2>1, <2>2, Initial
<1> HIDE DEF T, k
<1>12. k \in Nat /\ k < N
  <2>1. SUFFICES ASSUME k = N  PROVE FALSE
    BY <1>1, <1>11
  <2>2. N \in T /\ N \in 1..N /\ N - 1 \in Nat /\ (N - 1) + 1 = N
    BY <1>1, <1>11, <2>1
  <2>3. c[N] \in DOMAIN previous
    BY <1>3, <2>2 DEF T
  <2>4. H(N) + (N - 1) < N
    BY <1>10, <2>2, <2>3
  <2>5. c[N] \in Tag /\ previous[c[N]] \in Tag /\ Height(h, previous[c[N]]) < H(N)
    BY <1>2, <2>2, <2>3, Heights
  <2>6. Height(h, previous[c[N]]) \in 0..(N - 1)
    BY <2>5, Heights DEF N
  <2>7. H(N) \in 0..(N - 1)
    BY <1>7, <2>2
  <2> HIDE DEF H
  <2> QED BY <1>1, <2>4, <2>5, <2>6, <2>7
<1> DEFINE cur == [n \in 1..(k + 1) |-> c[n]]
<1>13. \A n \in 1..(k + 1) : n \in 1..N
  BY <1>1, <1>12
<1>14. cur \in [1..(k + 1) -> Tag] /\ cur[1] = t
  <2>1. 1 \in 1..(k + 1)
    BY <1>12
  <2> QED BY <1>2, <1>6, <1>13, <2>1
<1>15. \A n \in 1..k : c[n] \in DOMAIN previous /\ n \in 1..(N - 1) /\ n + 1 \in 1..(k + 1) /\ n \in 1..(k + 1)
  <2> TAKE n \in 1..k
  <2>1. n \in 1..(N - 1) /\ n + 1 \in 1..(k + 1) /\ n \in 1..(k + 1)
    BY <1>1, <1>12
  <2>2. c[n] \in DOMAIN previous
    BY <1>3, <1>11 DEF T
  <2> QED BY <2>1, <2>2
<1>16. cur[k + 1] = from
  <2>1. k + 1 \in 1..(k + 1) /\ k + 1 \in 1..N /\ k + 1 \notin 1..k
    BY <1>1, <1>12
  <2>2. c[k + 1] \notin DOMAIN previous
    BY <1>3, <1>11, <2>1 DEF T
  <2> QED BY <1>9, <2>1, <2>2
<1>17. \A n \in 1..k : cur[n] \in DOMAIN previous /\ cur[n + 1] = previous[cur[n]]
  BY <1>5, <1>15
<1>18. ASSUME NEW i \in 1..(k + 1), NEW j \in 1..(k + 1), i < j  PROVE H(j) < H(i)
  <2> DEFINE S == { m \in Nat : (i + 1) + m \in 1..(k + 1) => H((i + 1) + m) < H(i) }
  <2>1. \A n \in 1..k : H(n + 1) < H(n) /\ H(n) \in Nat /\ H(n + 1) \in Nat
    BY <1>7, <1>8, <1>13, <1>15
  <2>2. 0 \in S
    <3>1. i \in 1..k /\ (i + 1) + 0 = i + 1
      BY <1>12, <1>18
    <3> QED BY <2>1, <3>1
  <2>3. ASSUME NEW m \in Nat, m \in S  PROVE m + 1 \in S
    <3>1. SUFFICES ASSUME (i + 1) + (m + 1) \in 1..(k + 1)  PROVE H((i + 1) + (m + 1)) < H(i)
      OBVIOUS
    <3>2. (i + 1) + m \in 1..k /\ (i + 1) + m \in 1..(k + 1) /\ ((i + 1) + m) + 1 = (i + 1) + (m + 1)
      BY <1>12, <3>1
    <3>3. H((i + 1) + m) < H(i) /\ H((i + 1) + (m + 1)) < H((i + 1) + m)
      BY <2>1, <2>3, <3>2
    <3>4. H((i + 1) + m) \in Nat /\ H((i + 1) + (m + 1)) \in Nat /\ H(i) \in Nat
      BY <1>7, <1>13, <3>1, <3>2
    <3> HIDE DEF H
    <3> QED BY <3>3, <3>4
  <2> HIDE DEF S
  <2>4. \A m \in Nat : m \in S
    BY <2>2, <2>3, Induction
  <2>5. j - (i + 1) \in Nat /\ (i + 1) + (j - (i + 1)) = j
    BY <1>12, <1>18
  <2> QED BY <2>4, <2>5 DEF S
<1>19. ASSUME NEW i \in 1..(k + 1), NEW j \in 1..(k + 1), cur[i] = cur[j]  PROVE i = j
  <2>1. H(i) = H(j) /\ H(i) \in Nat
    BY <1>7, <1>13, <1>19
  <2>2. ~(i < j) /\ ~(j < i)
    <3>1. i < j => H(j) < H(i)
      BY <1>18
    <3>2. j < i => H(i) < H(j)
      BY <1>18
    <3> HIDE DEF H
    <3> QED BY <2>1, <3>1, <3>2
  <2> QED BY <1>12, <2>2
<1>20. Chain(t) = [n \in 1..k |-> cur[n]]
  BY <1>2, <1>11, <1>15 DEF T
<1> HIDE DEF cur
<1>21. Leads(cur, k, t)
  BY <1>12, <1>14, <1>16, <1>17, <1>19 DEF Leads, N
<1> QED BY <1>20, <1>21

-----------------------------------------------------------------------------
(* What a path costs.                                                       *)

\* The cost of the path p of n nodes up to each of them.
Costs(c, g, p, n) ==
  /\ c \in [1..n -> Nat] /\ c[1] = 0
  /\ \A i \in 1..(n - 1) : c[i + 1] = c[i] + g[p[i]][p[i + 1]]

\* The cost of a path, as the abstract search adds it up, is the last of its costs.
LEMMA CostIs ==
  ASSUME NEW g, NEW n \in Nat, n # 0, NEW p \in [1..n -> Tag], NEW c, Costs(c, g, p, n)
  PROVE  Search!CostOf(g, p) = c[n]
<1> DEFINE Eq(f) == f = [i \in DOMAIN p |-> IF i = 1 THEN 0 ELSE f[i - 1] + g[p[i - 1]][p[i]]]
           e == CHOOSE f : Eq(f)
<1>1. DOMAIN p = 1..n /\ Len(p) = n
  <2>1. p \in Seq(Tag)
    OBVIOUS
  <2>2. DOMAIN p = 1..n /\ DOMAIN p = 1..Len(p) /\ Len(p) \in Nat
    BY <2>1, LenProperties
  <2> QED BY <2>2
<1>2. Search!CostOf(g, p) = e[n]
  BY <1>1 DEF Search!CostOf
<1>3. Eq(c)
  <2> DEFINE rhs == [i \in 1..n |-> IF i = 1 THEN 0 ELSE c[i - 1] + g[p[i - 1]][p[i]]]
  <2>1. c = [i \in 1..n |-> c[i]]
    BY DEF Costs
  <2>2. ASSUME NEW i \in 1..n  PROVE c[i] = IF i = 1 THEN 0 ELSE c[i - 1] + g[p[i - 1]][p[i]]
    <3>1. CASE i = 1
      BY <3>1 DEF Costs
    <3>2. CASE i # 1
      <4>1. i - 1 \in 1..(n - 1) /\ (i - 1) + 1 = i
        BY <3>2
      <4>2. c[(i - 1) + 1] = c[i - 1] + g[p[i - 1]][p[(i - 1) + 1]]
        BY <4>1 DEF Costs
      <4> QED BY <3>2, <4>1, <4>2
    <3> QED BY <3>1, <3>2
  <2>3. c = rhs
    BY <2>1, <2>2
  <2> QED BY <1>1, <2>3
<1> HIDE DEF Eq
<1>4. Eq(e)
  BY <1>3
<1> HIDE DEF e
<1>5. \A i \in 1..n : e[i] = IF i = 1 THEN 0 ELSE e[i - 1] + g[p[i - 1]][p[i]]
  BY <1>1, <1>4 DEF Eq
<1>6. \A i \in 1..n : c[i] = IF i = 1 THEN 0 ELSE c[i - 1] + g[p[i - 1]][p[i]]
  BY <1>1, <1>3 DEF Eq
<1> DEFINE S == { m \in Nat : m + 1 \in 1..n => e[m + 1] = c[m + 1] }
<1>7. 0 \in S
  BY <1>5, <1>6
<1>8. ASSUME NEW m \in Nat, m \in S  PROVE m + 1 \in S
  <2>1. SUFFICES ASSUME (m + 1) + 1 \in 1..n  PROVE e[(m + 1) + 1] = c[(m + 1) + 1]
    OBVIOUS
  <2>2. m + 1 \in 1..n /\ ((m + 1) + 1) - 1 = m + 1 /\ (m + 1) + 1 # 1
    BY <2>1
  <2>3. e[m + 1] = c[m + 1]
    BY <1>8, <2>2
  <2>4. e[(m + 1) + 1] = e[m + 1] + g[p[m + 1]][p[(m + 1) + 1]]
    BY <1>5, <2>1, <2>2
  <2>5. c[(m + 1) + 1] = c[m + 1] + g[p[m + 1]][p[(m + 1) + 1]]
    BY <1>6, <2>1, <2>2
  <2> QED BY <2>3, <2>4, <2>5
<1> HIDE DEF S
<1>9. \A m \in Nat : m \in S
  BY <1>7, <1>8, Induction
<1>10. n - 1 \in Nat /\ (n - 1) + 1 = n /\ n \in 1..n
  OBVIOUS
<1>11. e[n] = c[n]
  BY <1>9, <1>10 DEF S
<1> QED BY <1>2, <1>11

\* A path has such costs, up to each of its nodes.
LEMMA CostsExist ==
  ASSUME NEW g, NEW n \in Nat, n # 0, NEW p \in [1..n -> Tag],
         \A i \in 1..(n - 1) : g[p[i]][p[i + 1]] \in Nat
  PROVE  \E c : Costs(c, g, p, n)
<1> DEFINE k == n - 1
           F == [a \in Nat \X Nat |-> IF a[1] \in 1..k THEN a[2] + g[p[a[1]]][p[a[1] + 1]] ELSE 0]
<1>1. k \in Nat /\ k + 1 = n
  OBVIOUS
<1>2. F \in [Nat \X Nat -> Nat]
  <2>1. ASSUME NEW a \in Nat \X Nat
        PROVE  (IF a[1] \in 1..k THEN a[2] + g[p[a[1]]][p[a[1] + 1]] ELSE 0) \in Nat
    <3>1. CASE a[1] \in 1..k
      <4>1. a[2] \in Nat /\ g[p[a[1]]][p[a[1] + 1]] \in Nat
        BY <3>1
      <4> QED BY <3>1, <4>1
    <3> QED BY <3>1
  <2> QED BY <2>1
<1>3. \A i \in 1..k, x \in Nat : F[<<i, x>>] = x + g[p[i]][p[i + 1]]
  <2> TAKE i \in 1..k, x \in Nat
  <2>1. <<i, x>> \in Nat \X Nat /\ <<i, x>>[1] = i /\ <<i, x>>[2] = x
    OBVIOUS
  <2> QED BY <2>1
<1> HIDE DEF F, k
<1>4. PICK f : Iteration(f, Nat, k, 0, F)
  BY <1>1, <1>2, Iterates
<1>5. f \in [0..k -> Nat] /\ f[0] = 0 /\ \A i \in 1..k : f[i] = F[<<i, f[i - 1]>>]
  BY <1>4 DEF Iteration
<1> DEFINE c == [i \in 1..n |-> f[i - 1]]
<1>6. \A i \in 1..n : i - 1 \in 0..k
  BY <1>1
<1>7. c \in [1..n -> Nat]
  BY <1>5, <1>6
<1>8. c[1] = 0
  BY <1>5
<1>9. ASSUME NEW i \in 1..(n - 1)  PROVE c[i + 1] = c[i] + g[p[i]][p[i + 1]]
  <2>1. i \in 1..n /\ i + 1 \in 1..n /\ i \in 1..k /\ (i + 1) - 1 = i /\ i - 1 \in 0..k
    BY <1>1
  <2>2. c[i + 1] = f[i] /\ c[i] = f[i - 1]
    BY <2>1
  <2>3. f[i] = F[<<i, f[i - 1]>>] /\ f[i - 1] \in Nat
    BY <1>5, <2>1
  <2> HIDE DEF c
  <2> QED BY <1>3, <2>1, <2>2, <2>3
<1> HIDE DEF c
<1>10. Costs(c, g, p, n)
  BY <1>7, <1>8, <1>9 DEF Costs
<1> QED BY <1>10

-----------------------------------------------------------------------------
(* The search.                                                              *)

\* d is the cost of the best way yet to every node.
Labels(d) ==
  /\ d \in [Tag -> Nat] /\ d[from] = 0
  /\ \A e \in Entries(Frontier) : d[e[1]] = e[2]
  /\ \A t \in DOMAIN previous : /\ previous[t] \in DOMAIN graph /\ t \in DOMAIN graph[previous[t]]
                                /\ d[t] = d[previous[t]] + graph[previous[t]][t]

\* What is explored is no longer queued, and everything starts with the start.
Apart ==
  /\ explored \cap DOMAIN index = {}
  /\ DOMAIN index \subseteq DOMAIN previous \cup {from}
  /\ from \in explored \/ (explored = {} /\ todo = {} /\ DOMAIN index = {from} /\ DOMAIN previous = {})
  /\ goal = "path" => to \notin explored

\* Nodes are explored in the order of their cost.
Outwards(d) == \A u \in explored, t \in DOMAIN index : d[u] <= d[t]

\* The node whose links are being visited was the last to be explored.
Visiting(d) ==
  todo # {} =>
    /\ current[1] \in explored /\ current[1] \in DOMAIN graph
    /\ todo \subseteq DOMAIN graph[current[1]]
    /\ current[2] = d[current[1]] /\ \A u \in explored : d[u] <= current[2]

\* No link that was visited leads to a node more cheaply than is known.
Closed(d) ==
  \A u \in explored : u \in DOMAIN graph =>
    \A v \in DOMAIN graph[u] :
      (v \in todo /\ u = current[1]) \/ (v \in explored \cup DOMAIN index /\ d[v] <= d[u] + graph[u][v])

\* What the search has reached, and for what.
Reach(d) == Labels(d) /\ Apart /\ Outwards(d) /\ Visiting(d) /\ Closed(d)

\* The inductive invariant of the search.
SearchInv ==
  /\ Weighted(graph) /\ from \in Tag /\ to \in Tag /\ goal \in {"path", "tree"}
  /\ FrontierOK(Frontier)
  /\ \E h : Back(h)
  /\ Searching => \E d : Reach(d)

\* A search starts in it.
LEMMA SearchStarts ==
  ASSUME SearchInit
  PROVE  SearchInv
<1>1. Weighted(graph) /\ from \in Tag /\ to \in Tag /\ goal \in {"path", "tree"}
  <2>1. \A q \in Query : q[1] \in Tag /\ q[2] \in Tag
    BY SearchAssumption
  <2>2. graph \in Graph /\ goal \in {"path", "tree"} /\ (\E q \in Query : from = q[1]) /\ (\E q \in Query : to = q[2])
    BY DEF SearchInit
  <2> QED BY <2>1, <2>2, SearchAssumption
<1>2. queue = <<<<from, 0>>>> /\ index = [t \in {from} |-> 1] /\ explored = {} /\ todo = {} /\ DOMAIN previous = {}
  <2>1. queue = <<<<from, 0>>>> /\ index = [t \in {from} |-> 1] /\ explored = {} /\ todo = {} /\ previous = <<>>
    BY DEF SearchInit
  <2>2. DOMAIN <<>> = {}
    OBVIOUS
  <2> QED BY <2>1, <2>2
<1>3. queue \in Seq(Tag \X Nat) /\ Len(queue) = 1 /\ queue[1] = <<from, 0>> /\ queue[1][1] = from
  BY <1>1, <1>2
<1>4. \A i \in 1..Len(queue) : i = 1
  BY <1>3
<1>5. 1 \in 1..Len(queue)
  BY <1>3
<1>6. Entries(Frontier) = {<<from, 0>>}
  BY <1>3, <1>4, <1>5 DEF Entries, Frontier
<1>7. FrontierOK(Frontier)
  <2>1. \A i, j \in 1..Len(queue) : ~(i < j)
    BY <1>3
  <2>2. DOMAIN index = { queue[i][1] : i \in 1..Len(queue) }
    BY <1>2, <1>3, <1>4, <1>5
  <2>3. \A i \in 1..Len(queue) : index[queue[i][1]] = i
    BY <1>2, <1>3, <1>4
  <2> QED BY <1>3, <2>1, <2>2, <2>3 DEF FrontierOK, Frontier, Ordered
<1>8. \E h : Back(h)
  BY <1>1, <1>2 DEF Back
<1>9. \E d : Reach(d)
  <2> DEFINE d == [t \in Tag |-> 0]
  <2>1. Labels(d)
    BY <1>1, <1>2, <1>6 DEF Labels
  <2>2. Apart
    BY <1>2 DEF Apart
  <2>3. Outwards(d) /\ Visiting(d) /\ Closed(d)
    BY <1>2 DEF Outwards, Visiting, Closed
  <2> HIDE DEF d
  <2> QED BY <2>1, <2>2, <2>3 DEF Reach
<1> QED BY <1>1, <1>7, <1>8, <1>9 DEF SearchInv

\* What the frontier holds, of the variables.
LEMMA Queued ==
  ASSUME FrontierOK(Frontier)
  PROVE  /\ Entries(Frontier) \subseteq Tag \X Nat
         /\ \A t : t \in DOMAIN index <=> \E e \in Entries(Frontier) : e[1] = t
         /\ \A t \in DOMAIN index : queue[index[t]] \in Entries(Frontier) /\ queue[index[t]][1] = t
         /\ \A e1, e2 \in Entries(Frontier) : e1[1] = e2[1] => e1 = e2
         /\ DOMAIN index \subseteq Tag
         /\ queue = <<>> => DOMAIN index = {}
<1> DEFINE f == Frontier
<1>1. f.queue = queue /\ f.index = index
  BY DEF Frontier
<1> HIDE DEF f
<1>2. FrontierOK(f)
  BY DEF f
<1>3. /\ Entries(f) \subseteq Tag \X Nat
      /\ \A e \in Entries(f) : e[1] \in DOMAIN f.index
      /\ \A t \in DOMAIN f.index : <<t, f.queue[f.index[t]][2]>> \in Entries(f) /\ f.queue[f.index[t]] = <<t, f.queue[f.index[t]][2]>>
      /\ \A e1, e2 \in Entries(f) : e1[1] = e2[1] => e1 = e2
      /\ f.queue = <<>> <=> Entries(f) = {}
  BY <1>2, EntryOf
<1>4. \A t \in DOMAIN index : queue[index[t]] \in Entries(f) /\ queue[index[t]][1] = t
  <2> TAKE t \in DOMAIN index
  <2>1. queue[index[t]] = <<t, queue[index[t]][2]>> /\ <<t, queue[index[t]][2]>> \in Entries(f)
    BY <1>1, <1>3
  <2>2. <<t, queue[index[t]][2]>>[1] = t
    OBVIOUS
  <2> QED BY <2>1, <2>2
<1>5. \A t : t \in DOMAIN index <=> \E e \in Entries(f) : e[1] = t
  BY <1>1, <1>3, <1>4
<1>6. \A e \in Entries(f) : e[1] \in Tag
  BY <1>3
<1>7. DOMAIN index \subseteq Tag
  BY <1>5, <1>6
<1>8. queue = <<>> => DOMAIN index = {}
  BY <1>1, <1>3, <1>5
<1> QED BY <1>3, <1>4, <1>5, <1>7, <1>8 DEF f

\* A link that is visited keeps it.
LEMMA RelaxKeeps ==
  ASSUME SearchInv, NEW n \in Tag, Relax(n)
  PROVE  SearchInv'
<1> DEFINE u0 == current[1]
           cost == current[2] + graph[u0][n]
           better == n \notin explored /\ Cheaper(Frontier, n, cost)
<1>1. /\ Searching /\ n \in todo /\ todo' = todo \ {n}
      /\ graph' = graph /\ goal' = goal /\ from' = from /\ to' = to
      /\ explored' = explored /\ current' = current /\ found' = found
  BY DEF Relax, search
<1>2. Searching' /\ Weighted(graph) /\ Weighted(graph') /\ from \in Tag /\ to \in Tag /\ goal \in {"path", "tree"}
  BY <1>1 DEF SearchInv, Searching
<1>3. PICK d : Reach(d)
  BY <1>1 DEF SearchInv
<1>4. PICK h : Back(h)
  BY DEF SearchInv
<1>5. /\ u0 \in explored /\ u0 \in DOMAIN graph /\ todo \subseteq DOMAIN graph[u0]
      /\ current[2] = d[u0] /\ \A u \in explored : d[u] <= current[2]
  BY <1>1, <1>3 DEF Reach, Visiting
<1>6. d \in [Tag -> Nat] /\ d[from] = 0 /\ (\A e \in Entries(Frontier) : d[e[1]] = e[2])
  BY <1>3 DEF Reach, Labels
<1>7. from \in explored /\ explored \cap DOMAIN index = {} /\ DOMAIN index \subseteq DOMAIN previous \cup {from}
      /\ (goal = "path" => to \notin explored)
  BY <1>1, <1>3 DEF Reach, Apart
<1>8. explored \subseteq Tag /\ from \notin DOMAIN previous
  BY <1>4 DEF Back
<1>9. FrontierOK(Frontier)
  BY DEF SearchInv
<1>10. /\ Entries(Frontier) \subseteq Tag \X Nat
       /\ \A t : t \in DOMAIN index <=> \E e \in Entries(Frontier) : e[1] = t
       /\ \A t \in DOMAIN index : queue[index[t]] \in Entries(Frontier) /\ queue[index[t]][1] = t
       /\ DOMAIN index \subseteq Tag
  BY <1>9, Queued
<1>11. \A u \in explored, t \in DOMAIN index : d[u] <= d[t]
  BY <1>3 DEF Reach, Outwards
<1>12. \A t \in DOMAIN previous : /\ previous[t] \in DOMAIN graph /\ t \in DOMAIN graph[previous[t]]
                                  /\ d[t] = d[previous[t]] + graph[previous[t]][t]
  BY <1>3 DEF Reach, Labels
<1>13. \A u \in explored : u \in DOMAIN graph =>
         \A v \in DOMAIN graph[u] :
           (v \in todo /\ u = u0) \/ (v \in explored \cup DOMAIN index /\ d[v] <= d[u] + graph[u][v])
  BY <1>3 DEF Reach, Closed
<1>14. \A t \in DOMAIN previous : t \in Tag /\ previous[t] \in explored /\ (t \in explored => h[previous[t]] < h[t])
  BY <1>4 DEF Back
<1>15. \A u \in DOMAIN graph : DOMAIN graph[u] \subseteq Tag /\ \A v \in DOMAIN graph[u] : graph[u][v] \in Nat
  BY <1>2 DEF Weighted
<1>16. graph[u0][n] \in Nat /\ d[u0] \in Nat /\ cost \in Nat /\ cost >= current[2] /\ n \in DOMAIN graph[u0] /\ cost = d[u0] + graph[u0][n]
  BY <1>1, <1>5, <1>6, <1>8, <1>15
<1>17. Cheaper(Frontier, n, cost) <=> (n \notin DOMAIN index \/ cost < d[n])
  <2>1. Frontier.queue = queue /\ Frontier.index = index
    BY DEF Frontier
  <2>2. n \in DOMAIN index => queue[index[n]][2] = d[n]
    BY <1>6, <1>10
  <2> QED BY <2>1, <2>2 DEF Cheaper
<1>18. CASE ~better
  <2>1. queue' = queue /\ index' = index /\ previous' = previous
    BY <1>18 DEF Relax
  <2>2. Frontier' = Frontier /\ Back(h)'
    BY <1>1, <1>4, <2>1 DEF Frontier, Back
  <2>3. Labels(d)' /\ Apart' /\ Outwards(d)'
    <3>1. Labels(d)'
      BY <1>1, <1>6, <1>12, <2>1, <2>2 DEF Labels
    <3>2. Apart'
      BY <1>1, <1>7, <2>1 DEF Apart
    <3>3. Outwards(d)'
      BY <1>1, <1>11, <2>1 DEF Outwards
    <3> QED BY <3>1, <3>2, <3>3
  <2>4. Visiting(d)'
    BY <1>1, <1>5, <2>1 DEF Visiting
  <2>5. n \in explored \cup DOMAIN index /\ d[n] <= d[u0] + graph[u0][n]
    <3>1. CASE n \in explored
      <4>1. d[n] <= current[2] /\ d[n] \in Nat
        BY <1>5, <1>6, <3>1
      <4> QED BY <1>5, <1>16, <3>1, <4>1
    <3>2. CASE n \notin explored
      <4>1. n \in DOMAIN index /\ ~(cost < d[n]) /\ d[n] \in Nat
        BY <1>6, <1>17, <1>18, <3>2
      <4> QED BY <1>16, <4>1
    <3> QED BY <3>1, <3>2
  <2>6. Closed(d)'
    <3>1. SUFFICES ASSUME NEW u \in explored, u \in DOMAIN graph, NEW v \in DOMAIN graph[u]
          PROVE  (v \in todo' /\ u = u0) \/ (v \in explored \cup DOMAIN index /\ d[v] <= d[u] + graph[u][v])
      BY <1>1, <2>1 DEF Closed
    <3>2. CASE v = n /\ u = u0
      BY <2>5, <3>2
    <3>3. CASE ~(v = n /\ u = u0)
      BY <1>1, <1>13, <3>1, <3>3
    <3> QED BY <3>2, <3>3
  <2>7. Reach(d)'
    BY <2>3, <2>4, <2>6 DEF Reach
  <2> QED BY <1>1, <1>2, <1>9, <2>2, <2>7 DEF SearchInv
<1>19. CASE better
  <2> DEFINE g == InsertOrDecrease(Frontier, n, cost)
             rest == { e \in Entries(Frontier) : e[1] # n }
  <2>1. /\ queue' = g.queue /\ index' = g.index
        /\ previous' = [u \in DOMAIN previous \cup {n} |-> IF u = n THEN u0 ELSE previous[u]]
    BY <1>19 DEF Relax
  <2>2. FrontierOK(g) /\ Entries(g) = rest \cup {<<n, cost>>}
    <3>1. Tag \subseteq Int /\ cost \in Nat
      BY <1>16, SearchAssumption
    <3> HIDE DEF cost
    <3> QED BY <1>9, <3>1, DecreaseKeeps
  <2>3. FrontierOK(Frontier') /\ Entries(Frontier') = Entries(g)
    <3>1. Frontier'.queue = g.queue /\ Frontier'.index = g.index
      BY <2>1 DEF Frontier
    <3> HIDE DEF g
    <3> QED BY <2>2, <3>1 DEF FrontierOK, Entries
  <2>4. DOMAIN index' = DOMAIN index \cup {n}
    <3>1. \A t : t \in DOMAIN index' <=> \E e \in Entries(Frontier') : e[1] = t
      <4>1. /\ \A e \in Entries(g) : e[1] \in DOMAIN g.index
            /\ \A t \in DOMAIN g.index : <<t, g.queue[g.index[t]][2]>> \in Entries(g)
        <5> HIDE DEF g
        <5> QED BY <2>2, EntryOf
      <4>2. \A t \in DOMAIN g.index : \E e \in Entries(g) : e[1] = t
        <5> TAKE t \in DOMAIN g.index
        <5>1. <<t, g.queue[g.index[t]][2]>>[1] = t
          OBVIOUS
        <5> HIDE DEF g
        <5> QED BY <4>1, <5>1
      <4> HIDE DEF g
      <4> QED BY <2>1, <2>3, <4>1, <4>2
    <3>2. \A e \in Entries(Frontier') : e \in rest \/ e = <<n, cost>>
      BY <2>2, <2>3
    <3>3. <<n, cost>> \in Entries(Frontier') /\ rest \subseteq Entries(Frontier') /\ <<n, cost>>[1] = n
      BY <2>2, <2>3
    <3> HIDE DEF g, cost, better
    <3>4. ASSUME NEW t \in DOMAIN index'  PROVE t \in DOMAIN index \cup {n}
      <4>1. PICK e \in Entries(Frontier') : e[1] = t
        BY <3>1
      <4> QED BY <1>10, <3>2, <3>3, <4>1
    <3>5. ASSUME NEW t \in DOMAIN index  PROVE t \in DOMAIN index'
      <4>1. PICK e \in Entries(Frontier) : e[1] = t
        BY <1>10
      <4>2. CASE t = n
        BY <3>1, <3>3, <4>2
      <4>3. CASE t # n
        <5>1. e \in rest
          BY <4>1, <4>3
        <5> QED BY <3>1, <3>3, <4>1, <5>1
      <4> QED BY <4>2, <4>3
    <3>6. n \in DOMAIN index'
      BY <3>1, <3>3
    <3> QED BY <3>4, <3>5, <3>6
  <2>5. n \notin explored /\ (n \notin DOMAIN index \/ cost < d[n]) /\ n # from /\ n # u0
    BY <1>5, <1>7, <1>17, <1>19
  <2>6. PICK c : c \in [Tag -> Nat] /\ c[n] = cost /\ \A t \in Tag : t # n => c[t] = d[t]
    <3>1. [d EXCEPT ![n] = cost] \in [Tag -> Nat]
      BY <1>6, <1>16
    <3>2. [d EXCEPT ![n] = cost][n] = cost /\ \A t \in Tag : t # n => [d EXCEPT ![n] = cost][t] = d[t]
      BY <1>6
    <3> QED BY <3>1, <3>2
  <2> HIDE DEF g
  <2>7. \A t \in explored : c[t] = d[t] /\ d[t] \in Nat /\ t # n
    BY <1>6, <1>8, <2>5, <2>6
  <2>8. Back(h)'
    <3>1. DOMAIN previous' = DOMAIN previous \cup {n}
      BY <2>1
    <3>2. \A t \in DOMAIN previous' : t \in Tag /\ previous'[t] \in explored /\ (t \in explored => h[previous'[t]] < h[t])
      <4> TAKE t \in DOMAIN previous'
      <4>1. CASE t = n
        BY <1>5, <2>1, <2>5, <4>1
      <4>2. CASE t # n
        BY <1>14, <2>1, <4>2
      <4> QED BY <4>1, <4>2
    <3>3. /\ from' \in Tag /\ from' \notin DOMAIN previous' /\ DOMAIN previous' \subseteq Tag
      BY <1>1, <1>2, <1>8, <1>14, <2>5, <3>1
    <3>4. explored' \subseteq Tag /\ explored' \subseteq DOMAIN previous' \cup {from'}
          /\ \A t \in explored' : h[t] \in 0..(Cardinality(explored') - 1)
      BY <1>1, <1>4, <3>1 DEF Back
    <3> QED BY <1>1, <3>2, <3>3, <3>4 DEF Back
  <2>9. Labels(c)'
    <3>1. c[from] = 0
      BY <1>2, <1>6, <2>5, <2>6
    <3>2. ASSUME NEW e \in Entries(Frontier')  PROVE c[e[1]] = e[2]
      <4>1. CASE e = <<n, cost>>
        BY <2>6, <4>1
      <4>2. CASE e \in rest
        <5>1. e[1] \in Tag /\ e[1] # n /\ d[e[1]] = e[2]
          BY <1>6, <1>10, <4>2
        <5> QED BY <2>6, <5>1
      <4> QED BY <2>2, <2>3, <4>1, <4>2
    <3>3. ASSUME NEW t \in DOMAIN previous'
          PROVE  /\ previous'[t] \in DOMAIN graph /\ t \in DOMAIN graph[previous'[t]]
                 /\ c[t] = c[previous'[t]] + graph[previous'[t]][t]
      <4>1. CASE t = n
        <5>1. previous'[t] = u0
          BY <2>1, <4>1
        <5>2. c[u0] = d[u0]
          BY <1>5, <2>7
        <5> QED BY <1>5, <1>16, <2>6, <4>1, <5>1, <5>2
      <4>2. CASE t # n
        <5>1. t \in DOMAIN previous /\ previous'[t] = previous[t] /\ t \in Tag /\ previous[t] \in explored
          BY <1>14, <2>1, <4>2
        <5>2. c[t] = d[t] /\ c[previous[t]] = d[previous[t]]
          BY <2>6, <2>7, <4>2, <5>1
        <5> QED BY <1>12, <5>1, <5>2
      <4> QED BY <4>1, <4>2
    <3> QED BY <1>1, <2>6, <3>1, <3>2, <3>3 DEF Labels
  <2>10. Apart'
    <3>1. DOMAIN previous' = DOMAIN previous \cup {n}
      BY <2>1
    <3> QED BY <1>1, <1>7, <2>4, <2>5, <3>1 DEF Apart
  <2>11. \A u \in explored : c[u] <= current[2]
    BY <1>5, <2>7
  <2>12. Outwards(c)'
    <3>1. SUFFICES ASSUME NEW u \in explored, NEW t \in DOMAIN index \cup {n}  PROVE c[u] <= c[t]
      BY <1>1, <2>4 DEF Outwards
    <3>2. c[u] = d[u] /\ d[u] \in Nat /\ c[u] <= current[2]
      BY <2>7, <2>11
    <3>3. CASE t = n
      BY <1>5, <1>16, <2>6, <3>2, <3>3
    <3>4. CASE t # n
      BY <1>10, <1>11, <2>6, <3>2, <3>4
    <3> QED BY <3>3, <3>4
  <2>13. Visiting(c)'
    <3>1. c[u0] = d[u0]
      BY <1>5, <2>7
    <3> QED BY <1>1, <1>5, <2>11, <3>1 DEF Visiting
  <2>14. Closed(c)'
    <3>1. SUFFICES ASSUME NEW u \in explored, u \in DOMAIN graph, NEW v \in DOMAIN graph[u]
          PROVE  (v \in todo' /\ u = u0) \/ (v \in explored \cup DOMAIN index \cup {n} /\ c[v] <= c[u] + graph[u][v])
      BY <1>1, <2>4 DEF Closed
    <3>2. c[u] = d[u] /\ d[u] \in Nat /\ graph[u][v] \in Nat /\ v \in Tag
      BY <1>15, <2>7, <3>1
    <3>3. CASE v = n
      <4>1. c[v] = cost
        BY <2>6, <3>3
      <4>2. CASE u = u0
        BY <1>16, <3>2, <3>3, <4>1, <4>2
      <4>3. CASE u # u0
        <5>1. n \in explored \cup DOMAIN index /\ d[n] <= d[u] + graph[u][n]
          BY <1>13, <3>1, <3>3, <4>3
        <5>2. cost < d[n] /\ d[n] \in Nat
          BY <1>6, <2>5, <5>1
        <5> HIDE DEF cost
        <5> QED BY <1>16, <3>2, <3>3, <4>1, <5>1, <5>2
      <4> QED BY <4>2, <4>3
    <3>4. CASE v # n
      <4>1. c[v] = d[v]
        BY <2>6, <3>2, <3>4
      <4>2. v \in todo => v \in todo'
        BY <1>1, <3>4
      <4> QED BY <1>13, <3>1, <3>2, <4>1, <4>2
    <3> QED BY <3>3, <3>4
  <2>15. Reach(c)'
    BY <2>9, <2>10, <2>12, <2>13, <2>14 DEF Reach
  <2>16. FrontierOK(Frontier)'
    BY <2>3
  <2>17. (\E x : Back(x))'
    BY <2>8
  <2>18. (\E x : Reach(x))'
    BY <2>15
  <2>19. Weighted(graph)' /\ from' \in Tag /\ to' \in Tag /\ goal' \in {"path", "tree"}
    BY <1>1, <1>2
  <2> QED BY <2>16, <2>17, <2>18, <2>19 DEF SearchInv
<1> QED BY <1>18, <1>19

\* What Pop takes from the frontier.
LEMMA PopTakes ==
  ASSUME SearchInv, Pop
  PROVE  LET e == Last(queue) IN
         /\ e \in Entries(Frontier) /\ e[1] \in DOMAIN index /\ e[1] \in Tag /\ e[2] \in Nat
         /\ \A x \in Entries(Frontier) : e[2] <= x[2]
         /\ FrontierOK(Frontier') /\ Entries(Frontier') = Entries(Frontier) \ {e}
         /\ DOMAIN index' = DOMAIN index \ {e[1]}
<1> DEFINE f == Frontier
           e == Last(queue)
           g == [queue |-> Front(f.queue), index |-> Without(f.index, e[1])]
<1>1. f.queue = queue /\ f.index = index /\ FrontierOK(f)
  BY DEF Frontier, SearchInv
<1>2. queue # <<>> /\ queue' = Front(queue) /\ index' = Without(index, e[1])
  BY DEF Pop
<1>3. FrontierOK(g) /\ e \in Entries(f) /\ Entries(g) = Entries(f) \ {e} /\ \A x \in Entries(f) : e[2] <= x[2]
  <2>1. Tag \subseteq Int /\ f.queue # <<>> /\ e = Last(f.queue)
    BY <1>1, <1>2, SearchAssumption
  <2> HIDE DEF f, e
  <2> QED BY <1>1, <2>1, PopKeeps
<1>4. Frontier' = g
  BY <1>1, <1>2 DEF Frontier
<1>5. DOMAIN index' = DOMAIN index \ {e[1]}
  BY <1>2 DEF Without
<1>6. e[1] \in DOMAIN index /\ e[1] \in Tag /\ e[2] \in Nat
  <2>1. Entries(f) \subseteq Tag \X Nat /\ \A t : t \in DOMAIN index <=> \E x \in Entries(f) : x[1] = t
    BY <1>1, Queued
  <2> HIDE DEF e, f
  <2>2. e \in Tag \X Nat
    BY <1>3, <2>1
  <2> QED BY <1>3, <2>1, <2>2
<1> HIDE DEF e, g
<1> QED BY <1>3, <1>4, <1>5, <1>6 DEF e

\* So does what leaves the frontier, whether it ends the search or is explored.
LEMMA PopKeepsSearch ==
  ASSUME SearchInv, Pop
  PROVE  SearchInv'
<1> DEFINE e == Last(queue)
           t == e[1]
<1>1. /\ Searching /\ graph # <<>> /\ todo = {}
      /\ graph' = graph /\ goal' = goal /\ from' = from /\ to' = to /\ previous' = previous
  BY DEF Pop, search
<1>2. /\ e \in Entries(Frontier) /\ t \in DOMAIN index /\ t \in Tag /\ e[2] \in Nat
      /\ \A x \in Entries(Frontier) : e[2] <= x[2]
      /\ FrontierOK(Frontier') /\ Entries(Frontier') = Entries(Frontier) \ {e}
      /\ DOMAIN index' = DOMAIN index \ {t}
  BY PopTakes
<1> HIDE DEF e
<1>3. Weighted(graph)' /\ from' \in Tag /\ to' \in Tag /\ goal' \in {"path", "tree"}
  BY <1>1 DEF SearchInv
<1>4. FrontierOK(Frontier)'
  BY <1>2
<1>5. PICK d : Reach(d)
  BY <1>1 DEF SearchInv
<1>6. PICK h : Back(h)
  BY DEF SearchInv
<1>7. CASE goal = "path" /\ t = to
  <2>1. /\ found' = IF Chain(t) = <<>> THEN <<>> ELSE Chain(t) \o <<from>>
        /\ explored' = explored
    BY <1>7 DEF Pop, e
  <2>2. Back(h)'
    BY <1>1, <1>6, <2>1 DEF Back
  <2>3. Chain(t) \in Seq(Tag)
    <3>1. t \in DOMAIN previous \cup {from} /\ IsFiniteSet(Tag)
      BY <1>2, <1>5, SearchAssumption DEF Reach, Apart
    <3>2. PICK cur, k : Leads(cur, k, t) /\ Chain(t) = [n \in 1..k |-> cur[n]]
      BY <1>6, <3>1, ChainEnds
    <3>3. k \in Nat /\ \A n \in 1..k : cur[n] \in Tag
      BY <3>2 DEF Leads
    <3>4. [n \in 1..k |-> cur[n]] \in Seq(Tag)
      BY <3>3
    <3> QED BY <3>2, <3>4
  <2>4. found' \in Seq(Tag)
    <3>1. from \in Tag
      BY DEF SearchInv
    <3>2. Chain(t) \o <<from>> \in Seq(Tag) /\ <<>> \in Seq(Tag)
      BY <2>3, <3>1
    <3> QED BY <2>1, <3>2
  <2>5. ~Searching'
    BY <2>4, SearchAssumption DEF Searching
  <2>6. (\E x : Back(x))' /\ (Searching => \E x : Reach(x))'
    BY <2>2, <2>5
  <2> QED BY <1>3, <1>4, <2>6 DEF SearchInv
<1>8. CASE ~(goal = "path" /\ t = to)
  <2>1. /\ explored' = explored \cup {t} /\ current' = e /\ found' = found
        /\ todo' = IF t \in DOMAIN graph THEN DOMAIN graph[t] ELSE {}
    BY <1>8 DEF Pop, e
  <2>2. d \in [Tag -> Nat] /\ d[from] = 0 /\ (\A x \in Entries(Frontier) : d[x[1]] = x[2])
    BY <1>5 DEF Reach, Labels
  <2>3. t \notin explored /\ t \in DOMAIN previous \cup {from} /\ d[t] = e[2]
    BY <1>2, <1>5, <2>2 DEF Reach, Apart
  <2>4. explored \subseteq Tag /\ IsFiniteSet(explored) /\ Cardinality(explored) \in Nat
        /\ Cardinality(explored') = Cardinality(explored) + 1
    <3>1. explored \subseteq Tag /\ IsFiniteSet(Tag)
      BY <1>6, SearchAssumption DEF Back
    <3>2. IsFiniteSet(explored) /\ Cardinality(explored) \in Nat
      BY <3>1, FS_Subset, FS_CardinalityType
    <3> QED BY <2>1, <2>3, <3>1, <3>2, FS_AddElement
  <2>5. \A u \in DOMAIN previous : u \in Tag /\ previous[u] \in explored /\ (u \in explored => h[previous[u]] < h[u])
    BY <1>6 DEF Back
  <2>6. \A u \in explored : h[u] \in 0..(Cardinality(explored) - 1)
    BY <1>6 DEF Back
  <2>7. PICK y : y = [u \in Tag |-> IF u = t THEN Cardinality(explored) ELSE h[u]]
    OBVIOUS
  <2>8. y[t] = Cardinality(explored) /\ \A u \in explored : y[u] = h[u]
    BY <1>2, <2>3, <2>4, <2>7
  <2>9. Back(y)'
    <3>1. \A u \in explored' : y[u] \in 0..(Cardinality(explored') - 1)
      <4> TAKE u \in explored'
      <4>1. CASE u = t
        BY <2>4, <2>8, <4>1
      <4>2. CASE u # t
        <5>1. y[u] = h[u] /\ h[u] \in 0..(Cardinality(explored) - 1)
          BY <2>1, <2>6, <2>8, <4>2
        <5> QED BY <2>4, <5>1
      <4> QED BY <4>1, <4>2
    <3>2. ASSUME NEW u \in DOMAIN previous
          PROVE  previous[u] \in explored' /\ (u \in explored' => y[previous[u]] < y[u])
      <4>1. previous[u] \in explored /\ y[previous[u]] = h[previous[u]] /\ h[previous[u]] \in 0..(Cardinality(explored) - 1)
        BY <2>5, <2>6, <2>8
      <4>2. CASE u = t
        BY <2>1, <2>4, <2>8, <4>1, <4>2
      <4>3. CASE u # t
        <5>1. u \in explored' => u \in explored
          BY <2>1, <4>3
        <5> QED BY <2>1, <2>5, <2>8, <4>1, <5>1
      <4> QED BY <4>2, <4>3
    <3>3. /\ from \in Tag /\ from \notin DOMAIN previous /\ DOMAIN previous \subseteq Tag
          /\ explored' \subseteq Tag /\ explored' \subseteq DOMAIN previous \cup {from}
      BY <1>2, <1>6, <2>1, <2>3 DEF Back
    <3> QED BY <1>1, <3>1, <3>2, <3>3 DEF Back
  <2>10. Labels(d)'
    <3>1. \A x \in Entries(Frontier') : d[x[1]] = x[2]
      BY <1>2, <2>2
    <3>2. \A u \in DOMAIN previous : /\ previous[u] \in DOMAIN graph /\ u \in DOMAIN graph[previous[u]]
                                     /\ d[u] = d[previous[u]] + graph[previous[u]][u]
      BY <1>5 DEF Reach, Labels
    <3> QED BY <1>1, <2>2, <3>1, <3>2 DEF Labels
  <2>11. Apart'
    <3>1. explored' \cap DOMAIN index' = {} /\ DOMAIN index' \subseteq DOMAIN previous \cup {from}
      BY <1>2, <1>5, <2>1 DEF Reach, Apart
    <3>2. from \in explored'
      BY <1>2, <1>5, <2>1 DEF Reach, Apart
    <3>3. goal = "path" => to \notin explored'
      BY <1>5, <1>8, <2>1 DEF Reach, Apart
    <3> QED BY <1>1, <3>1, <3>2, <3>3 DEF Apart
  <2>12. \A x \in DOMAIN index : d[t] <= d[x] /\ x \in Tag
    <3> TAKE x \in DOMAIN index
    <3>1. PICK z \in Entries(Frontier) : z[1] = x
      BY Queued DEF SearchInv
    <3>2. x \in Tag
      BY Queued DEF SearchInv
    <3> QED BY <1>2, <2>2, <2>3, <3>1, <3>2
  <2>13. \A u \in explored : d[u] <= d[t]
    BY <1>2, <1>5 DEF Reach, Outwards
  <2>14. \A u \in explored' : d[u] <= d[t] /\ d[u] \in Nat
    BY <1>2, <2>1, <2>2, <2>4, <2>13
  <2>15. Outwards(d)'
    <3>1. SUFFICES ASSUME NEW u \in explored', NEW x \in DOMAIN index'  PROVE d[u] <= d[x]
      BY DEF Outwards
    <3>2. d[t] <= d[x] /\ d[x] \in Nat /\ d[t] \in Nat
      BY <1>2, <2>2, <2>12
    <3> QED BY <2>14, <3>2
  <2>16. Visiting(d)'
    BY <1>1, <2>1, <2>3, <2>14 DEF Visiting
  <2>17. Closed(d)'
    <3>1. SUFFICES ASSUME NEW u \in explored', u \in DOMAIN graph, NEW v \in DOMAIN graph[u]
          PROVE  (v \in todo' /\ u = current'[1]) \/ (v \in explored' \cup DOMAIN index' /\ d[v] <= d[u] + graph[u][v])
      BY <1>1 DEF Closed
    <3>2. CASE u = t
      BY <2>1, <3>1, <3>2
    <3>3. CASE u # t
      <4>1. u \in explored
        BY <2>1, <3>3
      <4>2. v \in explored \cup DOMAIN index /\ d[v] <= d[u] + graph[u][v]
        BY <1>1, <1>5, <3>1, <4>1 DEF Reach, Closed
      <4> QED BY <1>2, <2>1, <4>2
    <3> QED BY <3>2, <3>3
  <2>18. Reach(d)'
    BY <2>10, <2>11, <2>15, <2>16, <2>17 DEF Reach
  <2>19. (\E x : Back(x))' /\ (Searching => \E x : Reach(x))'
    BY <2>9, <2>18
  <2> QED BY <1>3, <1>4, <2>19 DEF SearchInv
<1> QED BY <1>7, <1>8

\* A step that ends the search without taking anything leaves the rest as it was.
LEMMA EndKeeps ==
  ASSUME SearchInv, ~Searching',
         UNCHANGED <<search, queue, index, explored, previous, current, todo>>
  PROVE  SearchInv'
<1>1. Frontier' = Frontier
  BY DEF Frontier
<1>2. PICK h : Back(h)
  BY DEF SearchInv
<1>3. Back(h)'
  BY <1>2 DEF Back, search
<1>4. (\E x : Back(x))'
  BY <1>3
<1> QED BY <1>1, <1>4 DEF SearchInv, search

-----------------------------------------------------------------------------
(* The answer.                                                              *)

\* p is a way of n nodes from a to b.
Way(p, n, g, a, b) ==
  /\ n \in 2..Cardinality(Tag) /\ p \in [1..n -> Tag] /\ p[1] = a /\ p[n] = b
  /\ \A i, j \in 1..n : p[i] = p[j] => i = j
  /\ \A i \in 1..(n - 1) : p[i] \in DOMAIN g /\ p[i + 1] \in DOMAIN g[p[i]]

\* A way has its length.
LEMMA WayLength ==
  ASSUME NEW n \in Nat, NEW p \in [1..n -> Tag]
  PROVE  Len(p) = n /\ DOMAIN p = 1..n
<1>1. p \in Seq(Tag)
  OBVIOUS
<1>2. DOMAIN p = 1..n /\ DOMAIN p = 1..Len(p) /\ Len(p) \in Nat
  BY <1>1, LenProperties
<1> QED BY <1>2

\* The module of the abstract search counts as this one does.
LEMMA SameCount == Search!Cardinality(Tag) = Cardinality(Tag)
BY DEF Search!Cardinality, Cardinality

\* The paths of the abstract search are the ways without repetition.
LEMMA PathsAreWays ==
  ASSUME IsFiniteSet(Tag), NEW g, NEW a \in Tag, NEW b \in Tag, NEW p
  PROVE  p \in Search!PathsIn(g, a, b) <=> \E n \in Nat : Way(p, n, g, a, b)
<1> DEFINE N == Cardinality(Tag)
<1>1. N \in Nat
  BY FS_CardinalityType
<1>2. Search!SimplePaths[a, b] =
        { q \in UNION { [1..n -> Tag] : n \in 2..N } :
            /\ q[1] = a /\ q[Len(q)] = b
            /\ \A i, j \in DOMAIN q : q[i] = q[j] => i = j }
  BY SameCount DEF Search!SimplePaths
<1>3. ASSUME p \in Search!PathsIn(g, a, b)  PROVE \E n \in Nat : Way(p, n, g, a, b)
  <2>1. /\ p \in Search!SimplePaths[a, b]
        /\ \A i \in 1..(Len(p) - 1) : p[i] \in DOMAIN g /\ p[i + 1] \in DOMAIN g[p[i]]
    BY <1>3 DEF Search!PathsIn
  <2>2. /\ p \in UNION { [1..n -> Tag] : n \in 2..N } /\ p[1] = a /\ p[Len(p)] = b
        /\ \A i, j \in DOMAIN p : p[i] = p[j] => i = j
    BY <1>2, <2>1
  <2>3. PICK n \in 2..N : p \in [1..n -> Tag]
    BY <2>2
  <2>4. n \in Nat /\ Len(p) = n /\ DOMAIN p = 1..n
    BY <2>3, WayLength
  <2> QED BY <2>1, <2>2, <2>3, <2>4 DEF Way
<1>4. ASSUME NEW n \in Nat, Way(p, n, g, a, b)  PROVE p \in Search!PathsIn(g, a, b)
  <2>1. n \in 2..N /\ p \in [1..n -> Tag] /\ Len(p) = n /\ DOMAIN p = 1..n
    BY <1>4, WayLength DEF Way
  <2>2. p \in Search!SimplePaths[a, b]
    BY <1>2, <1>4, <2>1 DEF Way
  <2> QED BY <1>4, <2>1, <2>2 DEF Way, Search!PathsIn
<1> QED BY <1>3, <1>4

\* What a cheapest way or the lack of any answers.
LEMMA CheapestAnswers ==
  ASSUME IsFiniteSet(Tag), NEW g, NEW a \in Tag, NEW b \in Tag, NEW n \in Nat, NEW p, Way(p, n, g, a, b),
         \A q, m : (m \in Nat /\ Way(q, m, g, a, b)) => Search!CostOf(g, p) <= Search!CostOf(g, q)
  PROVE  [i \in 1..n |-> p[(n + 1) - i]] \in Search!Answers(g, a, b)
<1>1. p \in Search!PathsIn(g, a, b)
  BY PathsAreWays
<1>2. \A q \in Search!PathsIn(g, a, b) : Search!CostOf(g, p) <= Search!CostOf(g, q)
  BY PathsAreWays
<1>3. p \in Search!ShortestPaths(g, a, b)
  BY <1>1, <1>2 DEF Search!ShortestPaths
<1>4. Search!Backwards(p) \in Search!Answers(g, a, b)
  BY <1>3 DEF Search!Answers
<1>5. Len(p) = n /\ DOMAIN p = 1..n
  BY WayLength DEF Way
<1>6. Search!Backwards(p) = [i \in 1..n |-> p[(n + 1) - i]]
  BY <1>5 DEF Search!Backwards
<1> QED BY <1>4, <1>6

\* Where there is no way, none is the answer.
LEMMA NoWayAnswers ==
  ASSUME IsFiniteSet(Tag), NEW g, NEW a \in Tag, NEW b \in Tag, \A q, m : ~(m \in Nat /\ Way(q, m, g, a, b))
  PROVE  <<>> \in Search!Answers(g, a, b)
<1>1. Search!PathsIn(g, a, b) = {}
  BY PathsAreWays
<1>2. Search!ShortestPaths(g, a, b) = {}
  BY <1>1 DEF Search!ShortestPaths
<1> QED BY <1>2 DEF Search!Answers

\* While no links wait to be visited, every way from the start has come to what is explored, for no
\* more than its own cost, or past something that is queued for no more.
LEMMA NothingIsCheaper ==
  ASSUME Weighted(graph), NEW d, Reach(d), todo = {}, FrontierOK(Frontier), explored \subseteq Tag,
         NEW n \in Nat, NEW p, NEW b, Way(p, n, graph, from, b), NEW c, Costs(c, graph, p, n)
  PROVE  \/ b \in explored /\ d[b] <= c[n]
         \/ \E x \in DOMAIN index : d[x] <= c[n]
<1> DEFINE Come(i) == \/ p[i] \in explored /\ d[p[i]] <= c[i]
                      \/ \E x \in DOMAIN index : d[x] <= c[i]
           S == { m \in Nat : m + 1 \in 1..n => Come(m + 1) }
<1>1. /\ n \in 2..Cardinality(Tag) /\ p \in [1..n -> Tag] /\ p[1] = from /\ p[n] = b
      /\ \A i \in 1..(n - 1) : p[i] \in DOMAIN graph /\ p[i + 1] \in DOMAIN graph[p[i]]
  BY DEF Way
<1>2. c \in [1..n -> Nat] /\ c[1] = 0 /\ \A i \in 1..(n - 1) : c[i + 1] = c[i] + graph[p[i]][p[i + 1]]
  BY DEF Costs
<1>3. d \in [Tag -> Nat] /\ d[from] = 0
  BY DEF Reach, Labels
<1>4. from \in explored \/ from \in DOMAIN index
  BY DEF Reach, Apart
<1>5. DOMAIN index \subseteq Tag
  BY Queued
<1>6. 0 \in S
  BY <1>1, <1>2, <1>3, <1>4
<1>7. ASSUME NEW m \in Nat, m \in S  PROVE m + 1 \in S
  <2>1. SUFFICES ASSUME (m + 1) + 1 \in 1..n  PROVE Come((m + 1) + 1)
    OBVIOUS
  <2>2. PICK i \in 1..(n - 1) : i = m + 1
    BY <1>1, <2>1
  <2>3. i \in 1..n /\ i + 1 \in 1..n
    BY <1>1
  <2>4. Come(i)
    BY <1>7, <2>2, <2>3
  <2> DEFINE w == graph[p[i]][p[i + 1]]
  <2>5. w \in Nat /\ c[i] \in Nat /\ c[i + 1] = c[i] + w /\ p[i] \in Tag /\ p[i + 1] \in Tag
    BY <1>1, <1>2, <2>3 DEF Weighted
  <2>6. CASE p[i] \in explored /\ d[p[i]] <= c[i]
    <3>1. p[i + 1] \in explored \cup DOMAIN index /\ d[p[i + 1]] <= d[p[i]] + w
      BY <1>1, <2>6 DEF Reach, Closed
    <3>2. d[p[i]] \in Nat /\ d[p[i + 1]] \in Nat
      BY <1>3, <2>5
    <3> HIDE DEF w
    <3>3. d[p[i + 1]] <= c[i + 1]
      BY <2>5, <2>6, <3>1, <3>2
    <3>4. Come(i + 1)
      BY <3>1, <3>3
    <3> QED BY <2>2, <3>4
  <2>7. CASE \E x \in DOMAIN index : d[x] <= c[i]
    <3>1. PICK x \in DOMAIN index : d[x] <= c[i]
      BY <2>7
    <3>2. d[x] \in Nat
      BY <1>3, <1>5
    <3> HIDE DEF w
    <3>3. d[x] <= c[i + 1]
      BY <2>5, <3>1, <3>2
    <3>4. Come(i + 1)
      BY <3>3
    <3> QED BY <2>2, <3>4
  <2> QED BY <2>4, <2>6, <2>7
<1> HIDE DEF S
<1>8. \A m \in Nat : m \in S
  BY <1>6, <1>7, Induction
<1>9. n - 1 \in Nat /\ (n - 1) + 1 = n /\ n \in 1..n
  BY <1>1
<1>10. Come(n)
  BY <1>8, <1>9 DEF S
<1> QED BY <1>1, <1>10

\* The chain of predecessors of a node, read from the start, is a way that costs what the node is
\* labelled with.
WayBack(t, cost) ==
  \E p, n : /\ n \in Nat /\ Way(p, n, graph, from, t) /\ Search!CostOf(graph, p) = cost
            /\ Chain(t) # <<>> /\ Chain(t) \o <<from>> = [i \in 1..n |-> p[(n + 1) - i]]

\* The chain of whatever has a predecessor is such a way.
LEMMA ChainIsWay ==
  ASSUME SearchInv, NEW d, Labels(d), NEW t \in DOMAIN previous
  PROVE  WayBack(t, d[t])
<1>1. PICK h : Back(h)
  BY DEF SearchInv
<1>2. IsFiniteSet(Tag) /\ t \in DOMAIN previous \cup {from} /\ from \notin DOMAIN previous /\ from \in Tag
  BY <1>1, SearchAssumption DEF Back
<1>3. PICK cur, k : Leads(cur, k, t) /\ Chain(t) = [i \in 1..k |-> cur[i]]
  BY <1>1, <1>2, ChainEnds
<1>4. /\ k \in Nat /\ k < Cardinality(Tag) /\ cur \in [1..(k + 1) -> Tag]
      /\ cur[1] = t /\ cur[k + 1] = from
      /\ \A i \in 1..k : cur[i] \in DOMAIN previous /\ cur[i + 1] = previous[cur[i]]
      /\ \A i, j \in 1..(k + 1) : cur[i] = cur[j] => i = j
  BY <1>3 DEF Leads
<1>5. k # 0
  BY <1>2, <1>4
<1> DEFINE n == k + 1
           p == [i \in 1..n |-> cur[(n + 1) - i]]
           c == [i \in 1..n |-> d[p[i]]]
<1>6. n \in Nat /\ n # 0 /\ n \in 2..Cardinality(Tag)
  <2>1. Cardinality(Tag) \in Nat
    BY <1>2, FS_CardinalityType
  <2> QED BY <1>4, <1>5, <2>1
<1>7. \A i \in 1..n : (n + 1) - i \in 1..n /\ (n + 1) - ((n + 1) - i) = i
  BY <1>6
<1>8. p \in [1..n -> Tag]
  BY <1>4, <1>7
<1>9. p[1] = from /\ p[n] = t
  BY <1>4, <1>6
<1>10. ASSUME NEW i \in 1..n, NEW j \in 1..n, p[i] = p[j]  PROVE i = j
  <2>1. (n + 1) - i = (n + 1) - j
    BY <1>4, <1>7, <1>10
  <2> QED BY <1>6, <2>1
<1>11. ASSUME NEW i \in 1..(n - 1)
       PROVE  /\ p[i + 1] \in DOMAIN previous /\ p[i] = previous[p[i + 1]]
              /\ p[i] \in DOMAIN graph /\ p[i + 1] \in DOMAIN graph[p[i]]
              /\ d[p[i + 1]] = d[p[i]] + graph[p[i]][p[i + 1]]
  <2>1. (n + 1) - (i + 1) \in 1..k /\ ((n + 1) - (i + 1)) + 1 = (n + 1) - i /\ i \in 1..n /\ i + 1 \in 1..n
    BY <1>4
  <2>2. p[i + 1] = cur[(n + 1) - (i + 1)] /\ p[i] = cur[(n + 1) - i]
    BY <2>1
  <2>3. p[i + 1] \in DOMAIN previous /\ p[i] = previous[p[i + 1]]
    BY <1>4, <2>1, <2>2
  <2> QED BY <2>3 DEF Labels
<1>12. \A i \in 1..n : p[(n + 1) - i] = cur[i]
  BY <1>7
<1> HIDE DEF p
<1>13. d \in [Tag -> Nat] /\ d[from] = 0
  BY DEF Labels
<1>14. Costs(c, graph, p, n)
  <2>1. c \in [1..n -> Nat] /\ c[1] = 0
    BY <1>6, <1>8, <1>9, <1>13
  <2>2. \A i \in 1..(n - 1) : i \in 1..n /\ i + 1 \in 1..n
    BY <1>6
  <2>3. \A i \in 1..(n - 1) : c[i + 1] = c[i] + graph[p[i]][p[i + 1]]
    BY <1>11, <2>2
  <2> HIDE DEF c, n
  <2> QED BY <2>1, <2>3 DEF Costs
<1>15. c[n] = d[t]
  BY <1>6, <1>9
<1> HIDE DEF c, n
<1>16. Search!CostOf(graph, p) = d[t]
  BY <1>6, <1>8, <1>14, <1>15, CostIs
<1>17. Way(p, n, graph, from, t)
  BY <1>6, <1>8, <1>9, <1>10, <1>11 DEF Way
<1>18. Chain(t) # <<>> /\ Chain(t) \o <<from>> = [i \in 1..n |-> cur[i]]
  <2> DEFINE a == [i \in 1..k |-> cur[i]]
  <2>1. n = k + 1
    BY DEF n
  <2>2. \A i \in 1..k : i \in 1..n /\ cur[i] \in Tag
    BY <1>4, <2>1
  <2>3. a \in Seq(Tag) /\ Len(a) = k /\ (\A i \in 1..k : a[i] = cur[i])
    BY <1>4, <2>2
  <2> HIDE DEF a
  <2> DEFINE r == a \o <<from>>
  <2>4. <<from>> \in Seq(Tag) /\ Len(<<from>>) = 1 /\ <<from>>[1] = from
    BY <1>2
  <2>5. r \in Seq(Tag) /\ Len(r) = Len(a) + 1 /\ \A i \in 1..(Len(a) + 1) : r[i] = IF i <= Len(a) THEN a[i] ELSE <<from>>[i - Len(a)]
    BY <2>3, <2>4, ConcatProperties
  <2> HIDE DEF r
  <2>6. \A i \in 1..n : r[i] = cur[i]
    <3> TAKE i \in 1..n
    <3>1. i \in 1..k \/ (i = k + 1 /\ ~(i <= k) /\ i - k = 1)
      BY <1>4, <2>1
    <3>2. CASE i \in 1..k
      BY <1>4, <2>1, <2>3, <2>5, <3>2
    <3>3. CASE i = k + 1 /\ ~(i <= k) /\ i - k = 1
      BY <1>4, <2>1, <2>3, <2>4, <2>5, <3>3
    <3> QED BY <3>1, <3>2, <3>3
  <2>7. r = [i \in 1..n |-> r[i]]
    BY <2>1, <2>3, <2>5
  <2>8. r = [i \in 1..n |-> cur[i]]
    BY <2>6, <2>7
  <2>9. Chain(t) = a /\ a # <<>>
    BY <1>3, <1>5, <2>3 DEF a
  <2> QED BY <2>8, <2>9 DEF r
<1>19. Chain(t) \o <<from>> = [i \in 1..n |-> p[(n + 1) - i]]
  BY <1>12, <1>18
<1> QED BY <1>6, <1>16, <1>17, <1>18, <1>19 DEF WayBack

\* The goal is the cheapest of the frontier, so its chain is a cheapest way.
LEMMA PopAnswers ==
  ASSUME SearchInv, Pop, goal = "path", Last(queue)[1] = to
  PROVE  found' \in Search!Answers(graph, from, to)
<1>1. Searching /\ todo = {} /\ found' = IF Chain(to) = <<>> THEN <<>> ELSE Chain(to) \o <<from>>
  BY DEF Pop
<1>2. /\ Last(queue) \in Entries(Frontier) /\ to \in DOMAIN index
      /\ \A x \in Entries(Frontier) : Last(queue)[2] <= x[2]
  BY PopTakes
<1>3. PICK d : Reach(d)
  BY <1>1 DEF SearchInv
<1>4. PICK h : Back(h)
  BY DEF SearchInv
<1>5. /\ FrontierOK(Frontier) /\ IsFiniteSet(Tag) /\ explored \subseteq Tag /\ Weighted(graph)
      /\ from \in Tag /\ to \in Tag /\ from \notin DOMAIN previous
  BY <1>4, SearchAssumption DEF SearchInv, Back
<1>6. DOMAIN index \subseteq Tag /\ \A t : t \in DOMAIN index <=> \E e \in Entries(Frontier) : e[1] = t
  BY <1>5, Queued
<1>7. Labels(d) /\ d \in [Tag -> Nat] /\ (\A e \in Entries(Frontier) : d[e[1]] = e[2])
  BY <1>3 DEF Reach, Labels
<1>8. \A x \in DOMAIN index : d[to] <= d[x] /\ d[x] \in Nat
  BY <1>2, <1>6, <1>7
<1>9. to \notin explored /\ to \in DOMAIN previous \cup {from}
  BY <1>2, <1>3 DEF Reach, Apart
<1>10. ASSUME NEW q, NEW m \in Nat, Way(q, m, graph, from, to)  PROVE d[to] <= Search!CostOf(graph, q)
  <2>1. m # 0 /\ q \in [1..m -> Tag] /\ \A i \in 1..(m - 1) : graph[q[i]][q[i + 1]] \in Nat
    BY <1>5, <1>10 DEF Way, Weighted
  <2>2. PICK c : Costs(c, graph, q, m)
    BY <2>1, CostsExist
  <2>3. \E x \in DOMAIN index : d[x] <= c[m]
    BY <1>1, <1>3, <1>5, <1>9, <1>10, <2>2, NothingIsCheaper
  <2>4. c[m] \in Nat
    BY <2>1, <2>2 DEF Costs
  <2>5. d[to] <= c[m] /\ Search!CostOf(graph, q) = c[m]
    BY <1>2, <1>8, <2>1, <2>2, <2>3, <2>4, CostIs
  <2> QED BY <2>5
<1>11. CASE to = from
  <2>1. Chain(to) = <<>>
    <3>1. PICK cur, k : Leads(cur, k, to) /\ Chain(to) = [n \in 1..k |-> cur[n]]
      BY <1>4, <1>5, <1>9, ChainEnds
    <3>2. k \in Nat /\ (1 \in 1..k => to \in DOMAIN previous)
      BY <3>1 DEF Leads
    <3>3. k = 0
      BY <1>5, <1>11, <3>2
    <3>4. Chain(to) = [n \in 1..0 |-> cur[n]]
      BY <3>1, <3>3
    <3> QED BY <3>4
  <2>2. ASSUME NEW q, NEW m \in Nat, Way(q, m, graph, from, to)  PROVE FALSE
    <3>1. m \in 2..Cardinality(Tag) /\ q[1] = q[m] /\ \A i, j \in 1..m : q[i] = q[j] => i = j
      BY <1>11, <2>2 DEF Way
    <3>2. Cardinality(Tag) \in Nat
      BY <1>5, FS_CardinalityType
    <3>3. 1 \in 1..m /\ m \in 1..m /\ m # 1
      BY <3>1, <3>2
    <3> QED BY <3>1, <3>3
  <2> QED BY <1>1, <1>5, <2>1, <2>2, NoWayAnswers
<1>12. CASE to # from
  <2>1. to \in DOMAIN previous
    BY <1>9, <1>12
  <2>2. PICK p, n : /\ n \in Nat /\ Way(p, n, graph, from, to) /\ Search!CostOf(graph, p) = d[to]
                    /\ Chain(to) # <<>> /\ Chain(to) \o <<from>> = [i \in 1..n |-> p[(n + 1) - i]]
    <3>1. Labels(d) /\ to \in DOMAIN previous
      BY <1>7, <2>1
    <3>2. WayBack(to, d[to])
      BY <3>1, ChainIsWay
    <3> QED BY <3>2 DEF WayBack
  <2>3. \A q, m : (m \in Nat /\ Way(q, m, graph, from, to)) => Search!CostOf(graph, p) <= Search!CostOf(graph, q)
    BY <1>10, <2>2
  <2>4. [i \in 1..n |-> p[(n + 1) - i]] \in Search!Answers(graph, from, to)
    BY <1>5, <2>2, <2>3, CheapestAnswers
  <2> QED BY <1>1, <2>2, <2>4
<1> QED BY <1>11, <1>12

\* Without nodes there is no way.
LEMMA RefuseAnswers ==
  ASSUME SearchInv, Refuse
  PROVE  found' \in Search!Answers(graph, from, to)
<1>1. DOMAIN graph = {} /\ found' = <<>>
  <2>1. DOMAIN <<>> = {}
    OBVIOUS
  <2> QED BY <2>1 DEF Refuse
<1>2. ASSUME NEW q, NEW m \in Nat, Way(q, m, graph, from, to)  PROVE FALSE
  <2>1. 1 \in 1..(m - 1)
    <3>1. Cardinality(Tag) \in Nat /\ m \in 2..Cardinality(Tag)
      BY <1>2, FS_CardinalityType, SearchAssumption DEF Way
    <3> QED BY <3>1
  <2> QED BY <1>1, <1>2, <2>1 DEF Way
<1>3. IsFiniteSet(Tag) /\ from \in Tag /\ to \in Tag
  BY SearchAssumption DEF SearchInv
<1> QED BY <1>1, <1>2, <1>3, NoWayAnswers

\* With an empty frontier, what has a predecessor has been explored and nothing else has a way.
LEMMA ExhaustedAnswers ==
  ASSUME SearchInv, Exhausted
  PROVE  found' \in Search!Answers(graph, from, to)
<1>1. /\ Searching /\ todo = {} /\ queue = <<>>
      /\ found' = IF goal = "tree" /\ to \in DOMAIN previous THEN Chain(to) \o <<from>> ELSE <<>>
  BY DEF Exhausted
<1>2. PICK d : Reach(d)
  BY <1>1 DEF SearchInv
<1>3. PICK h : Back(h)
  BY DEF SearchInv
<1>4. /\ FrontierOK(Frontier) /\ IsFiniteSet(Tag) /\ explored \subseteq Tag /\ Weighted(graph)
      /\ from \in Tag /\ to \in Tag /\ from \notin DOMAIN previous /\ explored \subseteq DOMAIN previous \cup {from}
      /\ goal \in {"path", "tree"}
  BY <1>3, SearchAssumption DEF SearchInv, Back
<1>5. DOMAIN index = {}
  BY <1>1, <1>4, Queued
<1>6. Labels(d) /\ d \in [Tag -> Nat] /\ (goal = "path" => to \notin explored)
  BY <1>2 DEF Reach, Labels, Apart
<1>7. ASSUME NEW q, NEW m \in Nat, Way(q, m, graph, from, to)
      PROVE  to \in explored /\ to # from /\ d[to] <= Search!CostOf(graph, q)
  <2>1. m # 0 /\ q \in [1..m -> Tag] /\ \A i \in 1..(m - 1) : graph[q[i]][q[i + 1]] \in Nat
    BY <1>4, <1>7 DEF Way, Weighted
  <2>2. PICK c : Costs(c, graph, q, m)
    BY <2>1, CostsExist
  <2>3. to \in explored /\ d[to] <= c[m]
    BY <1>1, <1>2, <1>4, <1>5, <1>7, <2>2, NothingIsCheaper
  <2>4. Search!CostOf(graph, q) = c[m]
    BY <2>1, <2>2, CostIs
  <2>5. to # from
    <3>1. m \in 2..Cardinality(Tag) /\ q[1] = from /\ q[m] = to /\ \A i, j \in 1..m : q[i] = q[j] => i = j
      BY <1>7 DEF Way
    <3>2. Cardinality(Tag) \in Nat
      BY <1>4, FS_CardinalityType
    <3>3. 1 \in 1..m /\ m \in 1..m /\ m # 1
      BY <3>1, <3>2
    <3> QED BY <3>1, <3>3
  <2> QED BY <2>3, <2>4, <2>5
<1>8. CASE goal = "tree" /\ to \in DOMAIN previous
  <2>1. PICK p, n : /\ n \in Nat /\ Way(p, n, graph, from, to) /\ Search!CostOf(graph, p) = d[to]
                    /\ Chain(to) # <<>> /\ Chain(to) \o <<from>> = [i \in 1..n |-> p[(n + 1) - i]]
    <3>1. Labels(d) /\ to \in DOMAIN previous
      BY <1>6, <1>8
    <3>2. WayBack(to, d[to])
      BY <3>1, ChainIsWay
    <3> QED BY <3>2 DEF WayBack
  <2>2. \A q, m : (m \in Nat /\ Way(q, m, graph, from, to)) => Search!CostOf(graph, p) <= Search!CostOf(graph, q)
    BY <1>7, <2>1
  <2>3. [i \in 1..n |-> p[(n + 1) - i]] \in Search!Answers(graph, from, to)
    BY <1>4, <2>1, <2>2, CheapestAnswers
  <2> QED BY <1>1, <1>8, <2>1, <2>3
<1>9. CASE ~(goal = "tree" /\ to \in DOMAIN previous)
  <2>1. \A q, m : ~(m \in Nat /\ Way(q, m, graph, from, to))
    BY <1>4, <1>6, <1>7, <1>9
  <2> QED BY <1>1, <1>4, <1>9, <2>1, NoWayAnswers
<1> QED BY <1>8, <1>9

\* An answer is a path or none, so the search is over with it.
LEMMA AnswersAreSequences ==
  ASSUME IsFiniteSet(Tag), NEW g, NEW a \in Tag, NEW b \in Tag, NEW r \in Search!Answers(g, a, b)
  PROVE  r \in Seq(Tag)
<1>1. CASE r = <<>>
  BY <1>1
<1>2. CASE r # <<>>
  <2>1. PICK p \in Search!PathsIn(g, a, b) : r = Search!Backwards(p)
    BY <1>2 DEF Search!Answers, Search!ShortestPaths
  <2>2. PICK n \in Nat : Way(p, n, g, a, b)
    BY <2>1, PathsAreWays
  <2>3. p \in [1..n -> Tag] /\ Len(p) = n /\ DOMAIN p = 1..n
    BY <2>2, WayLength DEF Way
  <2>4. r = [i \in 1..n |-> p[(n + 1) - i]]
    BY <2>1, <2>3 DEF Search!Backwards
  <2>5. \A i \in 1..n : (n + 1) - i \in 1..n
    OBVIOUS
  <2>6. \A i \in 1..n : p[(n + 1) - i] \in Tag
    BY <2>3, <2>5
  <2> QED BY <2>4, <2>6
<1> QED BY <1>1, <1>2

-----------------------------------------------------------------------------
(* The invariant and the refinement.                                        *)

\* Every step keeps the invariant.
LEMMA SearchSteps ==
  ASSUME SearchInv, [SearchNext]_searchVars
  PROVE  SearchInv'
<1>1. \A r : r \in Search!Answers(graph, from, to) => r # Unanswered
  BY AnswersAreSequences, SearchAssumption DEF SearchInv
<1>2. CASE Refuse
  BY <1>1, <1>2, RefuseAnswers, EndKeeps DEF Refuse, Searching
<1>3. CASE Pop
  BY <1>3, PopKeepsSearch
<1>4. ASSUME NEW n \in Tag, Relax(n)  PROVE SearchInv'
  BY <1>4, RelaxKeeps
<1>5. CASE Exhausted
  BY <1>1, <1>5, ExhaustedAnswers, EndKeeps DEF Exhausted, Searching
<1>6. CASE UNCHANGED searchVars
  <2>1. Frontier' = Frontier /\ Searching' = Searching
    BY <1>6 DEF searchVars, Frontier, Searching
  <2>2. (\E h : Back(h))' <=> \E h : Back(h)
    BY <1>6 DEF searchVars, Back
  <2>3. (\E d : Reach(d))' <=> \E d : Reach(d)
    BY <1>6, <2>1 DEF searchVars, Reach, Labels, Apart, Outwards, Visiting, Closed
  <2> QED BY <1>6, <2>1, <2>2, <2>3 DEF searchVars, SearchInv
<1> QED BY <1>2, <1>3, <1>4, <1>5, <1>6 DEF SearchNext

\* So every search keeps it.
LEMMA SearchIsKept ==
  SearchSpec => []SearchInv
<1>1. SearchInit => SearchInv
  BY SearchStarts
<1>2. SearchInv /\ [SearchNext]_searchVars => SearchInv'
  BY SearchSteps
<1> QED BY <1>1, <1>2, PTL DEF SearchSpec

\* The invariant implies what the runs check.
LEMMA InvMeans ==
  ASSUME SearchInv
  PROVE  FrontierConsistent /\ WalksBackToStart
<1>1. FrontierOK(Frontier) /\ Frontier.queue = queue /\ Frontier.index = index
  BY DEF SearchInv, Frontier
<1>2. /\ queue \in Seq(Tag \X Nat) /\ DOMAIN index = { queue[i][1] : i \in 1..Len(queue) }
      /\ (\A i \in 1..Len(queue) : index[queue[i][1]] = i) /\ Ordered(queue)
  BY <1>1 DEF FrontierOK
<1>3. DOMAIN queue = 1..Len(queue) /\ Len(queue) \in Nat
  BY <1>2, LenProperties
<1>4. FrontierConsistent
  <2>1. \A i \in 1..(Len(queue) - 1) : i \in 1..Len(queue) /\ i + 1 \in 1..Len(queue) /\ i < i + 1
    BY <1>3
  <2>2. \A i \in 1..(Len(queue) - 1) : Precedes(queue[i], queue[i + 1])
    BY <1>2, <2>1 DEF Ordered
  <2> QED BY <1>2, <1>3, <2>2 DEF FrontierConsistent
<1>5. PICK h : Back(h)
  BY DEF SearchInv
<1>6. from \notin DOMAIN previous /\ IsFiniteSet(Tag)
  BY <1>5, SearchAssumption DEF Back
<1>7. ASSUME NEW t \in DOMAIN previous  PROVE previous[Last(Chain(t))] = from
  <2>1. PICK cur, k : Leads(cur, k, t) /\ Chain(t) = [n \in 1..k |-> cur[n]]
    BY <1>5, <1>6, ChainEnds
  <2>2. k \in Nat /\ cur[1] = t /\ cur[k + 1] = from /\ cur \in [1..(k + 1) -> Tag]
        /\ \A n \in 1..k : cur[n + 1] = previous[cur[n]]
    BY <2>1 DEF Leads
  <2>3. k # 0
    BY <1>6, <2>2
  <2>4. \A n \in 1..k : cur[n] \in Tag
    BY <2>2
  <2>5. Chain(t) \in [1..k -> Tag]
    BY <2>1, <2>4
  <2>6. Len(Chain(t)) = k
    BY <2>2, <2>5, WayLength
  <2>7. k \in 1..k
    BY <2>2, <2>3
  <2>8. Last(Chain(t)) = cur[k]
    BY <2>1, <2>6, <2>7 DEF Last
  <2> QED BY <2>2, <2>7, <2>8
<1> QED BY <1>4, <1>6, <1>7 DEF WalksBackToStart

\* After any run of insertions, decreases and removals the frontier's list is in order, cheapest last,
\* and its index names the place of everything in it and of nothing else; and from every node with a
\* predecessor the loops over `previous' end, at the start.  (frontier.rs, dijkstra.rs)
THEOREM SearchStaysConsistent == SearchSpec => []SearchConsistent
<1>1. SearchInv => SearchConsistent
  BY InvMeans DEF SearchConsistent
<1> QED BY <1>1, SearchIsKept, PTL

\* In every graph whose links have no negative cost, and whatever the order of a node's links, the
\* search for one path and the search for all return a cheapest path, or none where there is none.
\* (dijkstra.rs reverse_path, path_search_tree)
THEOREM ShortestIsFound == SearchSpec => FindsShortest
<1>1. SearchInit => Search!Init
  BY DEF SearchInit, Search!Init
<1>2. SearchInv /\ [SearchNext]_searchVars => [Search!Next]_Search!vars
  <2>1. SUFFICES ASSUME SearchInv, [SearchNext]_searchVars  PROVE [Search!Next]_Search!vars
    OBVIOUS
  <2>2. (found' \in Search!Answers(graph, from, to) /\ Searching /\ UNCHANGED search) => Search!Next
    BY DEF Searching, search, Search!Next, Search!Answer
  <2>3. CASE Refuse
    BY <2>1, <2>2, <2>3, RefuseAnswers DEF Refuse
  <2>4. CASE Pop /\ goal = "path" /\ Last(queue)[1] = to
    BY <2>1, <2>2, <2>4, PopAnswers DEF Pop
  <2>5. CASE Pop /\ ~(goal = "path" /\ Last(queue)[1] = to)
    BY <2>5 DEF Pop, search, Search!vars
  <2>6. CASE \E n \in Tag : Relax(n)
    BY <2>6 DEF Relax, search, Search!vars
  <2>7. CASE Exhausted
    BY <2>1, <2>2, <2>7, ExhaustedAnswers DEF Exhausted
  <2>8. CASE UNCHANGED searchVars
    BY <2>8 DEF searchVars, Search!vars
  <2> QED BY <2>1, <2>3, <2>4, <2>5, <2>6, <2>7, <2>8 DEF SearchNext
<1>3. SearchSpec => []SearchInv
  BY SearchIsKept
<1> QED BY <1>1, <1>2, <1>3, PTL DEF SearchSpec, FindsShortest, Search!Spec
=============================================================================
