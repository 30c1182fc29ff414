----------------------- MODULE AnnounceHandlingProofs -----------------------
(***************************************************************************)
(* Proofs about AnnounceHandling, for every set of announcements, nodes    *)
(* and handlers and every bound: first the facts about lists of            *)
(* announcements (Announcements) they rest on, then the inductive          *)
(* invariant, then the properties of the table, one section each.          *)
(***************************************************************************)
EXTENDS AnnounceHandling, SublistProofs

-----------------------------------------------------------------------------
(* add_announcement splits a node's announcements into those it keeps and    *)
(* those it drops.                                                           *)

\* add_announcement: the list it leaves and the announcements it drops are made of
\* the new announcement and the old list, and together they are all of it.
LEMMA AddSplits ==
  ASSUME NEW S, NEW s \in Seq(S), NEW ann \in S
  PROVE  /\ AfterAdd(s, ann) \in Seq(S)
         /\ \A n \in DOMAIN AfterAdd(s, ann) :
              \/ AfterAdd(s, ann)[n] = ann
              \/ \E i \in DOMAIN s : AfterAdd(s, ann)[n] = s[i]
         /\ \A a \in DroppedByAdd(s, ann) : a = ann \/ \E i \in DOMAIN s : a = s[i]
         /\ \A i \in DOMAIN s :
              \/ s[i] \in DroppedByAdd(s, ann)
              \/ \E n \in DOMAIN AfterAdd(s, ann) : AfterAdd(s, ann)[n] = s[i]
  <1> DEFINE t == <<ann>> \o s
             K == Retained(t, ann)
  <1>1. /\ t \in Seq(S) /\ DOMAIN t = 1..(Len(s) + 1)
        /\ t[1] = ann /\ \A i \in DOMAIN s : i + 1 \in DOMAIN t /\ t[i + 1] = s[i]
    OBVIOUS
  <1>2. \A j \in DOMAIN t : t[j] = ann \/ \E i \in DOMAIN s : t[j] = s[i]
    OBVIOUS
  <1>3. K \in SUBSET DOMAIN t
    BY DEF Retained
  <1>4. AfterAdd(s, ann) = Pick(t, K) /\ DroppedByAdd(s, ann) = { t[i] : i \in DOMAIN t \ K }
    BY DEF AfterAdd, DroppedByAdd
  <1> HIDE DEF t, K
  <1>5. /\ Pick(t, K) \in Seq(S)
        /\ \A n \in DOMAIN Pick(t, K) : \E i \in K : Pick(t, K)[n] = t[i]
        /\ \A i \in K : \E n \in DOMAIN Pick(t, K) : Pick(t, K)[n] = t[i]
    BY <1>1, <1>3, PickElements
  <1>6. \A i \in DOMAIN s : t[i + 1] \in DroppedByAdd(s, ann) \/ i + 1 \in K
    BY <1>1, <1>4
  <1> QED BY <1>1, <1>2, <1>3, <1>4, <1>5, <1>6

\* An announcement of the old list is kept or dropped.
LEMMA AddKeepsOrDrops ==
  ASSUME NEW S, NEW s \in Seq(S), NEW ann \in S, NEW i \in DOMAIN s
  PROVE  \/ s[i] \in DroppedByAdd(s, ann)
         \/ \E n \in DOMAIN AfterAdd(s, ann) : AfterAdd(s, ann)[n] = s[i]
  BY AddSplits

-----------------------------------------------------------------------------
(* The order of a list, and what of it add_announcement keeps.               *)

\* The list add_announcement leaves starts with the new announcement and goes on with
\* those of the old list that are retained, in their order.
LEMMA AddOrder ==
  ASSUME NEW A \in Seq(Announcement), NEW ann \in Announcement
  PROVE  LET t == <<ann>> \o A
             r == AfterAdd(A, ann) IN
         /\ t \in Seq(Announcement) /\ t[1] = ann /\ DOMAIN t = 1..(Len(A) + 1)
         /\ \A i \in DOMAIN t : i > 1 => i - 1 \in DOMAIN A /\ t[i] = A[i - 1]
         /\ r \in Seq(Announcement) /\ 1 \in DOMAIN r /\ r[1] = ann
         /\ \E at \in [DOMAIN r -> Retained(t, ann)] :
              /\ at[1] = 1
              /\ \A n \in DOMAIN r : r[n] = t[at[n]]
              /\ \A n, m \in DOMAIN r : n < m => at[n] < at[m]
              /\ \A i \in Retained(t, ann) : \E n \in DOMAIN r : at[n] = i
  <1> DEFINE t == <<ann>> \o A
             r == AfterAdd(A, ann)
             K == Retained(t, ann)
  <1>1. /\ t \in Seq(Announcement) /\ t[1] = ann /\ DOMAIN t = 1..(Len(A) + 1)
        /\ \A i \in DOMAIN t : i > 1 => i - 1 \in DOMAIN A /\ t[i] = A[i - 1]
    OBVIOUS
  <1>2. K \in SUBSET DOMAIN t /\ r = Pick(t, K)
    BY DEF Retained, AfterAdd
  <1>3. 1 \in K
    <2>1. ann.ts \in Nat
      BY DEF Announcement
    <2> QED BY <1>1, <2>1, AgreedTimeoutAssumption DEF Retained, Expired
  <1> HIDE DEF t, K, r
  <1>4. PICK at \in [DOMAIN r -> K] :
          /\ \A n \in DOMAIN r : r[n] = t[at[n]]
          /\ \A n, m \in DOMAIN r : n < m => at[n] < at[m]
          /\ \A i \in K : \E n \in DOMAIN r : at[n] = i
    BY <1>1, <1>2, PickOrder
  <1>5. r \in Seq(Announcement)
    BY <1>1, <1>2, PickElements
  <1>6. PICK n \in DOMAIN r : at[n] = 1
    BY <1>3, <1>4
  <1>7. n = 1
    <2>1. n \in Nat /\ 1 <= n /\ 1 \in DOMAIN r
      BY <1>5
    <2>2. at[1] \in Nat /\ 1 <= at[1]
      BY <1>1, <1>2, <1>4, <2>1
    <2> QED BY <1>4, <1>6, <2>1, <2>2
  <1> QED BY <1>1, <1>4, <1>5, <1>6, <1>7 DEF t, r, K

\* An announcement no older than the rest keeps the list in order.
LEMMA AddChronological ==
  ASSUME NEW A \in Seq(Announcement), NEW ann \in Announcement,
         Chronological(A), \A i \in DOMAIN A : A[i].ts <= ann.ts
  PROVE  /\ Chronological(<<ann>> \o A)
         /\ Chronological(AfterAdd(A, ann))
  <1> DEFINE t == <<ann>> \o A
             r == AfterAdd(A, ann)
  <1>1. /\ t[1] = ann /\ DOMAIN t = 1..(Len(A) + 1)
        /\ \A i \in DOMAIN t : i > 1 => i - 1 \in DOMAIN A /\ t[i] = A[i - 1]
    BY AddOrder
  <1> HIDE DEF t
  <1>2. Chronological(t)
    <2> SUFFICES ASSUME NEW i \in DOMAIN t, NEW j \in DOMAIN t, i < j
                 PROVE  t[i].ts >= t[j].ts
      BY DEF Chronological
    <2>1. i \in Nat /\ j \in Nat /\ j > 1 /\ i >= 1
      BY <1>1
    <2>2. CASE i = 1
      BY <1>1, <2>1, <2>2
    <2>3. CASE i # 1
      BY <1>1, <2>1, <2>3 DEF Chronological
    <2> QED BY <2>2, <2>3
  <1>3. PICK at \in [DOMAIN r -> Retained(t, ann)] :
          /\ \A n \in DOMAIN r : r[n] = t[at[n]]
          /\ \A n, m \in DOMAIN r : n < m => at[n] < at[m]
    BY AddOrder DEF t
  <1>4. Chronological(r)
    BY <1>2, <1>3 DEF Chronological, Retained
  <1> QED BY <1>2, <1>4 DEF t

-----------------------------------------------------------------------------
(* The entities of a list, and what becomes of them in add_announcement.     *)

\* What an announcement is made of.
LEMMA AnnouncementFields ==
  ASSUME NEW a \in Announcement
  PROVE  /\ a.ts \in Nat /\ a.entities \in Seq(Entity)
         /\ DOMAIN a.entities \in SUBSET Int /\ IsFiniteSet(DOMAIN a.entities)
         /\ \A i \in DOMAIN a.entities : a.entities[i] \in Entity
  <1>1. a.ts \in Nat /\ a.entities \in Seq(Entity)
    BY DEF Announcement
  <1>2. Len(a.entities) \in Nat /\ DOMAIN a.entities = 1..Len(a.entities)
    BY <1>1
  <1>3. IsFiniteSet(1..Len(a.entities))
    BY <1>2, FS_Interval
  <1> QED BY <1>1, <1>2, <1>3

\* Replacement: everything but a link state replaces itself, and what replaces a
\* replacement of an entity replaces the entity.
LEMMA Replacement ==
  /\ \A e \in Entity : ~IsEphemeral(e) => IsReplacement(e, e)
  /\ \A e, f, g : IsReplacement(e, f) /\ IsReplacement(f, g) => IsReplacement(e, g)
  /\ \A e, f : IsReplacement(e, f) => ~IsEphemeral(f)
  BY DEF Entity, IsEphemeral, IsReplacement

\* Of the entities of a list that replace an entity, the first is announced first
\* there, whatever has expired.
LEMMA FirstIsFresh ==
  ASSUME NEW s \in Seq(Announcement), NEW ann, NEW e, NEW i \in DOMAIN s,
         NEW f \in EntitiesOf(s[i]), IsReplacement(e, f)
  PROVE  \E j \in 1..i : \E m \in DOMAIN s[j].entities :
           IsReplacement(e, s[j].entities[m]) /\ Fresh(s, ann, j, m)
  <1> DEFINE Js == { j \in 1..i : \E g \in EntitiesOf(s[j]) : IsReplacement(e, g) }
  <1>1. DOMAIN s = 1..Len(s) /\ Len(s) \in Nat /\ i \in 1..i /\ 1..i \in SUBSET DOMAIN s
    OBVIOUS
  <1>2. IsFiniteSet(Js) /\ Js \in SUBSET Int /\ Js # {}
    <2>1. IsFiniteSet(1..i)
      BY <1>1, FS_Interval
    <2> QED BY <1>1, <2>1, FS_Subset
  <1>3. PICK j \in Js : \A x \in Js : j <= x
    BY <1>2, LeastElement
  <1> DEFINE Ms == { m \in DOMAIN s[j].entities : IsReplacement(e, s[j].entities[m]) }
  <1>4. s[j] \in Announcement /\ j \in 1..i
    BY <1>1
  <1>5. IsFiniteSet(Ms) /\ Ms \in SUBSET Int /\ Ms # {}
    BY <1>4, AnnouncementFields, FS_Subset DEF EntitiesOf
  <1>6. PICK m \in Ms : \A x \in Ms : m <= x
    BY <1>5, LeastElement
  <1> DEFINE g == s[j].entities[m]
  <1>7. ASSUME NEW x \in 1..j, NEW y \in DOMAIN s[x].entities, x = j => y < m
        PROVE  ~IsReplacement(g, s[x].entities[y])
    <2> SUFFICES ASSUME IsReplacement(g, s[x].entities[y]) PROVE FALSE
      OBVIOUS
    <2>1. IsReplacement(e, s[x].entities[y])
      BY Replacement
    <2>2. x \in Js
      BY <1>1, <1>4, <2>1 DEF EntitiesOf
    <2>3. x = j
      BY <1>3, <1>4, <2>2
    <2>4. y \in Ms /\ y < m /\ m <= y
      BY <1>6, <1>7, <2>1, <2>3
    <2> QED BY <1>5, <2>4
  <1>8. Fresh(s, ann, j, m)
    BY <1>7, Replacement DEF Fresh
  <1> QED BY <1>4, <1>8

\* A peer entity that stands behind the new announcement stood in the old list, and
\* the new announcement does not replace it: nothing it hides was dropped.
LEMMA AddStanding ==
  ASSUME NEW A \in Seq(Announcement), NEW ann \in Announcement,
         Chronological(A), \A i \in DOMAIN A : A[i].ts <= ann.ts,
         NEW n \in DOMAIN AfterAdd(A, ann), n # 1,
         NEW k \in DOMAIN AfterAdd(A, ann)[n].entities, Standing(AfterAdd(A, ann), n, k)
  PROVE  \E i \in DOMAIN A :
           /\ AfterAdd(A, ann)[n] = A[i] /\ Standing(A, i, k)
           /\ \A f \in EntitiesOf(ann) : ~IsReplacement(A[i].entities[k], f)
  <1> DEFINE t == <<ann>> \o A
             r == AfterAdd(A, ann)
             e == r[n].entities[k]
  <1>1. /\ t \in Seq(Announcement) /\ t[1] = ann /\ DOMAIN t = 1..(Len(A) + 1)
        /\ \A i \in DOMAIN t : i > 1 => i - 1 \in DOMAIN A /\ t[i] = A[i - 1]
        /\ r \in Seq(Announcement) /\ 1 \in DOMAIN r
    BY AddOrder
  <1>2. PICK at \in [DOMAIN r -> Retained(t, ann)] :
          /\ at[1] = 1
          /\ \A x \in DOMAIN r : r[x] = t[at[x]]
          /\ \A x, y \in DOMAIN r : x < y => at[x] < at[y]
          /\ \A i \in Retained(t, ann) : \E x \in DOMAIN r : at[x] = i
    BY ZenonT(30), AddOrder
  <1>3. Chronological(t)
    BY AddChronological
  <1>4. A \in Seq(Announcement) /\ \A i \in DOMAIN A : i + 1 \in DOMAIN t /\ t[i + 1] = A[i]
    BY <1>1
  <1> HIDE DEF t, r
  <1> DEFINE i == at[n]
  <1>5. Retained(t, ann) \in SUBSET DOMAIN t /\ i \in Retained(t, ann) /\ r[n] = t[i]
    BY <1>2 DEF Retained, r
  <1>6. i \in Nat /\ i > 1 /\ i - 1 \in DOMAIN A /\ t[i] = A[i - 1]
    <2>1. n \in Nat /\ 1 < n
      BY <1>1 DEF r
    <2> QED BY <1>1, <1>2, <1>5, <2>1 DEF r
  <1>7. e.kind = "peer" /\ \A m \in PeerPositions(t[i]) : m > k => LinkOf(t[i].entities[m]) # LinkOf(e)
    BY <1>5 DEF Standing, r
  <1>8. ASSUME NEW j \in 1..(i - 1), NEW f \in EntitiesOf(t[j])
        PROVE  ~IsReplacement(e, f)
    <2> SUFFICES ASSUME IsReplacement(e, f) PROVE FALSE
      OBVIOUS
    <2>1. j \in DOMAIN t
      BY <1>1, <1>5, <1>6
    <2>2. PICK x \in 1..j : \E m \in DOMAIN t[x].entities :
            IsReplacement(e, t[x].entities[m]) /\ Fresh(t, ann, x, m)
      BY <1>1, <2>1, FirstIsFresh
    <2>3. x \in DOMAIN t /\ x < i
      BY <1>1, <1>6, <2>1
    <2>4. ~Expired(t[x], ann)
      <3>1. t[x] \in Announcement /\ t[i] \in Announcement /\ t[x].ts >= t[i].ts /\ ~Expired(t[i], ann)
        <4>1. i \in DOMAIN t /\ t[x] \in Announcement /\ t[i] \in Announcement
          BY <1>1, <1>5, <2>3
        <4>2. ~Expired(t[i], ann)
          BY <1>5 DEF Retained
        <4> QED BY <1>3, <2>3, <4>1, <4>2 DEF Chronological
      <3>2. t[x].ts \in Nat /\ t[i].ts \in Nat /\ ann.ts \in Nat
        BY <3>1, AnnouncementFields
      <3> QED BY <3>1, <3>2, AgreedTimeoutAssumption DEF Expired
    <2>5. x \in Retained(t, ann)
      BY <2>2, <2>3, <2>4 DEF Retained
    <2>6. PICK y \in DOMAIN r : at[y] = x
      BY <1>2, <2>5
    <2>7. y \in Nat /\ n \in Nat /\ y < n /\ y >= 1
      <3>1. y \in Nat /\ n \in Nat /\ y >= 1
        BY <1>1 DEF r
      <3> QED BY <1>2, <1>6, <2>3, <2>6, <3>1 DEF r
    <2>8. PICK m \in DOMAIN t[x].entities : IsReplacement(e, t[x].entities[m])
      BY <2>2
    <2>9. t[x].entities[m] \in EntitiesOf(r[y])
      BY <1>2, <2>6, <2>8 DEF EntitiesOf
    <2>10. y \in 1..(n - 1)
      BY <2>7
    <2> QED BY <2>8, <2>9, <2>10 DEF Standing, r
  <1>9. \A f \in EntitiesOf(ann) : ~IsReplacement(e, f)
    <2>1. 1 \in 1..(i - 1) /\ t[1] = ann
      BY <1>1, <1>6
    <2> QED BY <1>8, <2>1
  <1>10. Standing(A, i - 1, k)
    <2>1. ASSUME NEW j \in 1..(i - 1 - 1), NEW f \in EntitiesOf(A[j]) PROVE ~IsReplacement(e, f)
      <3>1. j + 1 \in 1..(i - 1) /\ j \in DOMAIN A
        BY <1>6
      <3> QED BY <1>4, <1>8, <3>1
    <2> QED BY <1>5, <1>6, <1>7, <2>1 DEF Standing
  <1> QED BY <1>5, <1>6, <1>9, <1>10 DEF r

\* An entity in force that the new announcement does not replace stays in force, unless
\* everything that announced it has expired.
LEMMA AddKeepsInForce ==
  ASSUME NEW A \in Seq(Announcement), NEW ann \in Announcement,
         Chronological(A), \A i \in DOMAIN A : A[i].ts <= ann.ts,
         NEW e \in InForce(A), \A f \in EntitiesOf(ann) : ~IsReplacement(e, f),
         NEW w \in DOMAIN A, e \in EntitiesOf(A[w]), ~Expired(A[w], ann)
  PROVE  e \in InForce(AfterAdd(A, ann))
  <1> DEFINE t == <<ann>> \o A
             r == AfterAdd(A, ann)
  <1>1. /\ t \in Seq(Announcement) /\ t[1] = ann /\ DOMAIN t = 1..(Len(A) + 1)
        /\ \A i \in DOMAIN t : i > 1 => i - 1 \in DOMAIN A /\ t[i] = A[i - 1]
        /\ r \in Seq(Announcement) /\ 1 \in DOMAIN r /\ r[1] = ann
    BY AddOrder
  <1>2. PICK at \in [DOMAIN r -> Retained(t, ann)] :
          /\ at[1] = 1
          /\ \A x \in DOMAIN r : r[x] = t[at[x]]
          /\ \A x, y \in DOMAIN r : x < y => at[x] < at[y]
          /\ \A i \in Retained(t, ann) : \E x \in DOMAIN r : at[x] = i
    BY ZenonT(30), AddOrder
  <1>3. \A i \in DOMAIN A : i \in Nat /\ i >= 1 /\ i + 1 \in DOMAIN t /\ t[i + 1] = A[i]
    BY <1>1
  <1> HIDE DEF t, r
  <1>4. PICK i \in DOMAIN A : \E k \in DOMAIN A[i].entities :
          Fresh(A, A[1], i, k) /\ e = A[i].entities[k]
    BY DEF InForce
  <1>5. PICK k \in DOMAIN A[i].entities : Fresh(A, A[1], i, k) /\ e = A[i].entities[k]
    BY <1>4
  <1>6. 1 \in DOMAIN A /\ A[1] \in Announcement /\ A[1].ts <= ann.ts /\ A[1].ts \in Nat /\ ann.ts \in Nat
    BY AnnouncementFields
  <1>7. \A j \in DOMAIN A : A[j].ts \in Nat /\ A[j] \in Announcement
    BY AnnouncementFields
  <1>8. \A j \in DOMAIN A : ~Expired(A[j], ann) => ~Expired(A[j], A[1])
    BY <1>6, <1>7, AgreedTimeoutAssumption DEF Expired
  <1>9. ~IsEphemeral(e) /\ IsReplacement(e, e)
    BY <1>5, <1>7, AnnouncementFields, Replacement DEF Fresh
  <1>10. i <= w
    <2> SUFFICES ASSUME w < i PROVE FALSE
      BY <1>3
    <2>1. w \in 1..i /\ w # i
      BY <1>3
    <2>2. PICK m \in DOMAIN A[w].entities : e = A[w].entities[m]
      BY DEF EntitiesOf
    <2> QED BY <1>5, <1>8, <1>9, <2>1, <2>2 DEF Fresh
  <1>11. ~Expired(A[i], ann)
    <2>1. A[i].ts >= A[w].ts
      BY <1>3, <1>7, <1>10 DEF Chronological
    <2> QED BY <1>6, <1>7, <2>1, AgreedTimeoutAssumption DEF Expired
  <1>12. Fresh(t, ann, i + 1, k)
    <2>1. ASSUME NEW j \in 1..(i + 1), ~Expired(t[j], ann),
                 NEW m \in DOMAIN t[j].entities, j = i + 1 => m < k
          PROVE  IsEphemeral(t[j].entities[m]) \/ ~IsReplacement(e, t[j].entities[m])
      <3>1. CASE j = 1
        BY <1>1, <2>1, <3>1 DEF EntitiesOf
      <3>2. CASE j # 1
        <4>1. j - 1 \in 1..i /\ j - 1 \in DOMAIN A /\ t[j] = A[j - 1] /\ (j - 1 = i => m < k)
          <5>1. j \in Nat /\ j > 1 /\ j \in DOMAIN t /\ i \in Nat
            BY <1>1, <1>3, <3>2
          <5> QED BY <1>1, <2>1, <5>1
        <4>2. ~Expired(A[j - 1], A[1])
          BY <1>8, <2>1, <4>1
        <4> QED BY <1>5, <2>1, <4>1, <4>2 DEF Fresh
      <3> QED BY <3>1, <3>2
    <2>2. t[i + 1] = A[i]
      BY <1>3
    <2> QED BY <1>5, <1>9, <2>1, <2>2 DEF Fresh
  <1>13. i + 1 \in Retained(t, ann)
    BY <1>3, <1>5, <1>11, <1>12 DEF Retained
  <1>14. PICK n \in DOMAIN r : at[n] = i + 1
    BY <1>2, <1>13
  <1>15. r[n] = A[i]
    BY <1>2, <1>3, <1>14
  <1>16. Fresh(r, r[1], n, k)
    <2>1. ASSUME NEW j \in 1..n, ~Expired(r[j], ann),
                 NEW m \in DOMAIN r[j].entities, j = n => m < k
          PROVE  IsEphemeral(r[j].entities[m]) \/ ~IsReplacement(e, r[j].entities[m])
      <3>1. j \in DOMAIN r /\ j \in Nat /\ n \in Nat
        BY <1>1
      <3>2. at[j] \in 1..(i + 1) /\ (at[j] = i + 1 => j = n) /\ r[j] = t[at[j]]
        <4>1. Retained(t, ann) \in SUBSET DOMAIN t
          BY DEF Retained
        <4>2. at[j] \in Nat /\ at[j] >= 1
          BY <1>1, <1>2, <3>1, <4>1
        <4> QED BY SMTT(30), <1>2, <1>3, <1>14, <3>1, <4>2
      <3> QED BY <1>3, <1>5, <1>12, <2>1, <3>2 DEF Fresh
    <2> QED BY <1>1, <1>5, <1>9, <1>15, <2>1 DEF Fresh
  <1>17. k \in DOMAIN r[n].entities /\ e = r[n].entities[k]
    BY <1>5, <1>15
  <1> QED BY <1>16, <1>17 DEF InForce, r

\* Where no announcement of a list occurs twice, none does after a new one was added,
\* and none that is kept is dropped at another place.
LEMMA AddUnique ==
  ASSUME NEW A \in Seq(Announcement), NEW ann \in Announcement,
         \A i, j \in DOMAIN A : A[i] = A[j] => i = j, \A i \in DOMAIN A : A[i] # ann
  PROVE  LET r == AfterAdd(A, ann) IN
         /\ \A n, m \in DOMAIN r : r[n] = r[m] => n = m
         /\ \A n \in DOMAIN r : r[n] \notin DroppedByAdd(A, ann)
  <1> DEFINE t == <<ann>> \o A
             r == AfterAdd(A, ann)
  <1>1. /\ t \in Seq(Announcement) /\ t[1] = ann /\ DOMAIN t = 1..(Len(A) + 1)
        /\ \A i \in DOMAIN t : i > 1 => i - 1 \in DOMAIN A /\ t[i] = A[i - 1]
        /\ r \in Seq(Announcement)
    BY AddOrder
  <1>2. PICK at \in [DOMAIN r -> Retained(t, ann)] :
          /\ \A x \in DOMAIN r : r[x] = t[at[x]]
          /\ \A x, y \in DOMAIN r : x < y => at[x] < at[y]
    BY AddOrder
  <1>3. DroppedByAdd(A, ann) = { t[i] : i \in DOMAIN t \ Retained(t, ann) }
    BY DEF DroppedByAdd
  <1> HIDE DEF t, r
  <1>4. Retained(t, ann) \in SUBSET DOMAIN t
    BY DEF Retained
  <1>5. ASSUME NEW i \in DOMAIN t, NEW j \in DOMAIN t, t[i] = t[j] PROVE i = j
    <2>1. i \in Nat /\ j \in Nat /\ i >= 1 /\ j >= 1
      BY <1>1
    <2>2. CASE i > 1 /\ j > 1
      <3>1. i - 1 \in DOMAIN A /\ j - 1 \in DOMAIN A /\ A[i - 1] = A[j - 1]
        BY <1>1, <1>5, <2>2
      <3>2. i - 1 = j - 1
        BY <3>1
      <3> QED BY <2>1, <3>2
    <2> QED BY <1>1, <1>5, <2>1, <2>2
  <1>6. ASSUME NEW n \in DOMAIN r, NEW m \in DOMAIN r, r[n] = r[m] PROVE n = m
    <2>1. at[n] = at[m] /\ at[n] \in Int
      BY <1>1, <1>2, <1>4, <1>5, <1>6
    <2>2. n \in Nat /\ m \in Nat
      BY <1>1
    <2> QED BY <1>2, <2>1, <2>2
  <1>7. \A n \in DOMAIN r : r[n] \notin DroppedByAdd(A, ann)
    BY <1>2, <1>3, <1>4, <1>5
  <1> QED BY <1>6, <1>7 DEF r

-----------------------------------------------------------------------------
(* The inductive invariant.                                                  *)

USE DEF At

\* Collecting freed cells keeps every node the table or a handler refers to.
LEMMA CollectKeeps ==
  ASSUME NEW hp \in [Obj -> NodeState \cup {None}], NEW tbl, NEW hs
  PROVE  /\ Collect(hp, tbl, hs) \in [Obj -> NodeState \cup {None}]
         /\ \A o \in Obj : Collect(hp, tbl, hs)[o] # None => Collect(hp, tbl, hs)[o] = hp[o]
         /\ \A ip \in Ip : tbl[ip] \in Obj => Collect(hp, tbl, hs)[tbl[ip]] = hp[tbl[ip]]
         /\ \A p \in Handlers : hs[p].node \in Obj => Collect(hp, tbl, hs)[hs[p].node] = hp[hs[p].node]
  <1> DEFINE R == Referenced(tbl, hs)
  <1>1. /\ \A ip \in Ip : tbl[ip] \in R
        /\ \A p \in Handlers : hs[p].node \in R
    BY DEF Referenced
  <1>2. Collect(hp, tbl, hs) = [o \in Obj |-> IF o \in R THEN hp[o] ELSE None]
    BY DEF Collect
  <1> HIDE DEF R
  <1> QED BY <1>1, <1>2

\* The fields of announcements and nodes.
LEMMA Fields ==
  /\ \A a \in Ann : /\ a.node \in Ip /\ a.ts \in Nat /\ a.reset \in BOOLEAN
                    /\ a.entities \in Seq(Entity)
                    /\ \A i \in DOMAIN a.entities : a.entities[i] \in Entity
  /\ \A e \in Entity : e.kind = "peer" => /\ e.num \in PeerNum /\ e.ip \in Ip
                                          /\ e.label \in Nat /\ e.form \in Nat
  /\ \A e \in Entity : e.kind = "linkstate" => e.num \in PeerNum /\ e.filled \in Nat
  <1>1. \A a \in Ann : /\ a.node \in Ip /\ a.ts \in Nat /\ a.reset \in BOOLEAN
                       /\ a.entities \in Seq(Entity)
    BY AnnAssumption DEF Announcement
  <1>2. \A a \in Ann : \A i \in DOMAIN a.entities : a.entities[i] \in Entity
    BY <1>1
  <1>3. \A e \in Entity : e.kind = "peer" => /\ e.num \in PeerNum /\ e.ip \in Ip
                                             /\ e.label \in Nat /\ e.form \in Nat
    BY DEF Entity
  <1>4. \A e \in Entity : e.kind = "linkstate" => e.num \in PeerNum /\ e.filled \in Nat
    BY DEF Entity
  <1> QED BY <1>1, <1>2, <1>3, <1>4

\* A peer entity leaves a link or none.
LEMMA LinkAfterType ==
  ASSUME NEW old \in Link \cup {None}, NEW e \in Entity, e.kind = "peer", NEW a \in Ann
  PROVE  LinkAfter(old, e, a) \in Link \cup {None}
  <1>1. e.label \in Nat /\ e.form \in Nat /\ a.ts \in Nat
    BY Fields
  <1>2. [label |-> e.label, form |-> e.form, recent |-> a.ts, slots |-> {}] \in Link
    BY <1>1 DEF Link
  <1> QED BY <1>2 DEF LinkAfter

\* A handler that takes no part in a step keeps its part of the invariant when its
\* node keeps its address.
LEMMA OtherHandler ==
  ASSUME NEW q \in Handlers, HandlerOK(q), h'[q] = h[q],
         h[q].node # None => heap'[h[q].node] # None /\ heap'[h[q].node].ip = heap[h[q].node].ip
  PROVE  HandlerOK(q)'
  BY DEF HandlerOK

\* A step that changes only the handlers' state keeps the invariant if it keeps the
\* part about the handlers.
LEMMA OnlyHandlers ==
  ASSUME IndInv, UNCHANGED <<now, selfNode, nodes, heap, arrived, panicked>>,
         served' \subseteq Ann, h' \in [Handlers -> Handler], HandlersOK'
  PROVE  IndInv'
  BY DEF IndInv, TypeOK, TableOK, NodesOK

\* The states in which a handler waits for a connection or a message.
LEMMA AtType == At("off") \in Handler /\ At("idle") \in Handler
  BY DEF Handler, PC

\* The initial state satisfies the inductive invariant.
LEMMA InitInd == Init => IndInv
  <1> SUFFICES ASSUME Init PROVE IndInv
    OBVIOUS
  <1>1. h \in [Handlers -> Handler]
    BY AtType DEF Init
  <1>2. TypeOK
    <2>1. 0 \in 0..MaxNow /\ 0 \in 0..MaxDeliveries
      BY TimeAssumption, DeliveryAssumption
    <2>2. heap \in [Obj -> NodeState \cup {None}] /\ arrived \in [Ann -> 0..MaxDeliveries]
      BY <2>1 DEF Init
    <2>3. now \in 0..MaxNow /\ panicked \in BOOLEAN
      BY <2>1 DEF Init
    <2> QED BY <1>1, <2>2, <2>3 DEF Init, TypeOK
  <1>3. HandlersOK /\ TableOK /\ NodesOK
    BY DEF Init, HandlersOK, HandlerOK, TableOK, NodesOK
  <1> QED BY <1>2, <1>3 DEF IndInv

\* Steps that only read the shared state: arrival, lookup, checks, has_ann, sending.
LEMMA ReadersInd ==
  ASSUME IndInv, NEW p \in Handlers,
         \/ \E a \in Ann : Receive(p, a)
         \/ ReceiveBad(p) \/ Lookup(p) \/ Check1(p) \/ Check2(p)
         \/ HasAnn(p) \/ Publish(p) \/ InvSent(p) \/ Connect(p) \/ PanicNoVersion(p)
  PROVE  IndInv'
  <1> USE DEF IndInv
  <1>0. h \in [Handlers -> Handler] /\ h[p] \in Handler
    BY DEF TypeOK
  <1>1. ASSUME NEW a \in Ann, Receive(p, a) PROVE IndInv'
    <2>1. [At("lookup") EXCEPT !.ann = a, !.self = selfNode] \in Handler
      BY SelfAssumption DEF TypeOK, Handler, PC
    <2>2. h' \in [Handlers -> Handler]
      BY <1>0, <1>1, <2>1 DEF Receive
    <2>3. HandlersOK'
      BY <1>1 DEF Receive, HandlersOK, HandlerOK, TypeOK
    <2>4. arrived' \in [Ann -> 0..MaxDeliveries]
      <3>1. arrived \in [Ann -> 0..MaxDeliveries] /\ arrived[a] \in 0..MaxDeliveries
        BY DEF TypeOK
      <3>0. arrived[a] < MaxDeliveries
        BY <1>1 DEF Receive
      <3>2. arrived[a] + 1 \in 0..MaxDeliveries
        BY <3>0, <3>1, DeliveryAssumption
      <3> QED BY <1>1, <3>1, <3>2 DEF Receive
    <2> QED BY <1>1, <2>2, <2>3, <2>4 DEF Receive, TypeOK, TableOK, NodesOK
  <1>2. CASE ReceiveBad(p)
    <2>1. h' \in [Handlers -> Handler]
      BY <1>0, <1>2, AtType DEF ReceiveBad, Fail
    <2>2. HandlersOK'
      BY <1>2 DEF ReceiveBad, Fail, HandlersOK, HandlerOK, TypeOK
    <2> QED BY <1>2, <2>1, <2>2, OnlyHandlers DEF ReceiveBad, TypeOK
  <1>3. CASE Lookup(p)
    <2>1. h[p].ann \in Ann /\ h[p].ann.node \in Ip
      BY <1>3, Fields DEF Lookup, HandlersOK, HandlerOK
    <2>2. nodes[h[p].ann.node] \in Obj \cup {None}
      BY <2>1 DEF TypeOK
    <2>3. h' \in [Handlers -> Handler]
      BY <1>0, <1>3, <2>2 DEF Lookup, Handler, PC
    <2>4. HandlersOK'
      <3>1. /\ h \in [Handlers -> Handler] /\ h[p] \in Handler /\ h[p].pc = "lookup" /\ heap' = heap
            /\ \E next \in {"check1", "check2", "hash"} :
                 h' = [h EXCEPT ![p].node = nodes[h[p].ann.node], ![p].pc = next]
        BY <1>0, <1>3 DEF Lookup
      <3>2. /\ \A q \in Handlers : q # p => h'[q] = h[q]
            /\ h'[p].node = nodes[h[p].ann.node] /\ h'[p].ann = h[p].ann
            /\ h'[p].pc \in {"check1", "check2", "hash"}
        BY <3>1 DEF Handler
      <3>3. ASSUME NEW q \in Handlers, q # p  PROVE  HandlerOK(q)'
        BY ZenonT(30), <3>1, <3>2, <3>3 DEF HandlersOK, HandlerOK
      <3>4. HandlerOK(p)'
        <4>1. h'[p].node # None => heap[h'[p].node] # None /\ heap[h'[p].node].ip = h[p].ann.node
          BY <2>1, <3>2 DEF TableOK
        <4> QED BY <2>1, <3>1, <3>2, <4>1 DEF HandlerOK
      <3> QED BY <3>3, <3>4 DEF HandlersOK
    <2> QED BY <1>3, <2>3, <2>4, OnlyHandlers DEF Lookup, TypeOK
  <1>4. CASE Check1(p)
    <2>1. h' \in [Handlers -> Handler]
      BY <1>0, <1>4 DEF Check1, ToPc, Handler, PC
    <2>2. HandlersOK'
      BY <1>4 DEF Check1, ToPc, HandlersOK, HandlerOK, TypeOK
    <2> QED BY <1>4, <2>1, <2>2, OnlyHandlers DEF Check1, TypeOK
  <1>5. CASE Check2(p)
    <2>1. h' \in [Handlers -> Handler]
      BY <1>0, <1>5, AtType DEF Check2, ToPc, Return, Handler, PC
    <2>2. HandlersOK'
      BY <1>5, Fields DEF Check2, ToPc, Return, HandlersOK, HandlerOK, TypeOK
    <2> QED BY <1>5, <2>1, <2>2, OnlyHandlers DEF Check2, TypeOK
  <1>6. CASE HasAnn(p)
    <2>1. h' \in [Handlers -> Handler]
      BY <1>0, <1>6 DEF HasAnn, ToPc, Handler, PC
    <2>2. HandlersOK'
      BY <1>6 DEF HasAnn, ToPc, HandlersOK, HandlerOK, TypeOK
    <2> QED BY <1>6, <2>1, <2>2, OnlyHandlers DEF HasAnn, TypeOK
  <1>7. CASE Publish(p)
    <2>1. h' \in [Handlers -> Handler]
      BY <1>0, <1>7 DEF Publish, ToPc, Handler, PC
    <2>2. HandlersOK'
      BY <1>7 DEF Publish, ToPc, HandlersOK, HandlerOK, TypeOK
    <2>3. served' \subseteq Ann
      BY <1>7 DEF Publish, HandlersOK, HandlerOK, TypeOK
    <2> QED BY <1>7, <2>1, <2>2, <2>3, OnlyHandlers DEF Publish, TypeOK
  <1>8. CASE InvSent(p)
    <2>1. h' \in [Handlers -> Handler]
      BY <1>0, <1>8 DEF InvSent, ToPc, Handler, PC
    <2>2. HandlersOK'
      BY <1>8 DEF InvSent, ToPc, HandlersOK, HandlerOK, TypeOK
    <2> QED BY <1>8, <2>1, <2>2, OnlyHandlers DEF InvSent, TypeOK
  <1>9. CASE Connect(p)
    <2>1. h' \in [Handlers -> Handler]
      BY <1>0, <1>9, AtType DEF Connect
    <2>2. HandlersOK'
      BY <1>9 DEF Connect, HandlersOK, HandlerOK, TypeOK
    <2> QED BY <1>9, <2>1, <2>2 DEF Connect, TypeOK, TableOK, NodesOK
  <1>10. CASE PanicNoVersion(p)
    BY <1>10 DEF PanicNoVersion, TypeOK, HandlersOK, HandlerOK, TableOK, NodesOK
  <1> QED BY <1>1, <1>2, <1>3, <1>4, <1>5, <1>6, <1>7, <1>8, <1>9, <1>10

\* keep_table_clean takes stale nodes out of the table and frees them.
LEMMA CleanInd ==
  ASSUME IndInv, KeepTableClean
  PROVE  IndInv'
  <1> USE DEF IndInv
  <1>1. nodes' \in [Ip -> Obj \cup {None}] /\ \A ip \in Ip : nodes'[ip] \in {nodes[ip], None}
    BY DEF KeepTableClean, TypeOK
  <1>2. heap \in [Obj -> NodeState \cup {None}] /\ heap' = Collect(heap, nodes', h)
    BY DEF KeepTableClean, TypeOK
  <1>3. /\ heap' \in [Obj -> NodeState \cup {None}]
        /\ \A o \in Obj : heap'[o] # None => heap'[o] = heap[o]
        /\ \A ip \in Ip : nodes'[ip] \in Obj => heap'[nodes'[ip]] = heap[nodes'[ip]]
        /\ \A p \in Handlers : h[p].node \in Obj => heap'[h[p].node] = heap[h[p].node]
    BY <1>2, CollectKeeps
  <1>4. TypeOK'
    BY <1>1, <1>3 DEF KeepTableClean, TypeOK
  <1>5. HandlersOK'
    <2>1. \A p \in Handlers : h[p].node # None => h[p].node \in Obj
      BY DEF TypeOK, Handler
    <2> QED BY <1>3, <2>1 DEF KeepTableClean, HandlersOK, HandlerOK
  <1>6. TableOK'
    BY <1>1, <1>3 DEF TableOK, TypeOK
  <1>7. NodesOK'
    BY <1>3 DEF NodesOK
  <1> QED BY <1>4, <1>5, <1>6, <1>7

\* Steps that let go of a handler's node: a failed new_node, a lost connection.
LEMMA ReleaseInd ==
  ASSUME IndInv, NEW p \in Handlers, MakeNode(p) \/ Disconnect(p)
  PROVE  IndInv'
  <1> USE DEF IndInv
  <1>0. h \in [Handlers -> Handler] /\ h[p] \in Handler
    BY DEF TypeOK
  <1>1. heap' = Collect(heap, nodes, h') /\ heap \in [Obj -> NodeState \cup {None}]
    BY DEF MakeNode, Disconnect, TypeOK
  <1>2. h' \in [Handlers -> Handler]
    <2>1. CASE MakeNode(p)
      BY <1>0, <2>1, AtType DEF MakeNode, ToPc, Fail, Handler, PC
    <2>2. CASE Disconnect(p)
      BY <1>0, <2>2, AtType DEF Disconnect
    <2> QED BY <2>1, <2>2
  <1>3. /\ heap' \in [Obj -> NodeState \cup {None}]
        /\ \A o \in Obj : heap'[o] # None => heap'[o] = heap[o]
        /\ \A ip \in Ip : nodes[ip] \in Obj => heap'[nodes[ip]] = heap[nodes[ip]]
        /\ \A q \in Handlers : h'[q].node \in Obj => heap'[h'[q].node] = heap[h'[q].node]
    BY <1>1, CollectKeeps
  <1>4. TypeOK'
    BY <1>2, <1>3 DEF MakeNode, Disconnect, TypeOK
  <1>5. HandlersOK'
    <2>1. \A q \in Handlers : h'[q].node # None => h'[q].node \in Obj
      BY <1>2 DEF Handler
    <2>2. ASSUME NEW q \in Handlers, q # p PROVE HandlerOK(q)'
      <3>1. h'[q] = h[q]
        BY <1>0, <2>2 DEF MakeNode, ToPc, Fail, Disconnect
      <3>2. HandlerOK(q)
        BY DEF HandlersOK
      <3> QED BY <1>3, <2>1, <3>1, <3>2, OtherHandler DEF HandlerOK
    <2>3. HandlerOK(p)'
      <3>0. HandlerOK(p)
        BY DEF HandlersOK
      <3>1. CASE h'[p].pc \in {"off", "idle"} /\ h'[p].node = None
        BY <3>1 DEF HandlerOK
      <3>2. CASE h[p].pc = "new_node" /\ h' = ToPc(p, "add_node")
        <4>1. h'[p].pc = "add_node" /\ h'[p].ann = h[p].ann /\ h'[p].node = h[p].node
          BY <1>0, <3>2 DEF ToPc
        <4> QED BY <1>3, <2>1, <3>0, <3>2, <4>1 DEF HandlerOK
      <3>3. CASE MakeNode(p)
        BY <1>0, <3>1, <3>2, <3>3 DEF MakeNode, Fail
      <3>4. CASE Disconnect(p)
        BY <1>0, <3>1, <3>4 DEF Disconnect
      <3> QED BY <3>3, <3>4
    <2> QED BY <2>2, <2>3 DEF HandlersOK
  <1>6. TableOK' /\ NodesOK'
    BY <1>3 DEF MakeNode, Disconnect, TableOK, NodesOK, TypeOK
  <1> QED BY <1>4, <1>5, <1>6

\* What the steps of a handler on its own node have in common: the node keeps its
\* address and its reset message, and the handler goes on to its next step.
LEMMA UpdateNode ==
  ASSUME IndInv, NEW p \in Handlers, h[p].node # None, h[p].ann \in Ann,
         NEW n \in NodeState, n.ip = heap[h[p].node].ip, n.reset = heap[h[p].node].reset,
         \A i \in DOMAIN n.anns : /\ n.anns[i].node = n.ip
                                  /\ n.anns[i].reset => n.anns[i] = n.reset,
         heap' = [heap EXCEPT ![h[p].node] = n],
         UNCHANGED <<now, selfNode, nodes, arrived, panicked>>, served' \subseteq Ann,
         h' \in [Handlers -> Handler], \A q \in Handlers : q # p => h'[q] = h[q],
         h'[p].pc \in {"links", "has_ann"}, h'[p].node = h[p].node, h'[p].ann = h[p].ann
  PROVE  IndInv'
  <1> USE DEF IndInv
  <1> DEFINE o == h[p].node
  <1>1. h \in [Handlers -> Handler] /\ h[p] \in Handler /\ o \in Obj /\ n # None
    BY NoneAssumption DEF TypeOK, Handler
  <1>2. heap[o] # None /\ heap[o].ip = h[p].ann.node
    BY DEF HandlersOK, HandlerOK
  <1>3. heap \in [Obj -> NodeState \cup {None}]
    BY DEF TypeOK
  <1>4. heap'[o] = n /\ \A x \in Obj : x # o => heap'[x] = heap[x]
    BY <1>1, <1>3
  <1>5. \A x \in Obj : heap[x] # None => heap'[x] # None /\ heap'[x].ip = heap[x].ip
    BY <1>1, <1>4
  <1>6. TypeOK'
    <2>1. heap' \in [Obj -> NodeState \cup {None}]
      BY <1>1, <1>3
    <2> QED BY <2>1 DEF TypeOK
  <1>7. HandlersOK'
    <2>1. ASSUME NEW q \in Handlers, q # p PROVE HandlerOK(q)'
      <3>1. h'[q] = h[q]
        BY <2>1
      <3>2. HandlerOK(q) /\ h[q].node \in Obj \cup {None}
        BY <1>1 DEF HandlersOK, TypeOK, Handler
      <3>3. h[q].node # None => heap'[h[q].node] # None /\ heap'[h[q].node].ip = heap[h[q].node].ip
        BY <1>5, <3>2 DEF HandlerOK
      <3> QED BY <3>1, <3>2, <3>3, OtherHandler
    <2>2. HandlerOK(p)'
      <3>1. h'[p].pc \in {"links", "has_ann"} /\ h'[p].node = o /\ h'[p].ann = h[p].ann
        OBVIOUS
      <3> QED BY <1>1, <1>2, <1>4, <3>1 DEF HandlerOK
    <2> QED BY <2>1, <2>2 DEF HandlersOK
  <1>8. TableOK'
    BY <1>5 DEF TableOK, TypeOK
  <1>9. NodesOK'
    <2>1. ASSUME NEW x \in Obj, heap'[x] # None, x # o
          PROVE  heap'[x] = heap[x] /\ heap[x] # None
      BY <1>4, <2>1
    <2>2. n.reset.reset /\ n.reset.node = n.ip
      BY <1>1, <1>2 DEF NodesOK
    <2> QED BY <1>4, <2>1, <2>2 DEF NodesOK
  <1> QED BY <1>6, <1>7, <1>8, <1>9

\* The record a node becomes when one of its fields is assigned.
LEMMA NodeFields ==
  ASSUME NEW n \in NodeState
  PROVE  /\ n.ip \in Ip /\ n.ts \in Nat /\ n.anns \in Seq(Ann) /\ n.reset \in Ann
         /\ n.hash \in Seq(Ann) \cup {None} /\ n.links \in [LinkKey -> Link \cup {None}]
         /\ \A x \in Seq(Ann), t \in Nat : [n EXCEPT !.anns = x, !.ts = t] \in NodeState
         /\ \A x \in Seq(Ann) : [n EXCEPT !.hash = x] \in NodeState
         /\ \A x \in [LinkKey -> Link \cup {None}] : [n EXCEPT !.links = x] \in NodeState
  BY DEF NodeState

\* add_announcement
LEMMA AddAnnouncementInd ==
  ASSUME IndInv, NEW p \in Handlers, AddAnnouncement(p)
  PROVE  IndInv'
  <1> DEFINE a == h[p].ann
             o == h[p].node
             node == heap[o]
             n == [node EXCEPT !.anns = AfterAdd(node.anns, a), !.ts = a.ts]
  <1>1. /\ h \in [Handlers -> Handler] /\ heap \in [Obj -> NodeState \cup {None}]
        /\ o \in Obj /\ a \in Ann /\ ~a.reset
    BY DEF AddAnnouncement, IndInv, TypeOK, Handler, HandlersOK, HandlerOK
  <1>2. node \in NodeState /\ node.ip = a.node
    BY <1>1, NoneAssumption DEF AddAnnouncement, IndInv, HandlersOK, HandlerOK
  <1>3. node.anns \in Seq(Ann) /\ a.ts \in Nat
    BY <1>1, <1>2, NodeFields, Fields
  <1>4. AfterAdd(node.anns, a) \in Seq(Ann)
    BY <1>1, <1>3, AddSplits
  <1>5. n \in NodeState
    BY <1>2, <1>3, <1>4, NodeFields
  <1>6. n.ip = node.ip /\ n.reset = node.reset /\ n.anns = AfterAdd(node.anns, a)
    BY <1>2 DEF NodeState
  <1>7. \A i \in DOMAIN n.anns : n.anns[i].node = n.ip /\ (n.anns[i].reset => n.anns[i] = n.reset)
    <2>1. \A j \in DOMAIN node.anns : /\ node.anns[j].node = node.ip
                                      /\ node.anns[j].reset => node.anns[j] = node.reset
      BY <1>1, <1>2, NoneAssumption DEF IndInv, NodesOK
    <2>2. \A i \in DOMAIN n.anns : n.anns[i] = a \/ \E j \in DOMAIN node.anns : n.anns[i] = node.anns[j]
      BY <1>1, <1>3, <1>6, AddSplits
    <2> QED BY <1>1, <1>2, <1>6, <2>1, <2>2
  <1>8. heap' = [heap EXCEPT ![o] = n]
    BY <1>1, <1>2 DEF AddAnnouncement, NodeState
  <1>9. /\ h' \in [Handlers -> Handler] /\ \A q \in Handlers : q # p => h'[q] = h[q]
        /\ h'[p].pc = "links" /\ h'[p].node = o /\ h'[p].ann = a
    BY ZenonT(30), <1>1 DEF AddAnnouncement, Handler, PC
  <1>10. served' \subseteq Ann
    BY DEF AddAnnouncement, IndInv, TypeOK
  <1>11. UNCHANGED <<now, selfNode, nodes, arrived, panicked>> /\ o # None
    BY <1>1, NoneAssumption DEF AddAnnouncement
  <1> HIDE DEF n, node
  <1>12. n.ip = heap[h[p].node].ip /\ n.reset = heap[h[p].node].reset
    BY <1>6 DEF node
  <1>13. heap' = [heap EXCEPT ![h[p].node] = n]
    BY <1>8
  <1> QED BY <1>1, <1>5, <1>7, <1>9, <1>10, <1>11, <1>12, <1>13, UpdateNode

\* One peer entity of an announcement makes, changes or removes one link.
LEMMA UpdateLinkInd ==
  ASSUME IndInv, NEW p \in Handlers, UpdateLink(p)
  PROVE  IndInv'
  <1> DEFINE a == h[p].ann
             o == h[p].node
             node == heap[o]
  <1>1. /\ h \in [Handlers -> Handler] /\ heap \in [Obj -> NodeState \cup {None}]
        /\ o \in Obj /\ a \in Ann /\ o # None
    BY DEF UpdateLink, IndInv, TypeOK, Handler, HandlersOK, HandlerOK
  <1>2. node \in NodeState
    BY <1>1 DEF IndInv, HandlersOK, HandlerOK
  <1>3. node.links \in [LinkKey -> Link \cup {None}]
    BY <1>2, NodeFields
  <1>4. PICK i \in PeerPositions(a) :
          /\ heap' = [heap EXCEPT ![o].links[LinkOf(a.entities[i])] =
                        LinkAfter(node.links[LinkOf(a.entities[i])], a.entities[i], a)]
          /\ h' = [h EXCEPT ![p].next = i + 1]
    BY DEF UpdateLink
  <1> DEFINE e == a.entities[i]
             k == LinkOf(e)
             ls == [node.links EXCEPT ![k] = LinkAfter(node.links[k], e, a)]
             n == [node EXCEPT !.links = ls]
  <1>5. e \in Entity /\ e.kind = "peer" /\ i \in Nat
    BY <1>1, Fields DEF PeerPositions
  <1>6. k \in LinkKey
    BY <1>5, Fields DEF LinkKey, LinkOf
  <1>7. node.links[k] \in Link \cup {None}
    BY <1>3, <1>6
  <1>8. LinkAfter(node.links[k], e, a) \in Link \cup {None}
    BY <1>1, <1>5, <1>7, LinkAfterType
  <1> HIDE DEF k, e
  <1>9. ls \in [LinkKey -> Link \cup {None}]
    BY <1>3, <1>6, <1>8
  <1>10. heap' = [heap EXCEPT ![o] = n]
    BY <1>1, <1>2, <1>4 DEF NodeState, k, e
  <1>11. n \in NodeState
    BY <1>2, <1>9, NodeFields
  <1>12. n.ip = node.ip /\ n.reset = node.reset /\ n.anns = node.anns
    BY <1>2 DEF NodeState
  <1>13. \A j \in DOMAIN n.anns : n.anns[j].node = n.ip /\ (n.anns[j].reset => n.anns[j] = n.reset)
    BY <1>1, <1>2, <1>12, NoneAssumption DEF IndInv, NodesOK
  <1>14. /\ h' \in [Handlers -> Handler] /\ \A q \in Handlers : q # p => h'[q] = h[q]
         /\ h'[p].pc = "links" /\ h'[p].node = o /\ h'[p].ann = a
    <2>1. i + 1 \in Nat /\ h[p].pc = "links" /\ h[p] \in Handler
      BY <1>1, <1>5 DEF UpdateLink
    <2> QED BY <1>1, <1>4, <2>1 DEF Handler
  <1>15. UNCHANGED <<now, selfNode, nodes, arrived, panicked>> /\ served' \subseteq Ann
    BY DEF UpdateLink, IndInv, TypeOK
  <1> HIDE DEF n, ls
  <1> QED BY <1>1, <1>10, <1>11, <1>12, <1>13, <1>14, <1>15, UpdateNode

\* link_state_update1 touches nothing but links.
LEMMA LinkStateUpdateInd ==
  ASSUME IndInv, NEW p \in Handlers, LinkStateUpdate(p)
  PROVE  IndInv'
  <1> DEFINE a == h[p].ann
             o == h[p].node
             node == heap[o]
             links == node.links
             rep(k) == { e \in LinkStates(a) : e.num = k[2] }
             upd(k) == [links[k] EXCEPT !.recent = a.ts, !.slots = SlotsAfter(links[k], rep(k), a.ts)]
  <1>1. /\ h \in [Handlers -> Handler] /\ heap \in [Obj -> NodeState \cup {None}]
        /\ o \in Obj /\ a \in Ann /\ o # None
    BY DEF LinkStateUpdate, IndInv, TypeOK, Handler, HandlersOK, HandlerOK
  <1>2. node \in NodeState
    BY <1>1 DEF IndInv, HandlersOK, HandlerOK
  <1>3. links \in [LinkKey -> Link \cup {None}] /\ a.ts \in Nat
    BY <1>1, <1>2, NodeFields, Fields
  <1>4. PICK by_num \in [PeerNum -> Ip] :
          heap' = [heap EXCEPT ![o].links = [k \in LinkKey |->
            IF links[k] # None /\ by_num[k[2]] = k[1] /\ rep(k) # {}
            THEN upd(k) ELSE links[k]]]
    BY DEF LinkStateUpdate
  <1> DEFINE ls == [k \in LinkKey |->
                      IF links[k] # None /\ by_num[k[2]] = k[1] /\ rep(k) # {}
                      THEN upd(k) ELSE links[k]]
             n == [node EXCEPT !.links = ls]
  <1>5. ASSUME NEW k \in LinkKey, links[k] # None
        PROVE  upd(k) \in Link
    <2>1. links[k] \in Link
      BY <1>3, <1>5
    <2>3. \A e \in rep(k) : e.filled \in Nat
      BY <1>1, Fields DEF LinkStates, EntitiesOf
    <2>4. links[k].slots \in SUBSET Int
      BY <2>1 DEF Link
    <2>5. SlotsAfter(links[k], rep(k), a.ts) \in SUBSET Int
      BY <1>3, <2>3, <2>4, AgreedTimeoutAssumption DEF SlotsAfter
    <2> HIDE DEF rep, links
    <2> QED BY <1>3, <2>1, <2>5 DEF Link
  <1> HIDE DEF upd, links
  <1>6. ls \in [LinkKey -> Link \cup {None}]
    BY <1>3, <1>5
  <1>7. heap' = [heap EXCEPT ![o] = n]
    BY <1>1, <1>2, <1>4 DEF NodeState
  <1> HIDE DEF ls
  <1>8. n \in NodeState
    BY <1>2, <1>6, NodeFields
  <1>9. n.ip = node.ip /\ n.reset = node.reset /\ n.anns = node.anns
    BY <1>2 DEF NodeState
  <1>10. \A j \in DOMAIN n.anns : n.anns[j].node = n.ip /\ (n.anns[j].reset => n.anns[j] = n.reset)
    BY <1>1, <1>2, <1>9, NoneAssumption DEF IndInv, NodesOK
  <1>11. /\ h' \in [Handlers -> Handler] /\ \A q \in Handlers : q # p => h'[q] = h[q]
         /\ h'[p].pc = "has_ann" /\ h'[p].node = o /\ h'[p].ann = a
    <2>1. h' = ToPc(p, "has_ann") /\ h[p] \in Handler
      BY <1>1 DEF LinkStateUpdate
    <2> QED BY <1>1, <2>1 DEF ToPc, Handler, PC
  <1>12. UNCHANGED <<now, selfNode, nodes, arrived, panicked>> /\ served' \subseteq Ann
    BY DEF LinkStateUpdate, IndInv, TypeOK
  <1> HIDE DEF n
  <1> QED BY <1>1, <1>7, <1>8, <1>9, <1>10, <1>11, <1>12, UpdateNode

\* node_announcement_hash and the return of the handler.
LEMMA HashInd ==
  ASSUME IndInv, NEW p \in Handlers, Hash(p)
  PROVE  IndInv'
  <1> USE DEF IndInv
  <1> DEFINE o == h[p].node
             hp == IF o = None THEN heap ELSE [heap EXCEPT ![o].hash = StateHash(heap[o].anns)]
  <1>1. /\ h \in [Handlers -> Handler] /\ heap \in [Obj -> NodeState \cup {None}]
        /\ o \in Obj \cup {None}
    BY DEF TypeOK, Handler
  <1>2. o # None => heap[o] \in NodeState
    BY <1>1 DEF HandlersOK, HandlerOK
  <1>3. o # None => [heap[o] EXCEPT !.hash = StateHash(heap[o].anns)] \in NodeState
    BY <1>2, NodeFields DEF StateHash
  <1>4. /\ hp \in [Obj -> NodeState \cup {None}]
        /\ \A x \in Obj : (hp[x] # None) = (heap[x] # None)
        /\ \A x \in Obj : heap[x] # None =>
             hp[x].ip = heap[x].ip /\ hp[x].reset = heap[x].reset /\ hp[x].anns = heap[x].anns
    <2>1. CASE o = None
      BY <1>1, <2>1
    <2>2. CASE o # None
      <3> DEFINE n == [heap[o] EXCEPT !.hash = StateHash(heap[o].anns)]
      <3>1. hp = [heap EXCEPT ![o] = n]
        BY <1>1, <1>2, <2>2
      <3>2. n # None /\ n.ip = heap[o].ip /\ n.reset = heap[o].reset /\ n.anns = heap[o].anns
        BY <1>2, <1>3, <2>2, NoneAssumption DEF NodeState
      <3>3. heap[o] # None /\ n \in NodeState /\ o \in Obj
        BY <1>1, <1>2, <1>3, <2>2, NoneAssumption
      <3> HIDE DEF hp, n
      <3> QED BY <1>1, <3>1, <3>2, <3>3
    <2> QED BY <2>1, <2>2
  <1>5. heap' = Collect(hp, nodes, h')
    BY DEF Hash
  <1>6. /\ h' \in [Handlers -> Handler] /\ h'[p] = At("idle")
        /\ \A q \in Handlers : q # p => h'[q] = h[q]
    BY <1>1, AtType DEF Hash, Return
  <1> HIDE DEF hp
  <1>7. /\ heap' \in [Obj -> NodeState \cup {None}]
        /\ \A x \in Obj : heap'[x] # None => heap'[x] = hp[x]
        /\ \A ip \in Ip : nodes[ip] \in Obj => heap'[nodes[ip]] = hp[nodes[ip]]
        /\ \A q \in Handlers : h'[q].node \in Obj => heap'[h'[q].node] = hp[h'[q].node]
    BY <1>4, <1>5, CollectKeeps
  <1>8. TypeOK'
    BY <1>6, <1>7 DEF Hash, TypeOK
  <1>9. HandlersOK'
    <2>1. ASSUME NEW q \in Handlers, q # p PROVE HandlerOK(q)'
      <3>1. h'[q] = h[q] /\ HandlerOK(q) /\ h[q].node \in Obj \cup {None}
        BY <1>1, <1>6, <2>1 DEF HandlersOK, TypeOK, Handler
      <3> QED BY <1>4, <1>7, <3>1, OtherHandler DEF HandlerOK
    <2>2. HandlerOK(p)'
      BY <1>6 DEF HandlerOK
    <2> QED BY <2>1, <2>2 DEF HandlersOK
  <1>10. TableOK'
    <2>1. nodes' = nodes
      BY DEF Hash
    <2> QED BY <1>4, <1>7, <2>1 DEF TableOK, TypeOK
  <1>11. NodesOK'
    BY <1>4, <1>7 DEF NodesOK
  <1> QED BY <1>8, <1>9, <1>10, <1>11

\* A reset announcement makes a node, well formed and without links.
LEMMA NewNodeType ==
  ASSUME NEW a \in Ann
  PROVE  NewNode(a) \in NodeState /\ NewNode(a).ip = a.node /\ NewNode(a).reset = a
         /\ NewNode(a).anns = <<a>>
  <1>1. a.node \in Ip /\ a.ts \in Nat /\ <<a>> \in Seq(Ann)
    BY Fields
  <1>2. [k \in LinkKey |-> None] \in [LinkKey -> Link \cup {None}]
    OBVIOUS
  <1> QED BY <1>1, <1>2 DEF NewNode, NodeState

\* add_node puts a fresh cell into the table in place of the node it forgets.
LEMMA AddNodeInd ==
  ASSUME IndInv, NEW p \in Handlers, AddNode(p)
  PROVE  IndInv'
  <1> USE DEF IndInv
  <1> DEFINE a == h[p].ann
             o == CHOOSE x \in Obj : heap[x] = None
             hp == [heap EXCEPT ![o] = NewNode(a)]
  <1>1. /\ h \in [Handlers -> Handler] /\ heap \in [Obj -> NodeState \cup {None}]
        /\ nodes \in [Ip -> Obj \cup {None}] /\ h[p] \in Handler
    BY DEF TypeOK
  <1>2. a \in Ann /\ a.reset /\ a.node \in Ip /\ h[p].pc = "add_node"
    BY Fields DEF AddNode, HandlersOK, HandlerOK
  <1>3. o \in Obj /\ heap[o] = None
    BY DEF AddNode
  <1>4. /\ nodes' = [nodes EXCEPT ![a.node] = o]
        /\ h' = [h EXCEPT ![p].node = o, ![p].pc = "links", ![p].next = 1]
        /\ heap' = Collect(hp, nodes', h')
    BY DEF AddNode
  <1> HIDE DEF o
  <1>5. NewNode(a) \in NodeState /\ NewNode(a) # None
        /\ NewNode(a).ip = a.node /\ NewNode(a).reset = a /\ NewNode(a).anns = <<a>>
    BY <1>2, NewNodeType, NoneAssumption
  <1>6. /\ hp \in [Obj -> NodeState \cup {None}] /\ hp[o] = NewNode(a)
        /\ \A x \in Obj : x # o => hp[x] = heap[x]
    BY <1>1, <1>3, <1>5
  <1> HIDE DEF hp
  <1>7. /\ heap' \in [Obj -> NodeState \cup {None}]
        /\ \A x \in Obj : heap'[x] # None => heap'[x] = hp[x]
        /\ \A ip \in Ip : nodes'[ip] \in Obj => heap'[nodes'[ip]] = hp[nodes'[ip]]
        /\ \A q \in Handlers : h'[q].node \in Obj => heap'[h'[q].node] = hp[h'[q].node]
    <2>1. heap' = Collect(hp, nodes', h')
      BY <1>4
    <2>2. hp \in [Obj -> NodeState \cup {None}]
      BY <1>6
    <2> QED BY <2>1, <2>2, CollectKeeps
  <1>8. /\ h' \in [Handlers -> Handler] /\ \A q \in Handlers : q # p => h'[q] = h[q]
        /\ h'[p].pc = "links" /\ h'[p].node = o /\ h'[p].ann = a
    BY <1>1, <1>3, <1>4 DEF Handler, PC
  <1>9. /\ nodes' \in [Ip -> Obj \cup {None}] /\ nodes'[a.node] = o
        /\ \A ip \in Ip : ip # a.node => nodes'[ip] = nodes[ip]
    BY <1>1, <1>2, <1>3, <1>4
  <1>10. TypeOK'
    BY <1>7, <1>8, <1>9 DEF AddNode, TypeOK
  <1>11. HandlersOK'
    <2>1. ASSUME NEW q \in Handlers, q # p PROVE HandlerOK(q)'
      <3>1. h'[q] = h[q] /\ HandlerOK(q) /\ h[q].node \in Obj \cup {None}
        BY <1>1, <1>8, <2>1 DEF HandlersOK, TypeOK, Handler
      <3> QED BY <1>3, <1>6, <1>7, <3>1, OtherHandler DEF HandlerOK
    <2>2. HandlerOK(p)'
      <3>1. heap'[o] = NewNode(a) /\ o # None
        BY <1>3, <1>6, <1>7, <1>8, NoneAssumption
      <3> QED BY <1>2, <1>5, <1>8, <3>1 DEF HandlerOK
    <2> QED BY <2>1, <2>2 DEF HandlersOK
  <1>12. TableOK'
    <2> SUFFICES ASSUME NEW ip \in Ip, nodes'[ip] # None
                 PROVE  heap'[nodes'[ip]] # None /\ heap'[nodes'[ip]].ip = ip
      BY DEF TableOK
    <2>1. CASE ip = a.node
      BY <1>3, <1>5, <1>6, <1>7, <1>9, <2>1
    <2>2. CASE ip # a.node
      <3>1. nodes'[ip] = nodes[ip] /\ nodes[ip] \in Obj
        BY <1>1, <1>9, <2>2
      <3>2. heap[nodes[ip]] # None /\ heap[nodes[ip]].ip = ip
        BY <3>1 DEF TableOK
      <3> QED BY <1>3, <1>6, <1>7, <3>1, <3>2
    <2> QED BY <2>1, <2>2
  <1>13. NodesOK'
    <2>1. ASSUME NEW x \in Obj, heap'[x] # None, x # o
          PROVE  heap'[x] = heap[x] /\ heap[x] # None
      BY <1>6, <1>7, <2>1
    <2>2. \A i \in DOMAIN <<a>> : <<a>>[i] = a
      OBVIOUS
    <2>3. heap'[o] # None => heap'[o] = NewNode(a)
      BY <1>3, <1>6, <1>7
    <2> QED BY <1>2, <1>5, <2>1, <2>2, <2>3 DEF NodesOK
  <1> QED BY <1>10, <1>11, <1>12, <1>13

\* Every step keeps the inductive invariant.
LEMMA NextInd ==
  ASSUME IndInv, [Next]_vars
  PROVE  IndInv'
  <1>1. CASE Tick
    <2>1. now' \in 0..MaxNow
      BY <1>1, TimeAssumption DEF Tick, IndInv, TypeOK
    <2> QED BY <1>1, <2>1 DEF Tick, IndInv, TypeOK, HandlersOK, HandlerOK, TableOK, NodesOK
  <1>2. CASE UNCHANGED vars
    BY <1>2 DEF vars, IndInv, TypeOK, HandlersOK, HandlerOK, TableOK, NodesOK
  <1>3. CASE KeepTableClean
    BY <1>3, CleanInd
  <1>4. CASE \E p \in Handlers :
               \/ \E a \in Ann : Receive(p, a)
               \/ ReceiveBad(p) \/ Lookup(p) \/ Check1(p) \/ Check2(p)
               \/ HasAnn(p) \/ Publish(p) \/ InvSent(p) \/ Connect(p) \/ PanicNoVersion(p)
    BY <1>4, ReadersInd
  <1>5. CASE \E p \in Handlers : MakeNode(p) \/ Disconnect(p)
    BY <1>5, ReleaseInd
  <1>6. CASE \E p \in Handlers : AddNode(p)
    BY <1>6, AddNodeInd
  <1>7. CASE \E p \in Handlers : AddAnnouncement(p)
    BY <1>7, AddAnnouncementInd
  <1>8. CASE \E p \in Handlers : UpdateLink(p)
    BY <1>8, UpdateLinkInd
  <1>9. CASE \E p \in Handlers : LinkStateUpdate(p)
    BY <1>9, LinkStateUpdateInd
  <1>10. CASE \E p \in Handlers : Hash(p)
    BY <1>10, HashInd
  <1> QED BY <1>1, <1>2, <1>3, <1>4, <1>5, <1>6, <1>7, <1>8, <1>9, <1>10 DEF Next

\* Whatever arrives and however the handlers and the cleaner interleave, handlers and
\* table refer to live nodes of the right address, and a node's list holds no reset
\* announcement but the one the node was made of.
THEOREM IndInvariant == Spec => []IndInv
  <1>1. Init => IndInv
    BY InitInd
  <1>2. IndInv /\ [Next]_vars => IndInv'
    BY NextInd
  <1> QED BY <1>1, <1>2, PTL DEF Spec

\* Type correctness of the handler's state.
THEOREM TypeCorrect == Spec => []TypeOK
  <1>1. IndInv => TypeOK
    BY DEF IndInv
  <1> QED BY <1>1, IndInvariant, PTL

-----------------------------------------------------------------------------
(* What a step does to the state of the nodes in the table.                  *)

\* Steps of a handler other than add_node and add_announcement.
ReadStep(p) ==
  \/ \E a \in Ann : Receive(p, a)
  \/ ReceiveBad(p) \/ Lookup(p) \/ Check1(p) \/ Check2(p) \/ PanicNoVersion(p)
  \/ HasAnn(p) \/ Publish(p) \/ InvSent(p) \/ Connect(p)

QuietStep(p) ==
  ReadStep(p) \/ MakeNode(p) \/ Disconnect(p) \/ UpdateLink(p) \/ LinkStateUpdate(p) \/ Hash(p)

\* The node behind an Arc keeps its announcements.
SameState(o) ==
  /\ heap'[o].anns = heap[o].anns /\ heap'[o].reset = heap[o].reset
  /\ heap'[o].ts = heap[o].ts

\* Its hash changes only where a handler at its end computes it.
HashAfter(p, o) ==
  heap'[o].hash = IF h[p].pc = "hash" /\ h[p].node = o THEN StateHash(heap[o].anns) ELSE heap[o].hash

\* The steps of Next, sorted by what they do to the table.
LEMMA StepCases ==
  ASSUME [Next]_vars
  PROVE  \/ UNCHANGED vars \/ Tick \/ KeepTableClean
         \/ \E p \in Handlers : QuietStep(p) \/ AddNode(p) \/ AddAnnouncement(p)
  BY DEF Next, QuietStep, ReadStep

\* Only add_node and keep_table_clean change the table, only add_announcement the
\* announcements of a node in it.
LEMMA QuietKeeps ==
  ASSUME IndInv, NEW p \in Handlers, QuietStep(p)
  PROVE  /\ nodes' = nodes
         /\ \A ip \in Ip : nodes[ip] # None => SameState(nodes[ip]) /\ HashAfter(p, nodes[ip])
  <1> USE DEF IndInv
  <1>1. /\ heap \in [Obj -> NodeState \cup {None}] /\ h \in [Handlers -> Handler]
        /\ \A ip \in Ip : nodes[ip] # None => nodes[ip] \in Obj
        /\ h[p].node \in Obj \cup {None}
    BY DEF TypeOK, Handler
  <1>2. CASE ReadStep(p)
    <2>1. UNCHANGED <<nodes, heap>> /\ h[p].pc # "hash"
      BY <1>2 DEF ReadStep, Receive, ReceiveBad, Lookup, Check1, Check2, PanicNoVersion,
                  HasAnn, Publish, InvSent, Connect
    <2> QED BY <2>1 DEF SameState, HashAfter
  <1>3. CASE MakeNode(p) \/ Disconnect(p)
    <2>1. nodes' = nodes /\ heap' = Collect(heap, nodes, h') /\ h[p].pc # "hash"
      BY <1>3 DEF MakeNode, Disconnect
    <2>2. \A ip \in Ip : nodes[ip] \in Obj => heap'[nodes[ip]] = heap[nodes[ip]]
      BY <1>1, <2>1, CollectKeeps
    <2> QED BY <1>1, <2>1, <2>2 DEF SameState, HashAfter
  <1>4. CASE UpdateLink(p)
    <2>1. PICK k, l : heap' = [heap EXCEPT ![h[p].node].links[k] = l]
      BY <1>4 DEF UpdateLink
    <2>2. \A o \in Obj : heap[o] \in NodeState => SameState(o) /\ heap'[o].hash = heap[o].hash
      BY <1>1, <2>1 DEF SameState, NodeState
    <2>3. nodes' = nodes /\ h[p].pc = "links"
      BY <1>4 DEF UpdateLink
    <2> QED BY <1>1, <2>2, <2>3 DEF TableOK, HashAfter
  <1>5. CASE LinkStateUpdate(p)
    <2>1. PICK ls : heap' = [heap EXCEPT ![h[p].node].links = ls]
      BY <1>5 DEF LinkStateUpdate
    <2>2. \A o \in Obj : heap[o] \in NodeState => SameState(o) /\ heap'[o].hash = heap[o].hash
      BY <1>1, <2>1 DEF SameState, NodeState
    <2>3. nodes' = nodes /\ h[p].pc = "links"
      BY <1>5 DEF LinkStateUpdate
    <2> QED BY <1>1, <2>2, <2>3 DEF TableOK, HashAfter
  <1>6. CASE Hash(p)
    <2>1. PICK hp : /\ heap' = Collect(hp, nodes, h') /\ nodes' = nodes
                    /\ hp = IF h[p].node = None THEN heap
                            ELSE [heap EXCEPT ![h[p].node].hash = StateHash(heap[h[p].node].anns)]
      BY <1>6 DEF Hash
    <2>2. \A o \in Obj : heap[o] \in NodeState =>
            /\ hp[o].anns = heap[o].anns /\ hp[o].reset = heap[o].reset /\ hp[o].ts = heap[o].ts
            /\ hp[o].hash = IF h[p].node = o THEN StateHash(heap[o].anns) ELSE heap[o].hash
      <3> SUFFICES ASSUME NEW o \in Obj, heap[o] \in NodeState
                   PROVE  /\ hp[o].anns = heap[o].anns /\ hp[o].reset = heap[o].reset /\ hp[o].ts = heap[o].ts
                          /\ hp[o].hash = IF h[p].node = o THEN StateHash(heap[o].anns) ELSE heap[o].hash
        OBVIOUS
      <3>1. CASE h[p].node = o
        <4>1. hp[o] = [heap[o] EXCEPT !.hash = StateHash(heap[o].anns)]
          BY <1>1, <2>1, <3>1, NoneAssumption
        <4> QED BY <3>1, <4>1 DEF NodeState
      <3>2. CASE h[p].node # o
        BY <1>1, <2>1, <3>2
      <3> QED BY <3>1, <3>2
    <2>3. \A ip \in Ip : nodes[ip] \in Obj => heap'[nodes[ip]] = hp[nodes[ip]]
      <3>1. \A o \in Obj : o \in Referenced(nodes, h') => heap'[o] = hp[o]
        BY <2>1 DEF Collect
      <3> QED BY <3>1 DEF Referenced
    <2>4. \A ip \in Ip : nodes[ip] # None => heap[nodes[ip]] \in NodeState
      BY <1>1 DEF TableOK
    <2>5. nodes' = nodes /\ h[p].pc = "hash"
      BY <1>6, <2>1 DEF Hash
    <2> QED BY <1>1, <2>2, <2>3, <2>4, <2>5 DEF SameState, HashAfter
  <1> QED BY <1>2, <1>3, <1>4, <1>5, <1>6 DEF QuietStep

\* keep_table_clean: a node stays as it is or is forgotten.
LEMMA CleanKeeps ==
  ASSUME IndInv, KeepTableClean, NEW ip \in Ip, nodes[ip] # None
  PROVE  \/ nodes'[ip] = None /\ served' \cap Forgotten(heap[nodes[ip]]) = {}
         \/ nodes'[ip] = nodes[ip] /\ heap'[nodes[ip]] = heap[nodes[ip]]
  <1>1. nodes' = [x \in Ip |-> IF Stale(x) THEN None ELSE nodes[x]]
    BY DEF KeepTableClean
  <1>2. CASE Stale(ip)
    BY <1>1, <1>2 DEF KeepTableClean
  <1>3. CASE ~Stale(ip)
    <2>1. nodes'[ip] = nodes[ip] /\ nodes[ip] \in Obj
      BY <1>1, <1>3 DEF IndInv, TypeOK
    <2>2. heap' = Collect(heap, nodes', h) /\ heap \in [Obj -> NodeState \cup {None}]
      BY DEF KeepTableClean, IndInv, TypeOK
    <2> QED BY <2>1, <2>2, CollectKeeps
  <1> QED BY <1>2, <1>3

\* add_node: the other nodes of the table stay as they are, the new one is what
\* new_node makes, and what the old one stood on is no longer served.
LEMMA AddNodeEffect ==
  ASSUME IndInv, NEW p \in Handlers, AddNode(p)
  PROVE  LET a == h[p].ann IN
         /\ a \in Ann /\ a.node \in Ip
         /\ nodes'[a.node] \in Obj /\ heap'[nodes'[a.node]] = NewNode(a)
         /\ h'[p].node = nodes'[a.node] /\ h'[p].ann = a /\ h'[p].pc = "links"
         /\ nodes[a.node] # None => served' = served \ Forgotten(heap[nodes[a.node]])
         /\ nodes[a.node] = None => served' = served
         /\ \A ip \in Ip : ip # a.node /\ nodes[ip] # None =>
              nodes'[ip] = nodes[ip] /\ heap'[nodes[ip]] = heap[nodes[ip]]
         /\ \A ip \in Ip : ip # a.node => nodes'[ip] = nodes[ip]
  <1> USE DEF IndInv
  <1> DEFINE a == h[p].ann
             o == CHOOSE x \in Obj : heap[x] = None
             hp == [heap EXCEPT ![o] = NewNode(a)]
  <1>1. /\ h \in [Handlers -> Handler] /\ heap \in [Obj -> NodeState \cup {None}]
        /\ nodes \in [Ip -> Obj \cup {None}] /\ h[p] \in Handler
    BY DEF TypeOK
  <1>2. a \in Ann /\ a.node \in Ip
    BY Fields DEF AddNode, HandlersOK, HandlerOK
  <1>3. o \in Obj /\ heap[o] = None
    BY DEF AddNode
  <1>4. /\ nodes' = [nodes EXCEPT ![a.node] = o]
        /\ h' = [h EXCEPT ![p].node = o, ![p].pc = "links", ![p].next = 1]
    BY DEF AddNode
  <1>5. heap' = Collect(hp, nodes', h')
    BY DEF AddNode
  <1> HIDE DEF o
  <1>6. NewNode(a) \in NodeState
    BY <1>2, NewNodeType
  <1>7. /\ hp \in [Obj -> NodeState \cup {None}] /\ hp[o] = NewNode(a)
        /\ \A x \in Obj : x # o => hp[x] = heap[x]
    BY <1>1, <1>3, <1>6
  <1> HIDE DEF hp
  <1>8. \A ip \in Ip : nodes'[ip] \in Obj => heap'[nodes'[ip]] = hp[nodes'[ip]]
    BY <1>5, <1>7, CollectKeeps
  <1>9. nodes'[a.node] = o /\ \A ip \in Ip : ip # a.node => nodes'[ip] = nodes[ip]
    BY <1>1, <1>2, <1>4
  <1>10. \A ip \in Ip : nodes[ip] # None => nodes[ip] \in Obj /\ nodes[ip] # o
    BY <1>1, <1>3 DEF TableOK
  <1>11. h'[p].node = o /\ h'[p].ann = a /\ h'[p].pc = "links"
    BY <1>1, <1>4 DEF Handler
  <1>12. /\ nodes[a.node] # None => served' = served \ Forgotten(heap[nodes[a.node]])
         /\ nodes[a.node] = None => served' = served
    BY DEF AddNode
  <1> QED BY <1>2, <1>3, <1>7, <1>8, <1>9, <1>10, <1>11, <1>12

\* add_announcement changes one node, which keeps its reset message.
LEMMA AddAnnouncementEffect ==
  ASSUME IndInv, NEW p \in Handlers, AddAnnouncement(p)
  PROVE  LET a == h[p].ann
             o == h[p].node IN
         /\ a \in Ann /\ ~a.reset /\ o \in Obj /\ heap[o] \in NodeState
         /\ nodes' = nodes
         /\ \A x \in Obj : x # o => heap'[x] = heap[x]
         /\ heap'[o] = [heap[o] EXCEPT !.anns = AfterAdd(heap[o].anns, a), !.ts = a.ts]
         /\ served' = served \ Withdrawn(heap[o], a)
         /\ h'[p].node = o /\ h'[p].ann = a /\ h'[p].pc = "links"
  <1> USE DEF IndInv
  <1>1. /\ h \in [Handlers -> Handler] /\ heap \in [Obj -> NodeState \cup {None}]
        /\ h[p] \in Handler /\ h[p].pc = "add_ann"
    BY DEF TypeOK, AddAnnouncement
  <1>2. h[p].node # None /\ h[p].ann \in Ann /\ ~h[p].ann.reset /\ heap[h[p].node] # None
    BY <1>1 DEF HandlersOK, HandlerOK
  <1>3. h[p].node \in Obj /\ heap[h[p].node] \in NodeState
    BY <1>1, <1>2 DEF Handler
  <1>4. /\ \A x \in Obj : x # h[p].node => heap'[x] = heap[x]
        /\ heap'[h[p].node] = [heap[h[p].node] EXCEPT
              !.anns = AfterAdd(heap[h[p].node].anns, h[p].ann), !.ts = h[p].ann.ts]
    BY <1>1, <1>3 DEF AddAnnouncement, NodeState
  <1>5. h'[p].node = h[p].node /\ h'[p].ann = h[p].ann /\ h'[p].pc = "links"
    BY <1>1 DEF AddAnnouncement, Handler
  <1>6. nodes' = nodes /\ served' = served \ Withdrawn(heap[h[p].node], h[p].ann)
    BY DEF AddAnnouncement
  <1> QED BY <1>2, <1>3, <1>4, <1>5, <1>6

-----------------------------------------------------------------------------
(* Announcements are served while they are live, and no longer.              *)

\* Everything a node stands on was announced by the node's own address.
LEMMA ForgottenOrigin ==
  ASSUME IndInv, NEW o \in Obj, heap[o] # None, NEW a \in Forgotten(heap[o])
  PROVE  a.node = heap[o].ip
  BY DEF IndInv, NodesOK, Forgotten

\* A step takes what a node of the table stood on out of the announcement list with
\* it, whether the node was reset or forgotten or one announcement was superseded.
LEMMA DeadWithdrawn ==
  ASSUME IndInv, [Next]_vars, NEW a \in Live, a \notin Live'
  PROVE  a \notin served'
  <1> USE DEF IndInv
  <1>1. PICK ip \in Ip : nodes[ip] # None /\ a \in Forgotten(heap[nodes[ip]])
    BY DEF Live
  <1>2. ~(nodes'[ip] # None /\ a \in Forgotten(heap'[nodes'[ip]]))
    BY <1>1 DEF Live
  <1>3. CASE UNCHANGED vars \/ Tick
    BY <1>1, <1>2, <1>3 DEF vars, Tick
  <1>4. CASE KeepTableClean
    BY <1>1, <1>2, <1>4, CleanKeeps
  <1>5. ASSUME NEW p \in Handlers, QuietStep(p) PROVE FALSE
    BY <1>1, <1>2, <1>5, QuietKeeps DEF SameState, Forgotten
  <1>6. ASSUME NEW p \in Handlers, AddNode(p) PROVE a \notin served'
    BY <1>1, <1>2, <1>6, AddNodeEffect
  <1>7. ASSUME NEW p \in Handlers, AddAnnouncement(p) PROVE a \notin served'
    <2> DEFINE o == h[p].node
               n == heap[o]
    <2>1. /\ h[p].ann \in Ann /\ ~h[p].ann.reset /\ o \in Obj /\ n \in NodeState
          /\ nodes' = nodes /\ \A x \in Obj : x # o => heap'[x] = heap[x]
          /\ heap'[o] = [n EXCEPT !.anns = AfterAdd(n.anns, h[p].ann), !.ts = h[p].ann.ts]
          /\ served' = served \ Withdrawn(n, h[p].ann)
      BY <1>7, AddAnnouncementEffect
    <2>2. nodes[ip] = o
      <3>1. nodes[ip] \in Obj
        BY <1>1 DEF TypeOK
      <3> QED BY <1>1, <1>2, <2>1, <3>1
    <2> HIDE DEF n
    <2>3. heap'[o].reset = n.reset /\ heap'[o].anns = AfterAdd(n.anns, h[p].ann)
      BY <2>1 DEF NodeState
    <2>4. a # n.reset
      BY <1>1, <1>2, <2>1, <2>2, <2>3 DEF Forgotten
    <2>5. PICK i \in DOMAIN n.anns : a = n.anns[i]
      BY <1>1, <2>2, <2>4 DEF Forgotten, n
    <2>6. n.anns \in Seq(Ann)
      BY <2>1, NodeFields
    <2>7. a \in DroppedByAdd(n.anns, h[p].ann)
      <3>1. \/ a \in DroppedByAdd(n.anns, h[p].ann)
            \/ \E k \in DOMAIN AfterAdd(n.anns, h[p].ann) : AfterAdd(n.anns, h[p].ann)[k] = a
        BY <2>1, <2>5, <2>6, AddKeepsOrDrops
      <3>2. \A k \in DOMAIN heap'[o].anns : heap'[o].anns[k] # a
        <4>1. a \notin Forgotten(heap'[o])
          BY <1>1, <1>2, <2>1, <2>2
        <4> QED BY <4>1 DEF Forgotten
      <3> QED BY <2>3, <3>1, <3>2
    <2> QED BY <2>1, <2>4, <2>7 DEF Withdrawn
  <1> QED BY <1>3, <1>4, <1>5, <1>6, <1>7, StepCases

\* No supernode can fetch from us what is no longer part of any node: the step that
\* resets, forgets, expires or supersedes an announcement withdraws it, whatever the
\* interleaving and however often announcements arrive.
THEOREM Withdrawal == Spec => WithdrawnWhenDead
  <1>1. IndInv /\ [Next]_vars => [\A a \in Live : a \notin Live' => a \notin served']_vars
    BY DeadWithdrawn
  <1> QED BY <1>1, IndInvariant, PTL DEF Spec, WithdrawnWhenDead

\* A step of one handler leaves the others where they are.
LEMMA OneMoves ==
  ASSUME IndInv, NEW p \in Handlers, QuietStep(p) \/ AddNode(p) \/ AddAnnouncement(p)
  PROVE  \A q \in Handlers : q # p => h'[q] = h[q]
  <1>1. h \in [Handlers -> Handler]
    BY DEF IndInv, TypeOK
  <1>2. CASE ReadStep(p)
    BY <1>1, <1>2 DEF ReadStep, Receive, ReceiveBad, Lookup, Check1, Check2, PanicNoVersion,
                      HasAnn, Publish, InvSent, Connect, ToPc, Return, Fail
  <1>3. CASE MakeNode(p) \/ Disconnect(p) \/ UpdateLink(p) \/ LinkStateUpdate(p) \/ Hash(p)
    BY <1>1, <1>3 DEF MakeNode, Disconnect, UpdateLink, LinkStateUpdate, Hash, ToPc, Return, Fail
  <1>4. CASE AddNode(p)
    BY <1>1, <1>4 DEF AddNode
  <1>5. CASE AddAnnouncement(p)
    BY <1>1, <1>5 DEF AddAnnouncement
  <1> QED BY <1>2, <1>3, <1>4, <1>5 DEF QuietStep

\* A handler whose announcement is part of its node goes on to publish it and does so:
\* has_ann finds it.
LEMMA PublishesLive ==
  ASSUME IndInv, NEW p \in Handlers, QuietStep(p),
         h[p].pc \in {"links", "has_ann", "publish"}, h[p].ann \in Forgotten(heap[h[p].node])
  PROVE  \/ h'[p].pc \in {"links", "has_ann", "publish"} /\ h'[p].node = h[p].node /\ h'[p].ann = h[p].ann
         \/ h[p].ann \in served'
  <1>1. h \in [Handlers -> Handler] /\ h[p] \in Handler
    BY DEF IndInv, TypeOK
  <1>2. CASE ReadStep(p)
    <2>1. CASE HasAnn(p)
      <3>1. h' = ToPc(p, "publish")
        BY <2>1 DEF HasAnn
      <3> QED BY <1>1, <3>1 DEF ToPc, Handler
    <2>2. CASE Publish(p)
      BY <2>2 DEF Publish
    <2> QED BY <1>2, <2>1, <2>2 DEF ReadStep, Receive, ReceiveBad, Lookup, Check1, Check2,
                                    PanicNoVersion, InvSent, Connect
  <1>3. CASE UpdateLink(p)
    <2>1. PICK i : h' = [h EXCEPT ![p].next = i] /\ h[p].pc = "links"
      BY <1>3 DEF UpdateLink
    <2> QED BY <1>1, <2>1 DEF Handler
  <1>4. CASE LinkStateUpdate(p)
    <2>1. h' = ToPc(p, "has_ann")
      BY <1>4 DEF LinkStateUpdate
    <2> QED BY <1>1, <2>1 DEF ToPc, Handler
  <1>5. ~MakeNode(p) /\ ~Disconnect(p) /\ ~Hash(p)
    BY DEF MakeNode, Disconnect, Hash
  <1> QED BY <1>2, <1>3, <1>4, <1>5 DEF QuietStep

\* Publishing, in the state after the step.
StillPublishing(o, a) ==
  \E p \in Handlers : /\ h'[p].node = o /\ h'[p].ann = a
                      /\ h'[p].pc \in {"links", "has_ann", "publish"}

\* ResetServed, together with the inductive invariant, is kept by every step.
LEMMA ResetServedStep ==
  ASSUME IndInv, ResetServed, [Next]_vars
  PROVE  ResetServed'
  <1> USE DEF IndInv
  <1> SUFFICES ASSUME NEW ip \in Ip, nodes'[ip] # None
               PROVE  LET o == nodes'[ip] IN heap'[o].reset \in served' \/ StillPublishing(o, heap'[o].reset)
    BY DEF ResetServed, Publishing, StillPublishing
  <1> DEFINE o == nodes[ip]
             r == heap[o].reset
  <1>1. nodes[ip] # None => \/ r \in served
                            \/ \E q \in Handlers : /\ h[q].node = o /\ h[q].ann = r
                                                   /\ h[q].pc \in {"links", "has_ann", "publish"}
    BY DEF ResetServed, Publishing
  <1>2. nodes[ip] # None => o \in Obj /\ heap[o] # None /\ heap[o].ip = ip /\ r.reset /\ r.node = ip
    BY DEF TypeOK, TableOK, NodesOK
  <1>3. CASE UNCHANGED vars \/ Tick
    BY <1>1, <1>3 DEF vars, Tick, StillPublishing
  <1>4. CASE KeepTableClean
    <2>1. nodes[ip] # None /\ nodes'[ip] = o /\ heap'[o] = heap[o] /\ h' = h
      <3>1. nodes[ip] # None
        BY <1>4 DEF KeepTableClean
      <3> QED BY <1>4, <3>1, CleanKeeps DEF KeepTableClean
    <2>2. r \in served => r \in served'
      <3>1. \A x \in Ip : Stale(x) => x # ip
        BY <1>4 DEF KeepTableClean
      <3>2. ASSUME NEW x \in Ip, Stale(x) PROVE r \notin Forgotten(heap[nodes[x]])
        <4>1. nodes[x] \in Obj /\ heap[nodes[x]] # None /\ heap[nodes[x]].ip = x
          BY <3>2 DEF Stale, TableOK, TypeOK
        <4> QED BY <1>2, <2>1, <3>1, <3>2, <4>1, ForgottenOrigin
      <3>3. served' = served \ UNION { Forgotten(heap[nodes[x]]) : x \in { y \in Ip : Stale(y) } }
        BY <1>4 DEF KeepTableClean
      <3> QED BY <3>2, <3>3
    <2> QED BY <1>1, <2>1, <2>2 DEF StillPublishing
  <1>5. ASSUME NEW p \in Handlers, AddNode(p)
        PROVE  heap'[nodes'[ip]].reset \in served' \/ StillPublishing(nodes'[ip], heap'[nodes'[ip]].reset)
    <2> DEFINE a == h[p].ann
    <2>1. /\ a \in Ann /\ a.node \in Ip
          /\ nodes'[a.node] \in Obj /\ heap'[nodes'[a.node]] = NewNode(a)
          /\ h'[p].node = nodes'[a.node] /\ h'[p].ann = a /\ h'[p].pc = "links"
          /\ nodes[a.node] # None => served' = served \ Forgotten(heap[nodes[a.node]])
          /\ nodes[a.node] = None => served' = served
          /\ \A x \in Ip : x # a.node /\ nodes[x] # None =>
               nodes'[x] = nodes[x] /\ heap'[nodes[x]] = heap[nodes[x]]
          /\ \A x \in Ip : x # a.node => nodes'[x] = nodes[x]
      BY <1>5, AddNodeEffect
    <2>2. CASE ip = a.node
      BY <2>1, <2>2, NewNodeType DEF StillPublishing
    <2>3. CASE ip # a.node
      <3>1. nodes[ip] # None /\ nodes'[ip] = o /\ heap'[o] = heap[o]
        BY <2>1, <2>3
      <3>2. CASE r \in served
        <4>1. nodes[a.node] # None => r \notin Forgotten(heap[nodes[a.node]])
          <5>1. nodes[a.node] # None => /\ nodes[a.node] \in Obj /\ heap[nodes[a.node]] # None
                                        /\ heap[nodes[a.node]].ip = a.node
            BY <2>1 DEF TableOK, TypeOK
          <5> QED BY <1>2, <2>3, <3>1, <5>1, ForgottenOrigin
        <4> QED BY <2>1, <3>1, <3>2, <4>1
      <3>3. CASE \E q \in Handlers : /\ h[q].node = o /\ h[q].ann = r
                                     /\ h[q].pc \in {"links", "has_ann", "publish"}
        <4>1. h[p].pc = "add_node"
          BY <1>5 DEF AddNode
        <4>2. \A q \in Handlers : q # p => h'[q] = h[q]
          BY <1>5, OneMoves
        <4> QED BY <3>1, <3>3, <4>1, <4>2 DEF StillPublishing
      <3> QED BY <1>1, <3>1, <3>2, <3>3
    <2> QED BY <2>2, <2>3
  <1>6. ASSUME NEW p \in Handlers, AddAnnouncement(p)
        PROVE  heap'[nodes'[ip]].reset \in served' \/ StillPublishing(nodes'[ip], heap'[nodes'[ip]].reset)
    <2> DEFINE n == heap[h[p].node]
    <2>1. /\ h[p].ann \in Ann /\ ~h[p].ann.reset /\ h[p].node \in Obj /\ n \in NodeState
          /\ nodes' = nodes /\ \A x \in Obj : x # h[p].node => heap'[x] = heap[x]
          /\ heap'[h[p].node] = [n EXCEPT !.anns = AfterAdd(n.anns, h[p].ann), !.ts = h[p].ann.ts]
          /\ served' = served \ Withdrawn(n, h[p].ann)
      BY <1>6, AddAnnouncementEffect
    <2>2. heap'[o].reset = r /\ nodes[ip] # None /\ nodes'[ip] = o
      <3>1. nodes[ip] # None /\ nodes'[ip] = o /\ o \in Obj
        BY <1>2, <2>1
      <3>2. CASE o = h[p].node
        BY <2>1, <3>2 DEF NodeState
      <3>3. CASE o # h[p].node
        BY <2>1, <3>1, <3>3
      <3> QED BY <3>1, <3>2, <3>3
    <2>3. r \in served => r \in served'
      <3>1. n # None /\ n.anns \in Seq(Ann) /\ h[p].ann \in Ann
        BY <2>1, NodeFields, NoneAssumption
      <3>2. \A b \in DroppedByAdd(n.anns, h[p].ann) : b = h[p].ann \/ \E i \in DOMAIN n.anns : b = n.anns[i]
        BY <3>1, AddSplits
      <3>3. \A i \in DOMAIN n.anns : n.anns[i].reset => n.anns[i] = n.reset
        BY <2>1, <3>1 DEF NodesOK
      <3>4. r \notin Withdrawn(n, h[p].ann)
        BY <1>2, <2>1, <2>2, <3>2, <3>3 DEF Withdrawn
      <3> QED BY <2>1, <3>4
    <2>4. CASE \E q \in Handlers : /\ h[q].node = o /\ h[q].ann = r
                                   /\ h[q].pc \in {"links", "has_ann", "publish"}
      <3>1. h[p].pc = "add_ann"
        BY <1>6 DEF AddAnnouncement
      <3>2. \A q \in Handlers : q # p => h'[q] = h[q]
        BY <1>6, OneMoves
      <3> QED BY <2>2, <2>4, <3>1, <3>2 DEF StillPublishing
    <2> QED BY <1>1, <2>2, <2>3, <2>4
  <1>7. ASSUME NEW p \in Handlers, QuietStep(p)
        PROVE  heap'[nodes'[ip]].reset \in served' \/ StillPublishing(nodes'[ip], heap'[nodes'[ip]].reset)
    <2>1. nodes[ip] # None /\ nodes'[ip] = o /\ heap'[o].reset = r
      BY <1>7, QuietKeeps DEF SameState
    <2>2. served \subseteq served'
      BY <1>7 DEF QuietStep, ReadStep, Receive, ReceiveBad, Lookup, Check1, Check2, PanicNoVersion,
                  HasAnn, Publish, InvSent, Connect, MakeNode, Disconnect, UpdateLink, LinkStateUpdate, Hash
    <2>3. ASSUME NEW q \in Handlers, h[q].node = o, h[q].ann = r,
                 h[q].pc \in {"links", "has_ann", "publish"}
          PROVE  r \in served' \/ StillPublishing(o, r)
      <3>1. CASE q = p
        BY <1>7, <2>3, <3>1, PublishesLive DEF StillPublishing, Forgotten
      <3>2. CASE q # p
        BY <1>7, <2>3, <3>2, OneMoves DEF StillPublishing
      <3> QED BY <3>1, <3>2
    <2> QED BY <1>1, <2>1, <2>2, <2>3
  <1> QED BY <1>3, <1>4, <1>5, <1>6, <1>7, StepCases

\* The reset message of every node of the table is served to the other supernodes or
\* is about to be, for any set of announcements, delivered any number of times, any
\* interleaving of the handlers and the cleaner, and any node object held meanwhile.
THEOREM ResetAvailable == Spec => []ResetServed
  <1>1. Init => ResetServed
    BY DEF Init, ResetServed
  <1>2. IndInv /\ ResetServed /\ [Next]_vars => ResetServed'
    BY ResetServedStep
  <1> QED BY <1>1, <1>2, IndInvariant, PTL DEF Spec

-----------------------------------------------------------------------------
(* The state hash, when no handler can be cancelled.                         *)

Busy == {"links", "has_ann", "publish", "inv", "hash"}

\* A gossip handler that has changed a node stays with it until it computes its hash.
LEMMA StaysBusy ==
  ASSUME IndInv, NEW p \in Handlers, p # "service", QuietStep(p), h[p].pc \in Busy, h[p].pc # "hash"
  PROVE  h'[p].pc \in Busy /\ h'[p].node = h[p].node
  <1>1. h \in [Handlers -> Handler] /\ h[p] \in Handler
    BY DEF IndInv, TypeOK
  <1>2. CASE ReadStep(p)
    <2>1. PICK pc \in Busy : h' = ToPc(p, pc)
      BY <1>2 DEF ReadStep, Receive, ReceiveBad, Lookup, Check1, Check2, PanicNoVersion,
                  HasAnn, Publish, InvSent, Connect, Busy
    <2> QED BY <1>1, <2>1 DEF ToPc, Handler
  <1>3. CASE UpdateLink(p)
    <2>1. PICK i : h' = [h EXCEPT ![p].next = i] /\ h[p].pc = "links"
      BY <1>3 DEF UpdateLink
    <2> QED BY <1>1, <2>1 DEF Handler
  <1>4. CASE LinkStateUpdate(p)
    <2>1. h' = ToPc(p, "has_ann")
      BY <1>4 DEF LinkStateUpdate
    <2> QED BY <1>1, <2>1 DEF ToPc, Handler, Busy
  <1>5. ~MakeNode(p) /\ ~Disconnect(p) /\ ~Hash(p)
    BY DEF MakeNode, Disconnect, Hash, Busy
  <1> QED BY <1>2, <1>3, <1>4, <1>5 DEF QuietStep

\* Without the service task every step keeps the state hashes current.
LEMMA HashStep ==
  ASSUME IndInv, StateHashCurrent, [Next]_vars, "service" \notin Handlers
  PROVE  StateHashCurrent'
  <1> USE DEF IndInv
  <1> SUFFICES ASSUME NEW ip \in Ip, nodes'[ip] # None
               PROVE  \/ heap'[nodes'[ip]].hash = heap'[nodes'[ip]].anns
                      \/ \E q \in Handlers : h'[q].node = nodes'[ip] /\ h'[q].pc \in Busy
    BY DEF StateHashCurrent, StateHash, Busy
  <1> DEFINE o == nodes[ip]
  <1>1. o # None => \/ heap[o].hash = heap[o].anns
                    \/ \E q \in Handlers : h[q].node = o /\ h[q].pc \in Busy
    BY DEF StateHashCurrent, StateHash, Busy
  <1>2. CASE UNCHANGED vars \/ Tick
    BY <1>1, <1>2 DEF vars, Tick
  <1>3. CASE KeepTableClean
    <2>1. o # None /\ nodes'[ip] = o /\ heap'[o] = heap[o] /\ h' = h
      <3>1. o # None
        BY <1>3 DEF KeepTableClean
      <3> QED BY <1>3, <3>1, CleanKeeps DEF KeepTableClean
    <2> QED BY <1>1, <2>1
  <1>4. ASSUME NEW p \in Handlers, AddNode(p)
        PROVE  \/ heap'[nodes'[ip]].hash = heap'[nodes'[ip]].anns
               \/ \E q \in Handlers : h'[q].node = nodes'[ip] /\ h'[q].pc \in Busy
    <2>1. h[p].pc = "add_node" /\ \A q \in Handlers : q # p => h'[q] = h[q]
      BY <1>4, OneMoves DEF AddNode
    <2>2. CASE ip = h[p].ann.node
      BY <1>4, <2>2, AddNodeEffect DEF Busy
    <2>3. CASE ip # h[p].ann.node
      <3>1. nodes'[ip] = o /\ o # None /\ heap'[o] = heap[o]
        BY <1>4, <2>3, AddNodeEffect
      <3>2. \A q \in Handlers : h[q].pc \in Busy => h'[q] = h[q]
        BY <2>1 DEF Busy
      <3> QED BY <1>1, <3>1, <3>2
    <2> QED BY <2>2, <2>3
  <1>5. ASSUME NEW p \in Handlers, AddAnnouncement(p)
        PROVE  \/ heap'[nodes'[ip]].hash = heap'[nodes'[ip]].anns
               \/ \E q \in Handlers : h'[q].node = nodes'[ip] /\ h'[q].pc \in Busy
    <2>1. /\ nodes' = nodes /\ \A x \in Obj : x # h[p].node => heap'[x] = heap[x]
          /\ h'[p].node = h[p].node /\ h'[p].pc = "links"
      BY <1>5, AddAnnouncementEffect
    <2>2. h[p].pc = "add_ann" /\ \A q \in Handlers : q # p => h'[q] = h[q]
      BY <1>5, OneMoves DEF AddAnnouncement
    <2>3. CASE o = h[p].node
      BY <2>1, <2>3 DEF Busy
    <2>4. CASE o # h[p].node
      <3>1. o \in Obj /\ nodes'[ip] = o /\ heap'[o] = heap[o]
        BY <2>1, <2>4 DEF TypeOK
      <3>2. \A q \in Handlers : h[q].pc \in Busy => h'[q] = h[q]
        BY <2>2 DEF Busy
      <3> QED BY <1>1, <2>1, <3>1, <3>2
    <2> QED BY <2>3, <2>4
  <1>6. ASSUME NEW p \in Handlers, QuietStep(p)
        PROVE  \/ heap'[nodes'[ip]].hash = heap'[nodes'[ip]].anns
               \/ \E q \in Handlers : h'[q].node = nodes'[ip] /\ h'[q].pc \in Busy
    <2>1. /\ nodes'[ip] = o /\ o # None /\ heap'[o].anns = heap[o].anns
          /\ heap'[o].hash = IF h[p].pc = "hash" /\ h[p].node = o THEN heap[o].anns ELSE heap[o].hash
      BY <1>6, QuietKeeps DEF SameState, HashAfter, StateHash
    <2>2. ASSUME NEW q \in Handlers, h[q].node = o, h[q].pc \in Busy
          PROVE  heap'[o].hash = heap[o].anns \/ (h'[q].node = o /\ h'[q].pc \in Busy)
      <3>1. CASE q # p
        BY <1>6, <2>2, <3>1, OneMoves
      <3>2. CASE q = p /\ h[p].pc = "hash"
        BY <2>1, <2>2, <3>2
      <3>3. CASE q = p /\ h[p].pc # "hash"
        BY <1>6, <2>2, <3>3, StaysBusy
      <3> QED BY <3>1, <3>2, <3>3
    <2> QED BY <1>1, <2>1, <2>2
  <1> QED BY <1>2, <1>3, <1>4, <1>5, <1>6, StepCases

\* While only the gossip task handles announcements, a node of the table that is not
\* being handled has the hash of exactly the announcements held for it.
THEOREM HashCurrent ==
  ASSUME "service" \notin Handlers
  PROVE  Spec => []StateHashCurrent
  <1>1. Init => StateHashCurrent
    BY DEF Init, StateHashCurrent
  <1>2. IndInv /\ StateHashCurrent /\ [Next]_vars => StateHashCurrent'
    BY HashStep
  <1> QED BY <1>1, <1>2, IndInvariant, PTL DEF Spec

-----------------------------------------------------------------------------
(* Time, when announcements are handled one after the other.                 *)

\* What a lone handler found out at its checks is still so when it acts on it: its
\* node is the one in the table unless that was forgotten, and it is not newer.
LookupCurrent ==
  \A p \in Handlers :
    /\ h[p].pc \in {"check1", "check2", "new_node", "add_node", "add_ann"} =>
         nodes[h[p].ann.node] \in {None, h[p].node}
    /\ h[p].pc \in {"new_node", "add_node", "add_ann"} /\ h[p].node # None =>
         heap[h[p].node].ts <= h[p].ann.ts

\* The steps of a lone handler keep what it found out.
LEMMA LookupQuiet ==
  ASSUME IndInv, LookupCurrent, NEW p \in Handlers, Handlers = {p}, QuietStep(p)
  PROVE  LookupCurrent'
  <1> USE DEF IndInv
  <1>1. h \in [Handlers -> Handler] /\ h[p] \in Handler
    BY DEF TypeOK
  <1>2. CASE Lookup(p)
    <2>1. UNCHANGED <<nodes, heap>>
      BY <1>2 DEF Lookup
    <2>2. /\ h'[p].node = nodes[h[p].ann.node] /\ h'[p].ann = h[p].ann
          /\ h'[p].pc \in {"check1", "check2", "hash"}
      BY <1>1, <1>2 DEF Lookup, Handler
    <2> QED BY <2>1, <2>2 DEF LookupCurrent
  <1>3. CASE Check1(p)
    <2>1. /\ UNCHANGED <<nodes, heap>> /\ h[p].pc = "check1"
          /\ h'[p].node = h[p].node /\ h'[p].ann = h[p].ann /\ h'[p].pc \in {"check2", "hash"}
      BY <1>1, <1>3 DEF Check1, ToPc, Handler
    <2> QED BY <2>1 DEF LookupCurrent
  <1>4. CASE Check2(p)
    <2>1. UNCHANGED <<nodes, heap>> /\ h[p].pc = "check2"
      BY <1>4 DEF Check2
    <2>2. \/ h'[p].pc \in {"hash", "idle"}
          \/ ~IsOld(p) /\ h'[p].node = h[p].node /\ h'[p].ann = h[p].ann
      BY <1>1, <1>4 DEF Check2, ToPc, Return, Handler
    <2>3. ~IsOld(p) /\ h[p].node # None => heap[h[p].node].ts <= h[p].ann.ts
      <3>1. h[p].ann \in Ann
        BY <2>1 DEF HandlersOK, HandlerOK
      <3>2. h[p].node # None => h[p].node \in Obj /\ heap[h[p].node] # None
        BY <1>1 DEF HandlersOK, HandlerOK, Handler
      <3>3. h[p].ann.ts \in Nat /\ (h[p].node # None => heap[h[p].node].ts \in Nat)
        BY <3>1, <3>2, Fields, NodeFields DEF TypeOK
      <3> QED BY <3>3 DEF IsOld
    <2> QED BY <2>1, <2>2, <2>3 DEF LookupCurrent
  <1>5. CASE MakeNode(p)
    <2>1. /\ h[p].pc = "new_node" /\ nodes' = nodes /\ heap' = Collect(heap, nodes, h')
          /\ h' = ToPc(p, "add_node") \/ h' = Fail(p)
      BY <1>5 DEF MakeNode
    <2>2. CASE h' = Fail(p)
      BY <1>1, <2>2 DEF Fail, LookupCurrent
    <2>3. CASE h' = ToPc(p, "add_node")
      <3>1. h'[p].node = h[p].node /\ h'[p].ann = h[p].ann /\ h'[p].pc = "add_node"
        BY <1>1, <2>3 DEF ToPc, Handler
      <3>2. h[p].node # None => heap'[h[p].node] = heap[h[p].node]
        <4>1. heap \in [Obj -> NodeState \cup {None}] /\ (h[p].node # None => h[p].node \in Obj)
          BY <1>1 DEF TypeOK, Handler
        <4> QED BY <2>1, <3>1, <4>1, CollectKeeps
      <3> QED BY <2>1, <3>1, <3>2 DEF LookupCurrent
    <2> QED BY <2>1, <2>2, <2>3
  <1>6. CASE PanicNoVersion(p)
    BY <1>6 DEF PanicNoVersion, LookupCurrent
  <1>7. CASE \/ \E a \in Ann : Receive(p, a)
             \/ ReceiveBad(p) \/ HasAnn(p) \/ Publish(p) \/ InvSent(p) \/ Connect(p)
             \/ Disconnect(p) \/ UpdateLink(p) \/ LinkStateUpdate(p) \/ Hash(p)
    <2>1. h'[p].pc \in {"off", "idle", "lookup", "links", "has_ann", "publish", "inv", "hash"}
      <3>1. CASE \E a \in Ann : Receive(p, a)
        BY <1>1, <3>1 DEF Receive
      <3>2. CASE ReceiveBad(p) \/ Connect(p) \/ Disconnect(p) \/ Hash(p)
        BY <1>1, <3>2 DEF ReceiveBad, Connect, Disconnect, Hash, Fail, Return
      <3>3. CASE HasAnn(p) \/ Publish(p) \/ InvSent(p) \/ LinkStateUpdate(p)
        BY <1>1, <3>3 DEF HasAnn, Publish, InvSent, LinkStateUpdate, ToPc, Handler
      <3>4. CASE UpdateLink(p)
        <4>1. PICK i : h' = [h EXCEPT ![p].next = i] /\ h[p].pc = "links"
          BY <3>4 DEF UpdateLink
        <4> QED BY <1>1, <4>1 DEF Handler
      <3> QED BY <1>7, <3>1, <3>2, <3>3, <3>4
    <2> QED BY <2>1 DEF LookupCurrent
  <1> QED BY <1>2, <1>3, <1>4, <1>5, <1>6, <1>7 DEF QuietStep, ReadStep

\* Every step of a system with one handler keeps LookupCurrent.
LEMMA LookupStep ==
  ASSUME IndInv, LookupCurrent, \A p, q \in Handlers : p = q, [Next]_vars
  PROVE  LookupCurrent'
  <1>1. CASE UNCHANGED vars \/ Tick
    BY <1>1 DEF vars, Tick, LookupCurrent
  <1>2. CASE KeepTableClean
    <2>1. h' = h /\ \A ip \in Ip : nodes'[ip] \in {nodes[ip], None}
      BY <1>2 DEF KeepTableClean
    <2>2. ASSUME NEW p \in Handlers, h[p].node # None PROVE heap'[h[p].node] = heap[h[p].node]
      <3>1. heap' = Collect(heap, nodes', h) /\ heap \in [Obj -> NodeState \cup {None}]
        BY <1>2 DEF KeepTableClean, IndInv, TypeOK
      <3>2. h[p].node \in Obj
        BY <2>2 DEF IndInv, TypeOK, Handler
      <3> QED BY <3>1, <3>2, CollectKeeps
    <2>3. \A p \in Handlers : h[p].pc \in {"check1", "check2", "new_node", "add_node", "add_ann"} =>
            h[p].ann.node \in Ip
      BY Fields DEF IndInv, HandlersOK, HandlerOK
    <2> QED BY <2>1, <2>2, <2>3 DEF LookupCurrent
  <1>3. ASSUME NEW p \in Handlers, QuietStep(p) PROVE LookupCurrent'
    BY <1>3, LookupQuiet
  <1>4. ASSUME NEW p \in Handlers, AddNode(p) \/ AddAnnouncement(p) PROVE LookupCurrent'
    <2>1. h'[p].pc = "links"
      BY <1>4, AddNodeEffect, AddAnnouncementEffect
    <2> QED BY <2>1 DEF LookupCurrent
  <1> QED BY <1>1, <1>2, <1>3, <1>4, StepCases

\* With one handler a step that keeps a node, changes it or replaces it keeps or
\* raises its timestamp.
LEMMA OlderStep ==
  ASSUME IndInv, LookupCurrent, [Next]_vars, NEW ip \in Ip, nodes[ip] # None, nodes'[ip] # None
  PROVE  heap'[nodes'[ip]].ts >= heap[nodes[ip]].ts
  <1> USE DEF IndInv
  <1>0. heap[nodes[ip]].ts \in Nat
    <2>1. nodes[ip] \in Obj /\ heap[nodes[ip]] # None
      BY DEF TypeOK, TableOK
    <2> QED BY <2>1, NodeFields DEF TypeOK
  <1>1. CASE UNCHANGED vars \/ Tick
    BY <1>0, <1>1 DEF vars, Tick
  <1>2. CASE KeepTableClean
    BY <1>0, <1>2, CleanKeeps
  <1>3. ASSUME NEW p \in Handlers, QuietStep(p) PROVE heap'[nodes'[ip]].ts >= heap[nodes[ip]].ts
    BY <1>0, <1>3, QuietKeeps DEF SameState
  <1>4. ASSUME NEW p \in Handlers, AddNode(p) PROVE heap'[nodes'[ip]].ts >= heap[nodes[ip]].ts
    <2>1. CASE ip # h[p].ann.node
      BY <1>0, <1>4, <2>1, AddNodeEffect
    <2>2. CASE ip = h[p].ann.node
      <3>1. h[p].pc = "add_node" /\ heap'[nodes'[ip]] = NewNode(h[p].ann) /\ h[p].ann \in Ann
        BY <1>4, <2>2, AddNodeEffect DEF AddNode
      <3>2. heap[nodes[ip]].ts <= h[p].ann.ts /\ h[p].ann.ts \in Nat
        BY <2>2, <3>1, Fields DEF LookupCurrent
      <3>3. heap'[nodes'[ip]].ts = h[p].ann.ts
        BY <3>1 DEF NewNode
      <3> QED BY <1>0, <3>2, <3>3
    <2> QED BY <2>1, <2>2
  <1>5. ASSUME NEW p \in Handlers, AddAnnouncement(p) PROVE heap'[nodes'[ip]].ts >= heap[nodes[ip]].ts
    <2>1. /\ nodes' = nodes /\ h[p].ann \in Ann /\ h[p].node \in Obj /\ heap[h[p].node] \in NodeState
          /\ \A x \in Obj : x # h[p].node => heap'[x] = heap[x]
          /\ heap'[h[p].node] = [heap[h[p].node] EXCEPT
               !.anns = AfterAdd(heap[h[p].node].anns, h[p].ann), !.ts = h[p].ann.ts]
      BY <1>5, AddAnnouncementEffect
    <2>2. CASE nodes[ip] # h[p].node
      BY <1>0, <2>1, <2>2 DEF TypeOK
    <2>3. CASE nodes[ip] = h[p].node
      <3>1. h[p].pc = "add_ann"
        BY <1>5 DEF AddAnnouncement
      <3>2. heap[nodes[ip]].ts <= h[p].ann.ts /\ h[p].ann.ts \in Nat
        BY <2>1, <2>3, <3>1, Fields DEF LookupCurrent
      <3>3. heap'[nodes'[ip]].ts = h[p].ann.ts
        BY <2>1, <2>3 DEF NodeState
      <3> QED BY <1>0, <3>2, <3>3
    <2> QED BY <2>2, <2>3
  <1> QED BY <1>1, <1>2, <1>3, <1>4, <1>5, StepCases

\* While one task at a time handles announcements, a node's timestamp never goes back:
\* the age check before the await-free part of the handler is enough.
THEOREM NoOlder ==
  ASSUME \A p, q \in Handlers : p = q
  PROVE  Spec => NeverOlder
  <1>1. Init => LookupCurrent
    BY DEF Init, LookupCurrent
  <1>2. IndInv /\ LookupCurrent /\ [Next]_vars => LookupCurrent'
    BY LookupStep
  <1>3. IndInv /\ LookupCurrent /\ [Next]_vars =>
          [\A ip \in Ip : nodes[ip] # None /\ nodes'[ip] # None =>
             heap'[nodes'[ip]].ts >= heap[nodes[ip]].ts]_vars
    BY OlderStep
  <1> QED BY <1>1, <1>2, <1>3, IndInvariant, PTL DEF Spec, NeverOlder

-----------------------------------------------------------------------------
(* Nodes follow their lists, when announcements are handled one by one.      *)

\* What becomes of every cell, in the table or held by a handler.
LEMMA QuietCells ==
  ASSUME IndInv, NEW p \in Handlers, QuietStep(p), NEW o \in Obj, heap'[o] # None
  PROVE  /\ heap[o] # None /\ heap[o] \in NodeState /\ SameState(o)
         /\ UpdateLink(p) \/ LinkStateUpdate(p) \/ heap'[o].links = heap[o].links
  <1>1. /\ heap \in [Obj -> NodeState \cup {None}] /\ h[p].node \in Obj \cup {None}
        /\ (h[p].node # None => heap[h[p].node] # None)
    BY DEF IndInv, TypeOK, Handler, HandlersOK, HandlerOK
  <1>2. CASE ReadStep(p)
    <2>1. heap' = heap
      BY <1>2 DEF ReadStep, Receive, ReceiveBad, Lookup, Check1, Check2, PanicNoVersion,
                  HasAnn, Publish, InvSent, Connect
    <2> QED BY <1>1, <2>1 DEF SameState
  <1>3. CASE MakeNode(p) \/ Disconnect(p)
    <2>1. heap' = Collect(heap, nodes, h')
      BY <1>3 DEF MakeNode, Disconnect
    <2>2. heap'[o] = heap[o]
      BY <1>1, <2>1, CollectKeeps
    <2> QED BY <1>1, <2>2 DEF SameState
  <1>4. CASE UpdateLink(p)
    <2>1. PICK k, l : heap' = [heap EXCEPT ![h[p].node].links[k] = l]
      BY <1>4 DEF UpdateLink
    <2>2. heap[o] # None
      <3>1. h[p].node \in Obj /\ heap[h[p].node] # None
        BY <1>1, <1>4, NoneAssumption DEF UpdateLink, IndInv, HandlersOK, HandlerOK
      <3> QED BY <1>1, <2>1, <3>1
    <2>3. SameState(o)
      BY <1>1, <2>1, <2>2 DEF SameState, NodeState
    <2> QED BY <1>1, <1>4, <2>2, <2>3
  <1>5. CASE LinkStateUpdate(p)
    <2>1. PICK ls : heap' = [heap EXCEPT ![h[p].node].links = ls]
      BY <1>5 DEF LinkStateUpdate
    <2>2. heap[o] # None
      <3>1. h[p].node \in Obj /\ heap[h[p].node] # None
        BY <1>1, <1>5, NoneAssumption DEF LinkStateUpdate, IndInv, HandlersOK, HandlerOK
      <3> QED BY <1>1, <2>1, <3>1
    <2>3. SameState(o)
      BY <1>1, <2>1, <2>2 DEF SameState, NodeState
    <2> QED BY <1>1, <1>5, <2>2, <2>3
  <1>6. CASE Hash(p)
    <2>1. PICK hp : /\ heap' = Collect(hp, nodes, h')
                    /\ hp = IF h[p].node = None THEN heap
                            ELSE [heap EXCEPT ![h[p].node].hash = StateHash(heap[h[p].node].anns)]
      BY <1>6 DEF Hash
    <2>2. heap'[o] = hp[o]
      BY <2>1 DEF Collect
    <2>3. heap[o] # None
      BY <1>1, <2>1, <2>2
    <2>4. /\ hp[o].anns = heap[o].anns /\ hp[o].reset = heap[o].reset /\ hp[o].ts = heap[o].ts
          /\ hp[o].links = heap[o].links
      BY <1>1, <2>1, <2>3 DEF NodeState
    <2> QED BY <1>1, <2>2, <2>3, <2>4 DEF SameState
  <1> QED BY <1>2, <1>3, <1>4, <1>5, <1>6 DEF QuietStep

LEMMA CleanCells ==
  ASSUME IndInv, KeepTableClean, NEW o \in Obj, heap'[o] # None
  PROVE  heap'[o] = heap[o] /\ heap[o] \in NodeState
  <1>1. heap' = Collect(heap, nodes', h) /\ heap \in [Obj -> NodeState \cup {None}]
    BY DEF KeepTableClean, IndInv, TypeOK
  <1> QED BY <1>1, CollectKeeps

LEMMA AddNodeCells ==
  ASSUME IndInv, NEW p \in Handlers, AddNode(p), NEW o \in Obj, heap'[o] # None
  PROVE  \/ /\ heap'[o] = NewNode(h[p].ann) /\ h[p].ann \in Ann
            /\ h'[p].node = o /\ h'[p].ann = h[p].ann /\ h'[p].pc = "links" /\ h'[p].next = 1
         \/ heap'[o] = heap[o] /\ heap[o] \in NodeState /\ o # h'[p].node
  <1> DEFINE c == CHOOSE x \in Obj : heap[x] = None
             hp == [heap EXCEPT ![c] = NewNode(h[p].ann)]
  <1>1. /\ heap \in [Obj -> NodeState \cup {None}] /\ h \in [Handlers -> Handler]
        /\ h[p] \in Handler /\ h[p].ann \in Ann
    BY DEF IndInv, TypeOK, HandlersOK, HandlerOK, AddNode
  <1>2. c \in Obj
    BY DEF AddNode
  <1>3. heap' = Collect(hp, nodes', h') /\ h' = [h EXCEPT ![p].node = c, ![p].pc = "links", ![p].next = 1]
    BY DEF AddNode
  <1> HIDE DEF c
  <1>4. heap'[o] = hp[o]
    BY <1>3 DEF Collect
  <1>5. h'[p].node = c /\ h'[p].ann = h[p].ann /\ h'[p].pc = "links" /\ h'[p].next = 1
    BY <1>1, <1>3 DEF Handler
  <1> QED BY <1>1, <1>2, <1>4, <1>5

\* A handler is in the loop over the peers only where add_node or add_announcement put
\* it, and leaves it only through link_state_update1.
LEMMA LinksOnly ==
  ASSUME IndInv, NEW p \in Handlers, QuietStep(p), ~UpdateLink(p)
  PROVE  /\ h'[p].pc # "links"
         /\ h[p].pc = "links" => LinkStateUpdate(p)
  <1>1. h \in [Handlers -> Handler] /\ h[p] \in Handler
    BY DEF IndInv, TypeOK
  <1>2. CASE \E a \in Ann : Receive(p, a)
    BY <1>1, <1>2 DEF Receive
  <1>3. CASE ReceiveBad(p) \/ Connect(p) \/ Disconnect(p) \/ Hash(p)
    BY <1>1, <1>3 DEF ReceiveBad, Connect, Disconnect, Hash, Fail, Return
  <1>4. CASE Lookup(p) \/ Check1(p) \/ HasAnn(p) \/ Publish(p) \/ InvSent(p) \/ LinkStateUpdate(p)
    BY ZenonT(30), <1>1, <1>4 DEF Lookup, Check1, HasAnn, Publish, InvSent, LinkStateUpdate, ToPc, Handler
  <1>5. CASE Check2(p)
    BY <1>1, <1>5 DEF Check2, ToPc, Return, Handler
  <1>6. CASE MakeNode(p)
    BY <1>1, <1>6 DEF MakeNode, ToPc, Fail, Handler
  <1>7. CASE PanicNoVersion(p)
    BY <1>7 DEF PanicNoVersion
  <1> QED BY <1>2, <1>3, <1>4, <1>5, <1>6, <1>7 DEF QuietStep, ReadStep

\* The links of a node depend on nothing but its list and its links.
LEMMA SameLinks ==
  ASSUME NEW m, NEW n, m.anns = n.anns, m.links = n.links
  PROVE  /\ Linked(n) => Linked(m)
         /\ \A i : LinksUpTo(n, i) => LinksUpTo(m, i)
  BY DEF Linked, LinksUpTo

\* One iteration of the loop over the peers brings the links one entity further.
LEMMA LinkStep ==
  ASSUME NEW n \in NodeState, NEW a \in Ann, n.anns # <<>>, n.anns[1] = a,
         NEW next \in Nat, LinksUpTo(n, next),
         NEW i \in PeerPositions(a), i >= next, \A j \in PeerPositions(a) : j >= next => i <= j,
         NEW m, m.anns = n.anns,
         m.links = [n.links EXCEPT ![LinkOf(a.entities[i])] =
                      LinkAfter(n.links[LinkOf(a.entities[i])], a.entities[i], a)]
  PROVE  LinksUpTo(m, i + 1)
  <1> DEFINE e == a.entities[i]
  <1>1. /\ n.anns \in Seq(Ann) /\ n.links \in [LinkKey -> Link \cup {None}] /\ 1 \in DOMAIN n.anns
    <2>1. n.anns \in Seq(Ann) /\ n.links \in [LinkKey -> Link \cup {None}]
      BY NodeFields
    <2> QED BY <2>1
  <1>2. e \in Entity /\ e.kind = "peer" /\ i \in Nat /\ i \in DOMAIN a.entities
        /\ LinkOf(e) \in LinkKey /\ e.label \in Nat /\ a.ts \in Nat
    <2>1. a.entities \in Seq(Entity) /\ i \in DOMAIN a.entities /\ e.kind = "peer" /\ a.ts \in Nat
      BY Fields DEF PeerPositions
    <2>2. i \in Nat /\ e \in Entity
      BY <2>1
    <2> QED BY <2>1, <2>2, Fields DEF LinkOf, LinkKey
  <1>3. SUFFICES ASSUME NEW x \in DOMAIN m.anns, NEW y \in DOMAIN m.anns[x].entities,
                        Standing(m.anns, x, y), x = 1 => y < i + 1
                 PROVE  Agrees(m.links, m.anns[x].entities[y])
    BY DEF LinksUpTo
  <1> DEFINE f == n.anns[x].entities[y]
  <1>4. /\ n.anns[x] \in Ann /\ x \in Nat /\ x >= 1 /\ y \in Nat /\ f \in Entity /\ f.kind = "peer"
        /\ LinkOf(f) \in LinkKey
    <2>1. n.anns[x] \in Ann /\ x \in Nat /\ x >= 1
      BY <1>1
    <2>2. f \in Entity /\ f.kind = "peer" /\ y \in Nat
      BY <1>3, <2>1, Fields DEF Standing
    <2> QED BY <2>1, <2>2, Fields DEF LinkOf, LinkKey
  <1>5. CASE LinkOf(f) = LinkOf(e)
    <2>1. x = 1
      <3> SUFFICES ASSUME x # 1 PROVE FALSE
        OBVIOUS
      <3>1. 1 \in 1..(x - 1) /\ e \in EntitiesOf(n.anns[1])
        BY <1>2, <1>4 DEF EntitiesOf
      <3>2. IsReplacement(f, e)
        BY <1>2, <1>4, <1>5 DEF IsReplacement, LinkOf
      <3> QED BY <1>3, <3>1, <3>2 DEF Standing
    <2>2. y = i
      <3>1. y <= i
        BY <1>2, <1>3, <1>4, <2>1
      <3>2. ~(i > y)
        BY <1>3, <1>5, <2>1 DEF Standing
      <3> QED BY <1>2, <1>4, <3>1, <3>2
    <2>3. m.links[LinkOf(e)] = LinkAfter(n.links[LinkOf(e)], e, a)
      BY <1>1, <1>2
    <2>4. [label |-> e.label, form |-> e.form, recent |-> a.ts, slots |-> {}] # None
      <3>1. [label |-> e.label, form |-> e.form, recent |-> a.ts, slots |-> {}] \in Link
        BY <1>2, Fields DEF Link
      <3> QED BY <3>1, NoneAssumption
    <2>5. Agrees(m.links, e)
      BY <2>3, <2>4 DEF Agrees, LinkAfter
    <2> QED BY <2>1, <2>2, <2>5
  <1>6. CASE LinkOf(f) # LinkOf(e)
    <2>1. m.links[LinkOf(f)] = n.links[LinkOf(f)]
      BY <1>1, <1>2, <1>4, <1>6
    <2>2. x = 1 => y < next
      <3> SUFFICES ASSUME x = 1, ~(y < next) PROVE FALSE
        OBVIOUS
      <3>1. y \in PeerPositions(a) /\ y >= next
        BY <1>3, <1>4 DEF PeerPositions
      <3>2. y = i
        BY <1>2, <1>3, <1>4, <3>1
      <3> QED BY <1>6, <3>2
    <2>3. Agrees(n.links, f)
      BY <1>3, <2>2 DEF LinksUpTo
    <2> QED BY <2>1, <2>3 DEF Agrees
  <1> QED BY <1>5, <1>6

\* Past the last peer entity the links are those of the whole list, and the link states
\* the handler goes on to record change no link's label.
LEMMA LinksDone ==
  ASSUME NEW n \in NodeState, NEW a \in Ann, n.anns # <<>>, n.anns[1] = a,
         NEW next \in Nat, LinksUpTo(n, next), \A i \in PeerPositions(a) : i < next,
         NEW m, m.anns = n.anns,
         \A k \in LinkKey : /\ (m.links[k] = None) = (n.links[k] = None)
                            /\ n.links[k] # None => /\ m.links[k].label = n.links[k].label
                                                    /\ m.links[k].form = n.links[k].form
  PROVE  Linked(m)
  <1>1. n.anns \in Seq(Ann)
    BY NodeFields
  <1>2. SUFFICES ASSUME NEW x \in DOMAIN n.anns, NEW y \in DOMAIN n.anns[x].entities,
                        Standing(n.anns, x, y)
                 PROVE  Agrees(m.links, n.anns[x].entities[y])
    BY DEF Linked
  <1> DEFINE f == n.anns[x].entities[y]
  <1>3. n.anns[x] \in Ann /\ f \in Entity /\ f.kind = "peer"
    BY <1>1, <1>2, Fields DEF Standing
  <1>4. x = 1 => y < next
    BY <1>3 DEF PeerPositions
  <1>5. Agrees(n.links, f)
    BY <1>2, <1>4 DEF LinksUpTo
  <1>6. LinkOf(f) \in LinkKey
    BY <1>3, Fields DEF LinkOf, LinkKey
  <1> QED BY <1>5, <1>6 DEF Agrees

\* Every node, in the table or not: its list is not empty and in order, and its links are
\* those of the list, as far as the handler in the loop over them has come.
CellFollows(o) ==
  LET n == heap[o] IN
  n # None =>
    /\ n.anns # <<>> /\ n.anns[1].ts = n.ts /\ Chronological(n.anns)
    /\ \/ Linked(n)
       \/ \E p \in Handlers : h[p].pc = "links" /\ h[p].node = o /\ LinksUpTo(n, h[p].next)

CellsFollow ==
  /\ \A o \in Obj : CellFollows(o)
  /\ \A p \in Handlers : h[p].pc = "links" => heap[h[p].node].anns[1] = h[p].ann

\* The list and the links of a node are as they were, so it follows its list as before.
LEMMA CellStays ==
  ASSUME NEW o \in Obj, CellFollows(o), heap[o] # None, heap'[o] # None,
         heap'[o].anns = heap[o].anns, heap'[o].ts = heap[o].ts, heap'[o].links = heap[o].links,
         \A p \in Handlers : h[p].pc = "links" /\ h[p].node = o =>
            h'[p].pc = "links" /\ h'[p].node = o /\ h'[p].next = h[p].next
  PROVE  CellFollows(o)'
  <1>1. CASE Linked(heap[o])
    <2>1. Linked(heap'[o])
      BY <1>1, SameLinks
    <2> QED BY <2>1 DEF CellFollows
  <1>2. ASSUME NEW p \in Handlers, h[p].pc = "links", h[p].node = o, LinksUpTo(heap[o], h[p].next)
        PROVE  CellFollows(o)'
    <2>1. LinksUpTo(heap'[o], h'[p].next)
      BY <1>2, SameLinks
    <2> QED BY <1>2, <2>1 DEF CellFollows
  <1> QED BY <1>1, <1>2 DEF CellFollows

\* The handler's loop over the peers and link_state_update1 keep its node in step.
LEMMA LinkCells ==
  ASSUME IndInv, CellsFollow, NEW p \in Handlers, Handlers = {p},
         UpdateLink(p) \/ LinkStateUpdate(p), NEW o \in Obj, o = h[p].node
  PROVE  CellFollows(o)'
  <1> DEFINE a == h[p].ann
             n == heap[o]
             m == heap'[o]
             next == h[p].next
  <1>1. /\ heap \in [Obj -> NodeState \cup {None}] /\ h \in [Handlers -> Handler] /\ h[p] \in Handler
        /\ h[p].pc = "links" /\ a \in Ann /\ n \in NodeState /\ next \in Nat
    BY DEF IndInv, TypeOK, Handler, HandlersOK, HandlerOK, UpdateLink, LinkStateUpdate
  <1>2. n # None /\ n.anns # <<>> /\ n.anns[1] = a /\ n.anns[1].ts = n.ts /\ Chronological(n.anns)
    BY <1>1, NoneAssumption DEF CellsFollow, CellFollows
  <1>3. /\ n.anns \in Seq(Ann) /\ n.links \in [LinkKey -> Link \cup {None}]
    BY <1>1, NodeFields
  <1>4. LinksUpTo(n, next)
    <2>1. CASE Linked(n)
      BY <2>1 DEF Linked, LinksUpTo
    <2>2. CASE ~Linked(n)
      BY <1>2, <2>2 DEF CellsFollow, CellFollows
    <2> QED BY <2>1, <2>2
  <1>5. CASE UpdateLink(p)
    <2>1. PICK i \in PeerPositions(a) :
            /\ i >= next /\ \A j \in PeerPositions(a) : j >= next => i <= j
            /\ heap' = [heap EXCEPT ![o].links[LinkOf(a.entities[i])] =
                          LinkAfter(n.links[LinkOf(a.entities[i])], a.entities[i], a)]
            /\ h' = [h EXCEPT ![p].next = i + 1]
      BY <1>5 DEF UpdateLink
    <2>2. /\ m.anns = n.anns /\ m.ts = n.ts
          /\ m.links = [n.links EXCEPT ![LinkOf(a.entities[i])] =
                          LinkAfter(n.links[LinkOf(a.entities[i])], a.entities[i], a)]
      BY <1>1, <2>1 DEF NodeState
    <2>3. h'[p].pc = "links" /\ h'[p].node = o /\ h'[p].next = i + 1
      BY <1>1, <2>1 DEF Handler
    <2> HIDE DEF n, m, a, next
    <2>4. LinksUpTo(m, i + 1)
      BY <1>1, <1>2, <1>4, <2>1, <2>2, LinkStep
    <2> QED BY <1>2, <2>2, <2>3, <2>4 DEF CellFollows, n, m
  <1>6. CASE LinkStateUpdate(p)
    <2> DEFINE reports(k) == { e \in LinkStates(a) : e.num = k[2] }
    <2>1. PICK by_num \in [PeerNum -> Ip] :
            heap' = [heap EXCEPT ![o].links = [k \in LinkKey |->
              IF n.links[k] # None /\ by_num[k[2]] = k[1] /\ reports(k) # {}
              THEN [n.links[k] EXCEPT !.recent = a.ts, !.slots = SlotsAfter(n.links[k], reports(k), a.ts)]
              ELSE n.links[k]]]
      BY ZenonT(30), <1>6 DEF LinkStateUpdate
    <2> DEFINE upd(k) == [n.links[k] EXCEPT !.recent = a.ts, !.slots = SlotsAfter(n.links[k], reports(k), a.ts)]
    <2>2. /\ m.anns = n.anns /\ m.ts = n.ts
          /\ m.links = [k \in LinkKey |-> IF n.links[k] # None /\ by_num[k[2]] = k[1] /\ reports(k) # {}
                                         THEN upd(k) ELSE n.links[k]]
      BY <1>1, <2>1 DEF NodeState
    <2>3. ASSUME NEW k \in LinkKey, n.links[k] # None
          PROVE  upd(k).label = n.links[k].label /\ upd(k).form = n.links[k].form /\ upd(k) # None
      <3>1. n.links[k] \in Link
        BY <1>3, <2>3
      <3>2. upd(k).label = n.links[k].label /\ upd(k).form = n.links[k].form
        BY <3>1 DEF Link
      <3>3. upd(k) # None
        <4>1. a.ts \in Nat /\ \A e \in reports(k) : e.filled \in Nat
          BY <1>1, Fields DEF LinkStates, EntitiesOf
        <4>2. SlotsAfter(n.links[k], reports(k), a.ts) \in SUBSET Int
          BY <3>1, <4>1, AgreedTimeoutAssumption DEF SlotsAfter, Link
        <4> HIDE DEF reports
        <4>3. upd(k) \in Link
          BY <3>1, <4>1, <4>2 DEF Link
        <4> QED BY <4>3, NoneAssumption
      <3> QED BY <3>2, <3>3
    <2> HIDE DEF upd, reports
    <2>4. \A k \in LinkKey : /\ (m.links[k] = None) = (n.links[k] = None)
                             /\ n.links[k] # None => /\ m.links[k].label = n.links[k].label
                                                     /\ m.links[k].form = n.links[k].form
      BY ZenonT(30), <2>2, <2>3
    <2>5. \A i \in PeerPositions(a) : i < next
      BY <1>6 DEF LinkStateUpdate
    <2> HIDE DEF n, m, a, next
    <2>6. Linked(m)
      BY <1>1, <1>2, <1>4, <2>2, <2>4, <2>5, LinksDone
    <2> QED BY <1>2, <2>2, <2>6 DEF CellFollows, n, m
  <1> QED BY <1>5, <1>6

\* No announcement a handler goes on to add is older than what its node has.
LEMMA NotOlder ==
  ASSUME IndInv, LookupCurrent, CellsFollow, NEW p \in Handlers, AddAnnouncement(p)
  PROVE  /\ heap[h[p].node].anns \in Seq(Announcement) /\ h[p].ann \in Announcement
         /\ Chronological(heap[h[p].node].anns)
         /\ \A i \in DOMAIN heap[h[p].node].anns : heap[h[p].node].anns[i].ts <= h[p].ann.ts
  <1> DEFINE n == heap[h[p].node]
             a == h[p].ann
  <1>1. a \in Ann /\ h[p].node \in Obj /\ n \in NodeState /\ h[p].pc = "add_ann"
    BY AddAnnouncementEffect DEF AddAnnouncement
  <1>2. n # None /\ h[p].node # None
    BY <1>1, NoneAssumption
  <1>3. n.ts <= a.ts /\ n.anns # <<>> /\ n.anns[1].ts = n.ts /\ Chronological(n.anns)
    BY <1>1, <1>2 DEF LookupCurrent, CellsFollow, CellFollows
  <1>4. n.anns \in Seq(Ann) /\ n.ts \in Nat /\ a.ts \in Nat
    BY <1>1, NodeFields, Fields
  <1>5. n.anns \in Seq(Announcement) /\ a \in Announcement
    BY <1>1, <1>4, AnnAssumption
  <1>6. ASSUME NEW i \in DOMAIN n.anns PROVE n.anns[i].ts <= a.ts
    <2>1. 1 \in DOMAIN n.anns /\ i \in Nat /\ i >= 1 /\ n.anns[i] \in Ann
      BY <1>3, <1>4
    <2>2. n.anns[i].ts \in Nat
      BY <2>1, Fields
    <2>3. n.anns[1].ts >= n.anns[i].ts
      BY <1>3, <1>4, <2>1, <2>2 DEF Chronological
    <2> QED BY <1>3, <1>4, <2>2, <2>3
  <1> QED BY <1>3, <1>5, <1>6

\* add_announcement leaves a list in order, and links that lack only what the new
\* announcement itself says.
LEMMA AddAnnouncementCell ==
  ASSUME IndInv, LookupCurrent, CellsFollow, NEW p \in Handlers, Handlers = {p}, AddAnnouncement(p)
  PROVE  CellFollows(h[p].node)' /\ heap'[h[p].node].anns[1] = h[p].ann
  <1> DEFINE o == h[p].node
             n == heap[o]
             m == heap'[o]
             a == h[p].ann
  <1>1. /\ a \in Ann /\ o \in Obj /\ n \in NodeState
        /\ m = [n EXCEPT !.anns = AfterAdd(n.anns, a), !.ts = a.ts]
        /\ h'[p].node = o /\ h'[p].pc = "links"
    BY AddAnnouncementEffect
  <1>2. h \in [Handlers -> Handler] /\ h[p].pc = "add_ann" /\ h'[p].next = 1
    BY DEF AddAnnouncement, IndInv, TypeOK, Handler
  <1>3. /\ n.anns \in Seq(Announcement) /\ a \in Announcement /\ Chronological(n.anns)
        /\ \A i \in DOMAIN n.anns : n.anns[i].ts <= a.ts
    BY NotOlder
  <1>4. Linked(n)
    <2>1. n # None
      BY <1>1, NoneAssumption
    <2> QED BY <1>1, <1>2, <2>1 DEF CellsFollow, CellFollows
  <1>5. m.anns = AfterAdd(n.anns, a) /\ m.ts = a.ts /\ m.links = n.links
    BY <1>1 DEF NodeState
  <1> HIDE DEF n, m, a
  <1>6. /\ m.anns \in Seq(Announcement) /\ 1 \in DOMAIN m.anns /\ m.anns[1] = a
    <2>1. ASSUME NEW A \in Seq(Announcement)
          PROVE  /\ AfterAdd(A, a) \in Seq(Announcement) /\ 1 \in DOMAIN AfterAdd(A, a)
                 /\ AfterAdd(A, a)[1] = a
      BY <1>3, AddOrder
    <2> QED BY <1>3, <1>5, <2>1
  <1>7. Chronological(m.anns)
    BY <1>3, <1>5, AddChronological
  <1>8. LinksUpTo(m, 1)
    <2> SUFFICES ASSUME NEW x \in DOMAIN m.anns, NEW y \in DOMAIN m.anns[x].entities,
                        Standing(m.anns, x, y), x = 1 => y < 1
                 PROVE  Agrees(m.links, m.anns[x].entities[y])
      BY DEF LinksUpTo
    <2>1. x # 1
      <3>1. m.anns[x] \in Announcement
        BY <1>6
      <3>2. y \in Nat /\ y >= 1
        BY <3>1, AnnouncementFields
      <3> QED BY <3>2
    <2>2. PICK i \in DOMAIN n.anns : m.anns[x] = n.anns[i] /\ Standing(n.anns, i, y)
      BY <1>3, <1>5, <2>1, AddStanding
    <2> QED BY <1>4, <1>5, <2>2 DEF Linked
  <1>9. m.anns # <<>>
    BY <1>6
  <1> QED BY <1>1, <1>2, <1>5, <1>6, <1>7, <1>8, <1>9 DEF CellFollows, m, a

\* A new node has one announcement and, so far, no links.
LEMMA NewNodeFollows ==
  ASSUME NEW a \in Ann
  PROVE  LET n == NewNode(a) IN
         /\ n.anns # <<>> /\ n.anns[1] = a /\ n.ts = a.ts /\ Chronological(n.anns) /\ LinksUpTo(n, 1)
  <1> DEFINE n == NewNode(a)
  <1>1. n.anns = <<a>> /\ n.ts = a.ts
    BY DEF NewNode
  <1> HIDE DEF n
  <1>2. \A i \in DOMAIN n.anns : i = 1
    BY <1>1
  <1>3. n.anns # <<>> /\ n.anns[1] = a
    BY <1>1
  <1>4. \A y \in DOMAIN a.entities : y \in Nat /\ y >= 1
    <2>1. a.entities \in Seq(Entity)
      BY Fields
    <2> QED BY <2>1
  <1>5. LinksUpTo(n, 1)
    BY <1>2, <1>3, <1>4 DEF LinksUpTo
  <1>6. Chronological(n.anns)
    BY <1>2 DEF Chronological
  <1> QED BY <1>1, <1>3, <1>5, <1>6 DEF n

\* Every step of a system with one handler keeps every node in step with its list.
LEMMA FollowStep ==
  ASSUME IndInv, LookupCurrent, CellsFollow, \A p, q \in Handlers : p = q, [Next]_vars
  PROVE  CellsFollow'
  <1>0. IndInv'
    BY NextInd
  <1>1. CASE UNCHANGED vars \/ Tick
    <2>1. heap' = heap /\ h' = h
      BY <1>1 DEF vars, Tick
    <2> QED BY <2>1 DEF CellsFollow, CellFollows
  <1>2. CASE KeepTableClean
    <2>1. h' = h
      BY <1>2 DEF KeepTableClean
    <2>2. ASSUME NEW o \in Obj, heap'[o] # None PROVE CellFollows(o)'
      <3>1. heap'[o] = heap[o]
        BY <1>2, <2>2, CleanCells
      <3> QED BY <2>1, <3>1 DEF CellsFollow, CellFollows
    <2>3. ASSUME NEW q \in Handlers, h[q].pc = "links" PROVE heap'[h[q].node] = heap[h[q].node]
      <3>1. h[q].node \in Obj /\ heap'[h[q].node] # None
        BY <1>0, <2>1, <2>3 DEF IndInv, TypeOK, Handler, HandlersOK, HandlerOK
      <3> QED BY <1>2, <3>1, CleanCells
    <2> QED BY <2>1, <2>2, <2>3 DEF CellsFollow, CellFollows
  <1>3. ASSUME NEW p \in Handlers, QuietStep(p) PROVE CellsFollow'
    <2>0. Handlers = {p}
      OBVIOUS
    <2>1. ASSUME NEW o \in Obj, heap'[o] # None PROVE CellFollows(o)'
      <3>1. /\ heap[o] # None /\ heap[o] \in NodeState /\ SameState(o)
            /\ UpdateLink(p) \/ LinkStateUpdate(p) \/ heap'[o].links = heap[o].links
        BY <1>3, <2>1, QuietCells
      <3>2. CASE UpdateLink(p) \/ LinkStateUpdate(p)
        <4>1. CASE o = h[p].node
          BY <2>0, <3>2, <4>1, LinkCells
        <4>2. CASE o # h[p].node
          <5>1. heap'[o] = heap[o]
            BY <3>2, <4>2 DEF UpdateLink, LinkStateUpdate, IndInv, TypeOK
          <5> QED BY <2>0, <2>1, <3>1, <4>2, <5>1, CellStays DEF CellsFollow
        <4> QED BY <4>1, <4>2
      <3>3. CASE ~UpdateLink(p) /\ ~LinkStateUpdate(p)
        <4>1. h[p].pc # "links"
          BY <1>3, <3>3, LinksOnly
        <4> QED BY <2>0, <2>1, <3>1, <3>3, <4>1, CellStays DEF CellsFollow, SameState
      <3> QED BY <3>2, <3>3
    <2>2. ASSUME h'[p].pc = "links" PROVE heap'[h'[p].node].anns[1] = h'[p].ann
      <3>1. UpdateLink(p)
        BY <1>3, <2>2, LinksOnly
      <3>2. h \in [Handlers -> Handler] /\ h[p].pc = "links" /\ h'[p].node = h[p].node /\ h'[p].ann = h[p].ann
        BY <3>1 DEF UpdateLink, IndInv, TypeOK, Handler
      <3>3. h[p].node \in Obj /\ heap'[h[p].node] # None
        BY <1>0, <2>2, <3>2 DEF IndInv, TypeOK, Handler, HandlersOK, HandlerOK
      <3> QED BY <1>3, <3>2, <3>3, QuietCells DEF SameState, CellsFollow
    <2> QED BY <2>0, <2>1, <2>2 DEF CellsFollow, CellFollows
  <1>4. ASSUME NEW p \in Handlers, AddNode(p) PROVE CellsFollow'
    <2>0. Handlers = {p} /\ h[p].pc = "add_node"
      BY <1>4 DEF AddNode
    <2>1. ASSUME NEW o \in Obj, heap'[o] # None PROVE CellFollows(o)'
      <3>1. CASE /\ heap'[o] = NewNode(h[p].ann) /\ h[p].ann \in Ann
                 /\ h'[p].node = o /\ h'[p].pc = "links" /\ h'[p].next = 1
        BY <3>1, NewNodeFollows DEF CellFollows
      <3>2. CASE heap'[o] = heap[o]
        BY <2>0, <2>1, <3>2, CellStays DEF CellsFollow
      <3> QED BY <1>4, <2>1, <3>1, <3>2, AddNodeCells
    <2>2. heap'[h'[p].node].anns[1] = h'[p].ann
      BY <1>4, AddNodeEffect, NewNodeFollows
    <2> QED BY <2>0, <2>1, <2>2 DEF CellsFollow, CellFollows
  <1>5. ASSUME NEW p \in Handlers, AddAnnouncement(p) PROVE CellsFollow'
    <2>0. Handlers = {p} /\ h[p].pc = "add_ann"
      BY <1>5 DEF AddAnnouncement
    <2>1. /\ h'[p].node = h[p].node /\ h'[p].ann = h[p].ann
          /\ \A x \in Obj : x # h[p].node => heap'[x] = heap[x]
      BY <1>5, AddAnnouncementEffect
    <2>2. CellFollows(h[p].node)' /\ heap'[h[p].node].anns[1] = h[p].ann
      BY <1>5, <2>0, AddAnnouncementCell
    <2>3. ASSUME NEW o \in Obj, heap'[o] # None, o # h[p].node PROVE CellFollows(o)'
      BY <2>0, <2>1, <2>3, CellStays DEF CellsFollow
    <2> QED BY <2>0, <2>1, <2>2, <2>3 DEF CellsFollow, CellFollows
  <1> QED BY <1>1, <1>2, <1>3, <1>4, <1>5, StepCases

\* While one task at a time handles announcements, a node's list runs from the newest
\* announcement to the oldest, its timestamp is that of the newest, and its links are
\* those its standing peer entities announce, whatever has been pruned from the list.
THEOREM FollowsList ==
  ASSUME \A p, q \in Handlers : p = q
  PROVE  Spec => []NodeFollowsList
  <1>1. Init => LookupCurrent /\ CellsFollow
    BY DEF Init, LookupCurrent, CellsFollow, CellFollows
  <1>2. IndInv /\ LookupCurrent /\ CellsFollow /\ [Next]_vars => LookupCurrent' /\ CellsFollow'
    BY LookupStep, FollowStep
  <1>3. IndInv /\ CellsFollow => NodeFollowsList
    BY DEF IndInv, TypeOK, TableOK, CellsFollow, CellFollows, NodeFollowsList, NewestFirst, LinksFollowState
  <1> QED BY <1>1, <1>2, <1>3, IndInvariant, PTL DEF Spec

\* An entity in force leaves a node's state only replaced or expired, in any step of a
\* system with one handler.
LEMMA InForceStep ==
  ASSUME IndInv, LookupCurrent, CellsFollow, [Next]_vars,
         NEW ip \in Ip, nodes[ip] # None, nodes'[ip] = nodes[ip],
         NEW e \in InForce(heap[nodes[ip]].anns)
  PROVE  LET old == heap[nodes[ip]]
             new == heap'[nodes[ip]] IN
         \/ e \in InForce(new.anns)
         \/ \E f \in EntitiesOf(new.anns[1]) : IsReplacement(e, f)
         \/ \A i \in DOMAIN old.anns : e \in EntitiesOf(old.anns[i]) => Expired(old.anns[i], new.anns[1])
  <1> DEFINE o == nodes[ip]
             A == heap[o].anns
             B == heap'[o].anns
  <1> SUFFICES \/ B = A
               \/ e \in InForce(B)
               \/ \E f \in EntitiesOf(B[1]) : IsReplacement(e, f)
               \/ \A i \in DOMAIN A : e \in EntitiesOf(A[i]) => Expired(A[i], B[1])
    OBVIOUS
  <1>1. CASE UNCHANGED vars \/ Tick
    BY <1>1 DEF vars, Tick
  <1>2. CASE KeepTableClean
    BY <1>2, CleanKeeps
  <1>3. ASSUME NEW p \in Handlers, QuietStep(p) PROVE B = A
    BY <1>3, QuietKeeps DEF SameState
  <1>4. ASSUME NEW p \in Handlers, AddNode(p) PROVE B = A
    <2>1. ip # h[p].ann.node
      <3> SUFFICES ASSUME ip = h[p].ann.node PROVE FALSE
        OBVIOUS
      <3>1. nodes' = [nodes EXCEPT ![ip] = CHOOSE x \in Obj : heap[x] = None] /\ nodes \in [Ip -> Obj \cup {None}]
        BY <1>4 DEF AddNode, IndInv, TypeOK
      <3>2. heap[CHOOSE x \in Obj : heap[x] = None] = None
        BY <1>4 DEF AddNode
      <3> QED BY <3>1, <3>2 DEF IndInv, TableOK
    <2> QED BY <1>4, <2>1, AddNodeEffect
  <1>5. ASSUME NEW p \in Handlers, AddAnnouncement(p), o = h[p].node
        PROVE  \/ e \in InForce(B)
               \/ \E f \in EntitiesOf(B[1]) : IsReplacement(e, f)
               \/ \A i \in DOMAIN A : e \in EntitiesOf(A[i]) => Expired(A[i], B[1])
    <2> DEFINE a == h[p].ann
    <2>1. /\ A \in Seq(Announcement) /\ a \in Announcement /\ Chronological(A)
          /\ \A i \in DOMAIN A : A[i].ts <= a.ts
      BY <1>5, NotOlder
    <2>2. B = AfterAdd(A, a)
      <3>1. heap[o] \in NodeState /\ heap'[o] = [heap[o] EXCEPT !.anns = AfterAdd(A, a), !.ts = a.ts]
        BY <1>5, AddAnnouncementEffect
      <3> QED BY <3>1 DEF NodeState
    <2> HIDE DEF A, B, a
    <2>3. B[1] = a
      <3>1. ASSUME NEW S \in Seq(Announcement) PROVE AfterAdd(S, a)[1] = a
        BY <2>1, AddOrder
      <3> QED BY <2>1, <2>2, <3>1
    <2>4. e \in InForce(A)
      BY DEF A
    <2> QED BY <2>1, <2>2, <2>3, <2>4, AddKeepsInForce
  <1>6. ASSUME NEW p \in Handlers, AddAnnouncement(p), o # h[p].node PROVE B = A
    BY <1>6, AddAnnouncementEffect DEF IndInv, TypeOK
  <1> QED BY <1>1, <1>2, <1>3, <1>4, <1>5, <1>6, StepCases

\* While one task at a time handles announcements, pruning loses nothing: an entity in
\* force stays so until a newer one replaces it or all that announced it has expired.
THEOREM PruningLosesNothing ==
  ASSUME \A p, q \in Handlers : p = q
  PROVE  Spec => NothingLost
  <1>1. Init => LookupCurrent /\ CellsFollow
    BY DEF Init, LookupCurrent, CellsFollow, CellFollows
  <1>2. IndInv /\ LookupCurrent /\ CellsFollow /\ [Next]_vars => LookupCurrent' /\ CellsFollow'
    BY LookupStep, FollowStep
  <1>3. IndInv /\ LookupCurrent /\ CellsFollow /\ [Next]_vars =>
          [\A ip \in Ip : nodes[ip] # None /\ nodes'[ip] = nodes[ip] =>
             LET old == heap[nodes[ip]]
                 new == heap'[nodes[ip]] IN
             \A e \in InForce(old.anns) :
               \/ e \in InForce(new.anns)
               \/ \E f \in EntitiesOf(new.anns[1]) : IsReplacement(e, f)
               \/ \A i \in DOMAIN old.anns :
                    e \in EntitiesOf(old.anns[i]) => Expired(old.anns[i], new.anns[1])]_vars
    BY InForceStep
  <1> QED BY <1>1, <1>2, <1>3, IndInvariant, PTL DEF Spec, NothingLost

-----------------------------------------------------------------------------
(* Every announcement of a node is served, when none arrives twice.          *)

Once == \A a \in Ann : arrived[a] <= 1

ListOf(o) == { heap[o].anns[i] : i \in DOMAIN heap[o].anns }

Idle == {"off", "idle"}

\* The steps of a handler before its announcement is part of a node.
Before == {"lookup", "check1", "check2", "new_node", "add_node", "add_ann"}

\* An announcement is in one place only: a handler that has yet to add it, or one
\* position in the list of one node; and it has arrived.
OnePlace ==
  /\ \A o \in Obj : heap[o] # None =>
       /\ \A i, j \in DOMAIN heap[o].anns : heap[o].anns[i] = heap[o].anns[j] => i = j
       /\ \A a \in ListOf(o) : arrived[a] >= 1
       /\ \A x \in Obj : x # o /\ heap[x] # None => ListOf(o) \cap ListOf(x) = {}
  /\ \A p \in Handlers : h[p].pc \notin Idle =>
       /\ arrived[h[p].ann] >= 1
       /\ \A q \in Handlers : q # p /\ h[q].pc \notin Idle => h[q].ann # h[p].ann
       /\ h[p].pc \in Before => \A o \in Obj : heap[o] # None => h[p].ann \notin ListOf(o)

\* What the quiet steps of a handler other than the arrival of an announcement leave.
LEMMA QuietHandler ==
  ASSUME IndInv, NEW p \in Handlers, QuietStep(p), \A a \in Ann : ~Receive(p, a)
  PROVE  \/ h'[p].pc \in Idle
         \/ /\ h[p].pc \notin Idle /\ h'[p].ann = h[p].ann
            /\ h'[p].pc \in Before => h[p].pc \in Before
  <1>1. h \in [Handlers -> Handler] /\ h[p] \in Handler
    BY DEF IndInv, TypeOK
  <1>2. CASE ReceiveBad(p) \/ Connect(p) \/ Disconnect(p) \/ Hash(p)
    BY <1>1, <1>2 DEF ReceiveBad, Connect, Disconnect, Hash, Fail, Return, Idle
  <1>3. CASE Lookup(p) \/ Check1(p)
    BY <1>1, <1>3 DEF Lookup, Check1, ToPc, Handler, Idle, Before
  <1>4. CASE HasAnn(p) \/ Publish(p) \/ InvSent(p) \/ LinkStateUpdate(p)
    <2>1. PICK pc \in {"has_ann", "publish", "inv", "hash"} :
            h' = ToPc(p, pc) /\ h[p].pc \in {"links", "has_ann", "publish", "inv"}
      BY <1>4 DEF HasAnn, Publish, InvSent, LinkStateUpdate
    <2>2. h'[p].pc = pc /\ h'[p].ann = h[p].ann
      BY <1>1, <2>1 DEF ToPc, Handler
    <2> QED BY <2>1, <2>2 DEF Idle, Before
  <1>5. CASE Check2(p)
    BY <1>1, <1>5 DEF Check2, ToPc, Return, Handler, Idle, Before
  <1>6. CASE MakeNode(p)
    BY <1>1, <1>6 DEF MakeNode, ToPc, Fail, Handler, Idle, Before
  <1>7. CASE PanicNoVersion(p)
    BY <1>7 DEF PanicNoVersion, Idle
  <1>8. CASE UpdateLink(p)
    <2>1. PICK i : h' = [h EXCEPT ![p].next = i] /\ h[p].pc = "links"
      BY <1>8 DEF UpdateLink
    <2> QED BY <1>1, <2>1 DEF Handler, Idle, Before
  <1> QED BY <1>2, <1>3, <1>4, <1>5, <1>6, <1>7, <1>8 DEF QuietStep, ReadStep

\* How often announcements have arrived changes with arrivals only.
LEMMA ArrivedStep ==
  ASSUME IndInv, [Next]_vars
  PROVE  /\ arrived \in [Ann -> Nat] /\ arrived' \in [Ann -> Nat]
         /\ \A a \in Ann : arrived'[a] >= arrived[a]
         /\ (\A p \in Handlers, a \in Ann : ~Receive(p, a)) => arrived' = arrived
  <1>1. arrived \in [Ann -> Nat]
    BY DeliveryAssumption DEF IndInv, TypeOK
  <1>2. CASE \E p \in Handlers, a \in Ann : Receive(p, a)
    <2>1. PICK a \in Ann : arrived' = [arrived EXCEPT ![a] = arrived[a] + 1]
      BY <1>2 DEF Receive
    <2> QED BY <1>1, <1>2, <2>1
  <1>3. CASE \A p \in Handlers, a \in Ann : ~Receive(p, a)
    <2>1. arrived' = arrived
      BY ZenonT(30), <1>3 DEF Next, vars, Tick, KeepTableClean, ReceiveBad, Lookup, Check1, Check2, PanicNoVersion,
                  MakeNode, AddNode, AddAnnouncement, UpdateLink, LinkStateUpdate, HasAnn, Publish,
                  InvSent, Hash, Connect, Disconnect
    <2> QED BY <1>1, <2>1
  <1> QED BY <1>2, <1>3

\* Steps in which nothing arrives and no announcement is added keep OnePlace.
LEMMA QuietOnePlace ==
  ASSUME OnePlace, arrived' = arrived,
         \A o \in Obj : heap'[o] # None => heap[o] # None /\ heap'[o].anns = heap[o].anns,
         \A p \in Handlers :
           \/ h'[p].pc \in Idle
           \/ /\ h[p].pc \notin Idle /\ h'[p].ann = h[p].ann
              /\ h'[p].pc \in Before => h[p].pc \in Before
  PROVE  OnePlace'
  <1>1. \A o \in Obj : heap'[o] # None => ListOf(o)' = ListOf(o)
    BY DEF ListOf
  <1>2. ASSUME NEW o \in Obj, heap'[o] # None
        PROVE  /\ \A i, j \in DOMAIN heap'[o].anns : heap'[o].anns[i] = heap'[o].anns[j] => i = j
               /\ \A a \in ListOf(o)' : arrived'[a] >= 1
               /\ \A x \in Obj : x # o /\ heap'[x] # None => ListOf(o)' \cap ListOf(x)' = {}
    BY <1>1, <1>2 DEF OnePlace
  <1>3. ASSUME NEW p \in Handlers, h'[p].pc \notin Idle
        PROVE  /\ arrived'[h'[p].ann] >= 1
               /\ \A q \in Handlers : q # p /\ h'[q].pc \notin Idle => h'[q].ann # h'[p].ann
               /\ h'[p].pc \in Before => \A o \in Obj : heap'[o] # None => h'[p].ann \notin ListOf(o)'
    BY <1>1, <1>3 DEF OnePlace
  <1> QED BY <1>2, <1>3 DEF OnePlace

\* An announcement that arrives for the first time is nowhere yet.
LEMMA ReceiveOnePlace ==
  ASSUME IndInv, OnePlace, NEW p \in Handlers, NEW a \in Ann, Receive(p, a), arrived'[a] <= 1
  PROVE  OnePlace'
  <1>1. /\ h \in [Handlers -> Handler] /\ arrived \in [Ann -> Nat]
        /\ \A q \in Handlers : h[q].pc \notin Idle => h[q].ann \in Ann
        /\ \A o \in Obj : heap[o] # None => ListOf(o) \subseteq Ann
    <2>1. \A o \in Obj : heap[o] # None => heap[o].anns \in Seq(Ann)
      BY NodeFields DEF IndInv, TypeOK
    <2>2. \A o \in Obj : heap[o] # None => ListOf(o) \subseteq Ann
      BY <2>1 DEF ListOf
    <2> QED BY <2>2, DeliveryAssumption DEF IndInv, TypeOK, HandlersOK, HandlerOK, Idle
  <1>2. /\ heap' = heap /\ arrived' = [arrived EXCEPT ![a] = arrived[a] + 1]
        /\ h'[p].pc = "lookup" /\ h'[p].ann = a /\ h[p].pc = "idle"
        /\ \A q \in Handlers : q # p => h'[q] = h[q]
    BY <1>1 DEF Receive
  <1>3. arrived[a] = 0 /\ arrived'[a] = 1 /\ \A b \in Ann : b # a => arrived'[b] = arrived[b]
    BY <1>1, <1>2
  <1>4. \A q \in Handlers : h[q].pc \notin Idle => h[q].ann # a /\ arrived'[h[q].ann] >= 1
    BY <1>1, <1>3 DEF OnePlace
  <1>5. \A o \in Obj : heap[o] # None => a \notin ListOf(o) /\ \A b \in ListOf(o) : arrived'[b] >= 1
    BY <1>1, <1>3 DEF OnePlace
  <1>6. \A o \in Obj : ListOf(o)' = ListOf(o)
    BY <1>2 DEF ListOf
  <1>7. ASSUME NEW o \in Obj, heap'[o] # None
        PROVE  /\ \A i, j \in DOMAIN heap'[o].anns : heap'[o].anns[i] = heap'[o].anns[j] => i = j
               /\ \A b \in ListOf(o)' : arrived'[b] >= 1
               /\ \A x \in Obj : x # o /\ heap'[x] # None => ListOf(o)' \cap ListOf(x)' = {}
    BY <1>2, <1>5, <1>6, <1>7 DEF OnePlace
  <1>8. ASSUME NEW r \in Handlers, h'[r].pc \notin Idle
        PROVE  /\ arrived'[h'[r].ann] >= 1
               /\ \A q \in Handlers : q # r /\ h'[q].pc \notin Idle => h'[q].ann # h'[r].ann
               /\ h'[r].pc \in Before => \A o \in Obj : heap'[o] # None => h'[r].ann \notin ListOf(o)'
    <2>1. CASE r = p
      BY <1>2, <1>3, <1>4, <1>5, <1>6, <2>1
    <2>2. CASE r # p
      BY <1>2, <1>4, <1>6, <1>8, <2>2 DEF OnePlace
    <2> QED BY <2>1, <2>2
  <1> QED BY <1>7, <1>8 DEF OnePlace

\* A handler that adds its announcement to the list of one node moves it there.
LEMMA AddedOnePlace ==
  ASSUME OnePlace, NEW p \in Handlers, h[p].pc \in Before, NEW c \in Obj, heap'[c] # None,
         \A i, j \in DOMAIN heap'[c].anns : heap'[c].anns[i] = heap'[c].anns[j] => i = j,
         \A a \in ListOf(c)' : a = h[p].ann \/ (heap[c] # None /\ a \in ListOf(c)),
         \A x \in Obj : x # c /\ heap'[x] # None => heap[x] # None /\ heap'[x].anns = heap[x].anns,
         \A q \in Handlers : q # p => h'[q] = h[q],
         h'[p].ann = h[p].ann, h'[p].pc = "links", arrived' = arrived
  PROVE  OnePlace'
  <1>0. h[p].pc \notin Idle /\ h'[p].pc \notin Before
    BY DEF Before, Idle
  <1>1. \A x \in Obj : x # c /\ heap'[x] # None => ListOf(x)' = ListOf(x)
    BY DEF ListOf
  <1>2. \A o \in Obj : heap[o] # None => h[p].ann \notin ListOf(o)
    BY <1>0 DEF OnePlace
  <1>3. ASSUME NEW o \in Obj, heap'[o] # None
        PROVE  /\ \A i, j \in DOMAIN heap'[o].anns : heap'[o].anns[i] = heap'[o].anns[j] => i = j
               /\ \A a \in ListOf(o)' : arrived'[a] >= 1
               /\ \A x \in Obj : x # o /\ heap'[x] # None => ListOf(o)' \cap ListOf(x)' = {}
    <2>1. CASE o = c
      <3>1. \A a \in ListOf(c)' : arrived'[a] >= 1
        BY <1>0 DEF OnePlace
      <3>2. ASSUME NEW x \in Obj, x # c, heap'[x] # None PROVE ListOf(c)' \cap ListOf(x)' = {}
        BY <1>1, <1>2, <3>2 DEF OnePlace
      <3> QED BY <2>1, <3>1, <3>2
    <2>2. CASE o # c
      <3>1. heap[o] # None /\ heap'[o].anns = heap[o].anns /\ ListOf(o)' = ListOf(o)
        BY <1>1, <1>3, <2>2
      <3>2. ASSUME NEW x \in Obj, x # o, heap'[x] # None PROVE ListOf(o)' \cap ListOf(x)' = {}
        <4>1. CASE x = c
          <5>1. h[p].ann \notin ListOf(o) /\ (heap[c] # None => ListOf(c) \cap ListOf(o) = {})
            BY <1>2, <3>1, <2>2 DEF OnePlace
          <5> QED BY <3>1, <4>1, <5>1
        <4>2. CASE x # c
          BY <1>1, <3>1, <3>2, <4>2 DEF OnePlace
        <4> QED BY <4>1, <4>2
      <3> QED BY <3>1, <3>2 DEF OnePlace
    <2> QED BY <2>1, <2>2
  <1>4. ASSUME NEW r \in Handlers, h'[r].pc \notin Idle
        PROVE  /\ arrived'[h'[r].ann] >= 1
               /\ \A q \in Handlers : q # r /\ h'[q].pc \notin Idle => h'[q].ann # h'[r].ann
               /\ h'[r].pc \in Before => \A o \in Obj : heap'[o] # None => h'[r].ann \notin ListOf(o)'
    <2>1. h[r].pc \notin Idle /\ h'[r].ann = h[r].ann
      BY <1>0, <1>4
    <2>2. \A q \in Handlers : h'[q].pc \notin Idle => h[q].pc \notin Idle /\ h'[q].ann = h[q].ann
      BY <1>0
    <2>3. ASSUME h'[r].pc \in Before, NEW o \in Obj, heap'[o] # None PROVE h'[r].ann \notin ListOf(o)'
      <3>1. r # p /\ h[r].pc \in Before
        BY <1>0, <2>3
      <3>2. h[r].ann # h[p].ann
        BY <1>0, <2>1, <3>1 DEF OnePlace
      <3>3. heap[o] # None => h[r].ann \notin ListOf(o)
        BY <2>1, <3>1 DEF OnePlace
      <3>4. CASE o = c
        BY <2>1, <3>2, <3>3, <3>4
      <3>5. CASE o # c
        BY <1>1, <2>1, <2>3, <3>3, <3>5
      <3> QED BY <3>4, <3>5
    <2> QED BY <2>1, <2>2, <2>3 DEF OnePlace
  <1> QED BY <1>3, <1>4 DEF OnePlace

\* As long as nothing arrives twice every step keeps OnePlace.
LEMMA OnePlaceStep ==
  ASSUME IndInv, OnePlace, Once', [Next]_vars
  PROVE  OnePlace'
  <1>1. CASE UNCHANGED vars \/ Tick
    <2>1. heap' = heap /\ h' = h /\ arrived' = arrived
      BY <1>1 DEF vars, Tick
    <2> QED BY <2>1, QuietOnePlace
  <1>2. CASE KeepTableClean
    <2>1. h' = h /\ arrived' = arrived
      BY <1>2 DEF KeepTableClean
    <2>2. \A o \in Obj : heap'[o] # None => heap[o] # None /\ heap'[o].anns = heap[o].anns
      BY <1>2, CleanCells
    <2> QED BY <2>1, <2>2, QuietOnePlace
  <1>3. ASSUME NEW p \in Handlers, NEW a \in Ann, Receive(p, a) PROVE OnePlace'
    BY <1>3, ReceiveOnePlace DEF Once
  <1>4. ASSUME NEW p \in Handlers, QuietStep(p), \A a \in Ann : ~Receive(p, a) PROVE OnePlace'
    <2>1. arrived' = arrived
      BY <1>4 DEF QuietStep, ReadStep, ReceiveBad, Lookup, Check1, Check2, PanicNoVersion, HasAnn, Publish,
                  InvSent, Connect, MakeNode, Disconnect, UpdateLink, LinkStateUpdate, Hash
    <2>2. \A o \in Obj : heap'[o] # None => heap[o] # None /\ heap'[o].anns = heap[o].anns
      BY <1>4, QuietCells DEF SameState
    <2>3. \A q \in Handlers : \/ h'[q].pc \in Idle
                              \/ /\ h[q].pc \notin Idle /\ h'[q].ann = h[q].ann
                                 /\ h'[q].pc \in Before => h[q].pc \in Before
      BY <1>4, OneMoves, QuietHandler
    <2> QED BY <2>1, <2>2, <2>3, QuietOnePlace
  <1>5. ASSUME NEW p \in Handlers, AddNode(p) PROVE OnePlace'
    <2> DEFINE a == h[p].ann
    <2>0. PICK c : c = h'[p].node
      OBVIOUS
    <2>1. /\ c \in Obj /\ heap'[c] = NewNode(a) /\ h'[p].ann = a /\ h'[p].pc = "links" /\ a \in Ann
      BY <1>5, <2>0, AddNodeEffect
    <2>2. h[p].pc \in Before /\ arrived' = arrived
      BY <1>5 DEF AddNode, Before
    <2>3. heap'[c].anns = <<a>> /\ heap'[c] # None
      BY <2>1, NewNodeType, NoneAssumption
    <2>4. \A i \in DOMAIN heap'[c].anns : i = 1 /\ heap'[c].anns[i] = a
      BY <2>3
    <2>5. \A x \in Obj : x # c /\ heap'[x] # None => heap[x] # None /\ heap'[x].anns = heap[x].anns
      BY <1>5, <2>0, AddNodeCells
    <2>6. \A q \in Handlers : q # p => h'[q] = h[q]
      BY <1>5, OneMoves
    <2>7. \A b \in ListOf(c)' : b = a
      BY <2>4 DEF ListOf
    <2>8. \A i, j \in DOMAIN heap'[c].anns : heap'[c].anns[i] = heap'[c].anns[j] => i = j
      BY <2>4
    <2> QED BY <2>1, <2>2, <2>3, <2>5, <2>6, <2>7, <2>8, AddedOnePlace
  <1>6. ASSUME NEW p \in Handlers, AddAnnouncement(p) PROVE OnePlace'
    <2>0. PICK c : c = h[p].node
      OBVIOUS
    <2> DEFINE a == h[p].ann
               A == heap[c].anns
    <2>1. /\ c \in Obj /\ heap[c] \in NodeState /\ a \in Ann
          /\ heap'[c] = [heap[c] EXCEPT !.anns = AfterAdd(A, a), !.ts = a.ts]
          /\ h'[p].ann = a /\ h'[p].pc = "links"
          /\ \A x \in Obj : x # c => heap'[x] = heap[x]
      BY <1>6, <2>0, AddAnnouncementEffect
    <2>2. h[p].pc \in Before /\ h[p].pc \notin Idle /\ arrived' = arrived
      BY <1>6 DEF AddAnnouncement, Before, Idle
    <2>3. heap'[c].anns = AfterAdd(A, a) /\ A \in Seq(Ann) /\ heap[c] # None
      BY <2>1, NoneAssumption DEF NodeState
    <2>4. /\ \A i, j \in DOMAIN A : A[i] = A[j] => i = j
          /\ \A i \in DOMAIN A : A[i] # a
      BY <2>1, <2>2, <2>3 DEF OnePlace, ListOf
    <2>5. heap'[c] # None
      <3>1. IndInv'
        BY NextInd
      <3>2. h'[p].node = c /\ c # None
        BY <1>6, <2>0, <2>1, AddAnnouncementEffect, NoneAssumption
      <3> QED BY <3>1, <3>2 DEF IndInv, HandlersOK, HandlerOK
    <2>6. \A q \in Handlers : q # p => h'[q] = h[q]
      BY <1>6, OneMoves
    <2> HIDE DEF A
    <2>7. /\ \A n, m \in DOMAIN AfterAdd(A, a) : AfterAdd(A, a)[n] = AfterAdd(A, a)[m] => n = m
      BY <2>1, <2>3, <2>4, AddUnique, AnnAssumption
    <2>8. \A n \in DOMAIN AfterAdd(A, a) :
            AfterAdd(A, a)[n] = a \/ \E i \in DOMAIN A : AfterAdd(A, a)[n] = A[i]
      BY <2>1, <2>3, AddSplits
    <2>9. \A b \in ListOf(c)' : b = a \/ (heap[c] # None /\ b \in ListOf(c))
      <3>1. ListOf(c)' = { AfterAdd(A, a)[n] : n \in DOMAIN AfterAdd(A, a) }
        BY <2>3 DEF ListOf
      <3>2. ListOf(c) = { A[i] : i \in DOMAIN A }
        BY DEF ListOf, A
      <3> QED BY <2>3, <2>8, <3>1, <3>2
    <2> QED BY ZenonT(30), <2>1, <2>2, <2>3, <2>5, <2>6, <2>7, <2>9, AddedOnePlace
  <1> QED BY <1>1, <1>2, <1>3, <1>4, <1>5, <1>6, StepCases

\* Announcements of a node of the table are served or about to be, one by one.
ServedOrSoon(o, a) == a \in served \/ Publishing(o, a)

\* The steps that add an announcement withdraw nothing that is part of another node, nor
\* anything the node keeps.
LEMMA AddServes ==
  ASSUME IndInv, OnePlace, NEW p \in Handlers, AddAnnouncement(p),
         NEW ip \in Ip, nodes[ip] # None, NEW a \in ListOf(nodes[ip])', a # h[p].ann
  PROVE  a \in ListOf(nodes[ip]) /\ (a \in served => a \in served')
  <1> DEFINE c == h[p].node
             o == nodes[ip]
             A == heap[c].anns
             b == h[p].ann
  <1>1. /\ c \in Obj /\ heap[c] \in NodeState /\ b \in Ann /\ nodes' = nodes
        /\ heap'[c] = [heap[c] EXCEPT !.anns = AfterAdd(A, b), !.ts = b.ts]
        /\ \A x \in Obj : x # c => heap'[x] = heap[x]
        /\ served' = served \ Withdrawn(heap[c], b)
    BY AddAnnouncementEffect
  <1>2. A \in Seq(Ann) /\ heap'[c].anns = AfterAdd(A, b) /\ heap[c] # None
    BY <1>1, NoneAssumption DEF NodeState
  <1>3. o \in Obj /\ heap[o] # None
    BY DEF IndInv, TypeOK, TableOK
  <1>4. h[p].pc \in Before /\ h[p].pc \notin Idle
    BY DEF AddAnnouncement, Before, Idle
  <1>5. /\ \A i, j \in DOMAIN A : A[i] = A[j] => i = j
        /\ \A i \in DOMAIN A : A[i] # b
    BY <1>1, <1>2, <1>4 DEF OnePlace, ListOf
  <1>6. PICK n \in DOMAIN heap'[o].anns : a = heap'[o].anns[n]
    BY <1>1 DEF ListOf
  <1>7. ListOf(c) = { A[i] : i \in DOMAIN A }
    BY DEF ListOf
  <1>8. Withdrawn(heap[c], b) \subseteq DroppedByAdd(A, b)
    BY DEF Withdrawn
  <1> HIDE DEF A
  <1>9. /\ \A i \in DOMAIN AfterAdd(A, b) : AfterAdd(A, b)[i] \notin DroppedByAdd(A, b)
    BY <1>1, <1>2, <1>5, AddUnique, AnnAssumption
  <1>10. /\ \A i \in DOMAIN AfterAdd(A, b) :
              AfterAdd(A, b)[i] = b \/ \E j \in DOMAIN A : AfterAdd(A, b)[i] = A[j]
         /\ \A x \in DroppedByAdd(A, b) : x = b \/ \E j \in DOMAIN A : x = A[j]
    <2>1. A \in Seq(Ann) /\ b \in Ann
      BY <1>1, <1>2
    <2>2. \A i \in DOMAIN AfterAdd(A, b) :
            AfterAdd(A, b)[i] = b \/ \E j \in DOMAIN A : AfterAdd(A, b)[i] = A[j]
      BY <2>1, AddSplits
    <2>3. \A x \in DroppedByAdd(A, b) : x = b \/ \E j \in DOMAIN A : x = A[j]
      BY <2>1, AddSplits
    <2> QED BY <2>2, <2>3
  <1>11. CASE o = c
    <2>1. n \in DOMAIN AfterAdd(A, b) /\ a = AfterAdd(A, b)[n]
      BY <1>2, <1>6, <1>11
    <2>2. a \in ListOf(c)
      BY <1>7, <1>10, <2>1
    <2>3. a \notin Withdrawn(heap[c], b)
      BY <1>8, <1>9, <2>1
    <2> QED BY <1>1, <1>11, <2>2, <2>3
  <1>12. CASE o # c
    <2>1. a \in ListOf(o)
      BY <1>1, <1>3, <1>6, <1>12 DEF ListOf
    <2>2. a \notin ListOf(c)
      BY <1>1, <1>2, <1>3, <1>12, <2>1 DEF OnePlace
    <2> QED BY <1>1, <1>7, <1>8, <1>10, <2>1, <2>2
  <1> QED BY <1>11, <1>12

\* As long as nothing arrives twice, what is part of a node of the table is served or
\* about to be after every step.
LEMMA StateServedStep ==
  ASSUME IndInv, OnePlace, [Next]_vars,
         \A ip \in Ip : nodes[ip] # None => \A a \in ListOf(nodes[ip]) : ServedOrSoon(nodes[ip], a)
  PROVE  \A ip \in Ip : nodes'[ip] # None =>
           \A i \in DOMAIN heap'[nodes'[ip]].anns :
             LET a == heap'[nodes'[ip]].anns[i] IN a \in served' \/ StillPublishing(nodes'[ip], a)
  <1> USE DEF IndInv
  <1> SUFFICES ASSUME NEW ip \in Ip, nodes'[ip] # None, NEW i \in DOMAIN heap'[nodes'[ip]].anns
               PROVE  \/ heap'[nodes'[ip]].anns[i] \in served'
                      \/ StillPublishing(nodes'[ip], heap'[nodes'[ip]].anns[i])
    OBVIOUS
  <1> DEFINE o == nodes[ip]
             a == heap'[nodes'[ip]].anns[i]
             Kept == o # None /\ nodes'[ip] = o /\ a \in ListOf(o)
  <1>0. Kept => /\ o \in Obj /\ heap[o] # None /\ heap[o].ip = ip /\ a.node = ip
                /\ a \in Forgotten(heap[o])
                /\ \/ a \in served
                   \/ \E q \in Handlers : /\ h[q].node = o /\ h[q].ann = a
                                          /\ h[q].pc \in {"links", "has_ann", "publish"}
    <2> SUFFICES ASSUME Kept
                 PROVE  /\ o \in Obj /\ heap[o] # None /\ heap[o].ip = ip /\ a.node = ip
                        /\ a \in Forgotten(heap[o])
                        /\ \/ a \in served
                           \/ \E q \in Handlers : /\ h[q].node = o /\ h[q].ann = a
                                                  /\ h[q].pc \in {"links", "has_ann", "publish"}
      OBVIOUS
    <2>1. o \in Obj /\ heap[o] # None /\ heap[o].ip = ip
      BY DEF TypeOK, TableOK
    <2>2. a \in Forgotten(heap[o])
      BY DEF Forgotten, ListOf
    <2>3. a.node = ip
      BY <2>1, <2>2, ForgottenOrigin
    <2>4. ServedOrSoon(o, a)
      OBVIOUS
    <2> QED BY <2>1, <2>2, <2>3, <2>4 DEF ServedOrSoon, Publishing
  <1>1. CASE UNCHANGED vars \/ Tick
    <2>1. Kept /\ served' = served /\ h' = h
      BY <1>1 DEF vars, Tick, ListOf
    <2> QED BY <1>0, <2>1 DEF StillPublishing
  <1>2. CASE KeepTableClean
    <2>1. Kept /\ h' = h
      <3>1. o # None /\ nodes'[ip] # None /\ h' = h
        BY <1>2 DEF KeepTableClean
      <3>2. nodes'[ip] = o /\ heap'[o] = heap[o]
        BY <1>2, <3>1, CleanKeeps
      <3> QED BY <3>1, <3>2 DEF ListOf
    <2>2. a \in served => a \in served'
      <3>1. \A x \in Ip : Stale(x) => x # ip
        BY <1>2 DEF KeepTableClean
      <3>2. ASSUME NEW x \in Ip, Stale(x) PROVE a \notin Forgotten(heap[nodes[x]])
        <4>1. nodes[x] \in Obj /\ heap[nodes[x]] # None /\ heap[nodes[x]].ip = x
          BY <3>2 DEF Stale, TableOK, TypeOK
        <4> QED BY <1>0, <2>1, <3>1, <3>2, <4>1, ForgottenOrigin
      <3>3. served' = served \ UNION { Forgotten(heap[nodes[x]]) : x \in { y \in Ip : Stale(y) } }
        BY <1>2 DEF KeepTableClean
      <3> QED BY <3>2, <3>3
    <2> QED BY <1>0, <2>1, <2>2 DEF StillPublishing
  <1>3. ASSUME NEW p \in Handlers, AddNode(p) PROVE a \in served' \/ StillPublishing(nodes'[ip], a)
    <2> DEFINE b == h[p].ann
    <2>1. /\ b \in Ann /\ b.node \in Ip /\ heap'[nodes'[b.node]] = NewNode(b)
          /\ h'[p].node = nodes'[b.node] /\ h'[p].ann = b /\ h'[p].pc = "links"
          /\ nodes[b.node] # None => served' = served \ Forgotten(heap[nodes[b.node]])
          /\ nodes[b.node] = None => served' = served
          /\ \A x \in Ip : x # b.node /\ nodes[x] # None =>
               nodes'[x] = nodes[x] /\ heap'[nodes[x]] = heap[nodes[x]]
          /\ \A x \in Ip : x # b.node => nodes'[x] = nodes[x]
      BY <1>3, AddNodeEffect
    <2>2. CASE ip = b.node
      <3>1. heap'[nodes'[ip]].anns = <<b>>
        BY <2>1, <2>2, NewNodeType
      <3>2. \A j \in DOMAIN heap'[nodes'[ip]].anns : heap'[nodes'[ip]].anns[j] = b
        BY <3>1
      <3>3. a = b
        BY <3>2
      <3> QED BY <2>1, <2>2, <3>3 DEF StillPublishing
    <2>3. CASE ip # b.node
      <3>1. Kept
        <4>1. o # None /\ nodes'[ip] = o /\ heap'[o] = heap[o]
          BY <2>1, <2>3
        <4> QED BY <4>1 DEF ListOf
      <3>2. a \in served => a \in served'
        <4>1. nodes[b.node] # None => a \notin Forgotten(heap[nodes[b.node]])
          <5>1. nodes[b.node] # None => /\ nodes[b.node] \in Obj /\ heap[nodes[b.node]] # None
                                        /\ heap[nodes[b.node]].ip = b.node
            BY <2>1 DEF TableOK, TypeOK
          <5> QED BY <1>0, <2>3, <3>1, <5>1, ForgottenOrigin
        <4> QED BY <2>1, <4>1
      <3>3. h[p].pc = "add_node" /\ \A q \in Handlers : q # p => h'[q] = h[q]
        BY <1>3, OneMoves DEF AddNode
      <3> QED BY <1>0, <3>1, <3>2, <3>3 DEF StillPublishing
    <2> QED BY <2>2, <2>3
  <1>4. ASSUME NEW p \in Handlers, AddAnnouncement(p) PROVE a \in served' \/ StillPublishing(nodes'[ip], a)
    <2>1. /\ nodes' = nodes /\ \A x \in Obj : x # h[p].node => heap'[x] = heap[x]
          /\ h'[p].node = h[p].node /\ h'[p].ann = h[p].ann /\ h'[p].pc = "links"
          /\ h[p].node \in Obj /\ heap[h[p].node] # None
      BY <1>4, AddAnnouncementEffect, NoneAssumption
    <2>2. h[p].pc = "add_ann" /\ h[p].pc \in Before /\ h[p].pc \notin Idle
          /\ \A q \in Handlers : q # p => h'[q] = h[q]
      BY <1>4, OneMoves DEF AddAnnouncement, Before, Idle
    <2>3. nodes'[ip] = o /\ o # None /\ o \in Obj /\ heap[o] # None
      BY <2>1 DEF TypeOK, TableOK
    <2>4. a \in ListOf(nodes[ip])'
      BY <2>1, <2>3 DEF ListOf
    <2>5. CASE a = h[p].ann
      <3>1. o = h[p].node
        <4> SUFFICES ASSUME o # h[p].node PROVE FALSE
          OBVIOUS
        <4>1. heap'[o] = heap[o]
          BY <2>1, <2>3
        <4>2. h[p].ann \in ListOf(o)
          BY <2>3, <2>5, <4>1 DEF ListOf
        <4> QED BY <2>2, <2>3, <4>2 DEF OnePlace
      <3> QED BY <2>1, <2>3, <2>5, <3>1 DEF StillPublishing
    <2>6. CASE a # h[p].ann
      <3>1. Kept /\ (a \in served => a \in served')
        BY <1>4, <2>3, <2>4, <2>6, AddServes
      <3> QED BY <1>0, <2>2, <3>1 DEF StillPublishing
    <2> QED BY <2>5, <2>6
  <1>5. ASSUME NEW p \in Handlers, QuietStep(p) PROVE a \in served' \/ StillPublishing(nodes'[ip], a)
    <2>1. Kept
      <3>1. o # None /\ nodes'[ip] = o /\ heap'[o].anns = heap[o].anns
        BY <1>5, QuietKeeps DEF SameState
      <3> QED BY <3>1 DEF ListOf
    <2>2. served \subseteq served'
      BY <1>5 DEF QuietStep, ReadStep, Receive, ReceiveBad, Lookup, Check1, Check2, PanicNoVersion,
                  HasAnn, Publish, InvSent, Connect, MakeNode, Disconnect, UpdateLink, LinkStateUpdate, Hash
    <2>3. ASSUME NEW q \in Handlers, h[q].node = o, h[q].ann = a,
                 h[q].pc \in {"links", "has_ann", "publish"}
          PROVE  a \in served' \/ StillPublishing(o, a)
      <3>1. CASE q = p
        BY <1>0, <1>5, <2>1, <2>3, <3>1, PublishesLive DEF StillPublishing
      <3>2. CASE q # p
        BY <1>5, <2>3, <3>2, OneMoves DEF StillPublishing
      <3> QED BY <3>1, <3>2
    <2> QED BY <1>0, <2>1, <2>2, <2>3
  <1> QED BY <1>1, <1>2, <1>3, <1>4, <1>5, StepCases

\* Every announcement a node's state hash covers is served to the other supernodes or
\* about to be, in any interleaving of the handlers and the cleaner and for any nodes
\* handlers hold meanwhile, as long as no announcement has arrived twice.
THEOREM StateAvailable == Spec => []StateServed
  <1> DEFINE Served == \A ip \in Ip : nodes[ip] # None => \A a \in ListOf(nodes[ip]) : ServedOrSoon(nodes[ip], a)
             Inv == Once => OnePlace /\ Served
  <1>1. Init => Inv
    BY DEF Init, OnePlace, Idle
  <1>2. IndInv /\ Inv /\ [Next]_vars => Inv'
    <2> SUFFICES ASSUME IndInv, Inv, [Next]_vars, Once' PROVE OnePlace' /\ Served'
      OBVIOUS
    <2>1. Once
      BY ArrivedStep DEF Once
    <2>2. OnePlace'
      BY <2>1, OnePlaceStep
    <2>3. \A ip \in Ip : nodes'[ip] # None =>
            \A i \in DOMAIN heap'[nodes'[ip]].anns :
              LET a == heap'[nodes'[ip]].anns[i] IN a \in served' \/ StillPublishing(nodes'[ip], a)
      BY <2>1, StateServedStep
    <2>4. Served'
      BY <2>3 DEF ListOf, ServedOrSoon, Publishing, StillPublishing
    <2> QED BY <2>2, <2>4
  <1>3. Inv => StateServed
    BY DEF StateServed, Once, ListOf, ServedOrSoon
  <1> QED BY <1>1, <1>2, <1>3, IndInvariant, PTL DEF Spec
=============================================================================
