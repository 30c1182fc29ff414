---------------------------- MODULE ChainProofs -----------------------------
(***************************************************************************)
(* Proofs about the way to the chain: the streams of a contract's events,  *)
(* the calls of its servers and the copy of its domains, for any servers,  *)
(* kinds of events, calls, queries and bounds.                             *)
(***************************************************************************)
EXTENDS EventStreams, FiniteSetTheorems, TLAPS

-----------------------------------------------------------------------------
(* One provider per lost connection.                                       *)

ProviderTypes ==
  /\ provider \in [Url -> Nat] /\ dropped \in [Url -> SUBSET Nat]
  /\ minNum \in [Reader -> Nat] /\ used \in [Reader -> Nat]

\* Providers are numbered from 0 on: all but the last have lost their connection, and whoever
\* wants a newer one than n knows that n and those before have.  (get_provider, thread)
Numbered ==
  /\ \A u \in Url, n \in Nat : n < provider[u] => n \in dropped[u]
  /\ \A u \in Url : \A n \in dropped[u] : n <= provider[u]
  /\ \A r \in Reader, n \in Nat : n < minNum[r] => n \in dropped[r[1]]
  /\ \A r \in Reader : used[r] # NotYet => used[r] <= provider[r[1]]

ProviderInv == ProviderTypes /\ Numbered

LEMMA ProviderInvInductive ==
  ASSUME MaxDrops \in Nat
  PROVE  ProviderInv /\ [Next]_vars => ProviderInv'
<1> SUFFICES ASSUME ProviderInv, [Next]_vars  PROVE  ProviderInv'
  OBVIOUS
<1> USE DEF ProviderInv, ProviderTypes
<1>0. NotYet \in Nat /\ \A r \in Reader : r[1] \in Url /\ r[2] \in Filter
  BY DEF NotYet, Reader
<1>1. ASSUME UNCHANGED <<provider, dropped, minNum, used>>  PROVE  ProviderInv'
  BY <1>1 DEF Numbered, NotYet
<1>2. ASSUME NEW u \in Url, Drop(u)  PROVE  ProviderInv'
  <2>1. ProviderTypes'
    BY <1>2 DEF Drop
  <2>2. Numbered'
    BY <1>0, <1>2 DEF Drop, Numbered
  <2> QED BY <2>1, <2>2
<1>3. ASSUME NEW r \in Reader, Subscribe(r)  PROVE  ProviderInv'
  <2> DEFINE u == r[1]
             n == IF provider[u] < minNum[r] THEN minNum[r] ELSE provider[u]
  <2>1. /\ u \in Url /\ n \in Nat /\ provider' = [provider EXCEPT ![u] = n] /\ dropped' = dropped
        /\ IF n \in dropped[u]
           THEN minNum' = [minNum EXCEPT ![r] = n + 1] /\ used' = used
           ELSE used' = [used EXCEPT ![r] = n] /\ minNum' = minNum
    BY <1>0, <1>3 DEF Subscribe
  <2>2. /\ provider[u] <= n
        /\ \A k \in Nat : k < n => k \in dropped[u]
    BY <2>1 DEF Numbered
  <2> HIDE DEF n, u
  <2>3. ProviderTypes'
    BY <2>1
  <2>4. \A v \in Url : /\ provider'[v] = IF v = u THEN n ELSE provider[v]
                       /\ provider[v] <= provider'[v]
    BY <2>1, <2>2
  <2>5. /\ \A v \in Url, k \in Nat : k < provider'[v] => k \in dropped'[v]
        /\ \A v \in Url : \A k \in dropped'[v] : k <= provider'[v]
    BY <2>1, <2>2, <2>4 DEF Numbered
  <2>6. ASSUME NEW q \in Reader, NEW k \in Nat, k < minNum'[q]  PROVE  k \in dropped'[q[1]]
    <3>1. CASE q = r /\ n \in dropped[u]
      <4>1. k < n \/ k = n
        BY <2>1, <2>6, <3>1
      <4> QED BY <2>1, <2>2, <3>1, <4>1 DEF u
    <3>2. CASE ~(q = r /\ n \in dropped[u])
      <4>1. minNum'[q] = minNum[q]
        BY <2>1, <3>2
      <4> QED BY <2>1, <2>6, <4>1 DEF Numbered
    <3> QED BY <3>1, <3>2
  <2>7. ASSUME NEW q \in Reader, used'[q] # NotYet  PROVE  used'[q] <= provider'[q[1]]
    <3>1. CASE used'[q] = used[q]
      <4>1. used[q] <= provider[q[1]] /\ q[1] \in Url
        BY <1>0, <2>7, <3>1 DEF Numbered
      <4> QED BY <2>3, <2>4, <3>1, <4>1
    <3>2. CASE used'[q] # used[q]
      <4>1. q = r /\ used'[q] = n
        BY <2>1, <3>2
      <4> QED BY <2>1, <2>4, <4>1 DEF u
    <3> QED BY <3>1, <3>2
  <2>8. Numbered'
    BY <2>5, <2>6, <2>7 DEF Numbered, NotYet
  <2> QED BY <2>3, <2>8
<1>4. ASSUME NEW r \in Reader, Reconnect(r)  PROVE  ProviderInv'
  <2>1. /\ minNum' = [minNum EXCEPT ![r] = used[r] + 1] /\ used' = [used EXCEPT ![r] = NotYet]
        /\ provider' = provider /\ dropped' = dropped
        /\ used[r] \in dropped[r[1]] /\ used[r] <= provider[r[1]] /\ r[1] \in Url
    BY <1>0, <1>4 DEF Reconnect, Wanted, Numbered
  <2>2. ProviderTypes'
    BY <1>0, <2>1
  <2>3. ASSUME NEW k \in Nat, k < used[r] + 1  PROVE  k \in dropped[r[1]]
    <3>1. k < used[r] \/ k = used[r]
      BY <2>3
    <3>2. k < used[r] => k < provider[r[1]]
      BY <2>1
    <3> QED BY <2>1, <3>1, <3>2 DEF Numbered
  <2>4. Numbered'
    BY <1>0, <2>1, <2>3 DEF Numbered, NotYet
  <2> QED BY <2>2, <2>4
<1> QED
  <2>1. CASE Tick
    BY <1>1, <2>1 DEF Tick
  <2>2. CASE Emit
    BY <1>1, <2>2 DEF Emit
  <2>3. ASSUME NEW u \in Url, Tell(u)  PROVE  ProviderInv'
    BY <1>1, <2>3 DEF Tell
  <2>4. ASSUME NEW r \in Reader, Handle(r)  PROVE  ProviderInv'
    BY <1>1, <2>4 DEF Handle
  <2>5. CASE UNCHANGED vars
    BY <1>1, <2>5 DEF vars
  <2> QED BY <1>2, <1>3, <1>4, <2>1, <2>2, <2>3, <2>4, <2>5 DEF Next

\* Each loss of a connection makes at most one new provider, however many streams shared it.
\* (ethrpc.rs: get_provider, thread)
THEOREM OneEach ==
  ASSUME MaxDrops \in Nat
  PROVE  Spec => []OneProviderPerLoss
<1>1. Init => ProviderInv
  BY DEF Init, ProviderInv, ProviderTypes, Numbered, NotYet
<1>2. ProviderInv /\ [Next]_vars => ProviderInv'
  BY ProviderInvInductive
<1>3. ProviderInv => OneProviderPerLoss
  <2> SUFFICES ASSUME ProviderInv, NEW u \in Url  PROVE  provider[u] <= Cardinality(dropped[u])
    BY DEF OneProviderPerLoss
  <2>1. provider[u] \in Nat
    BY DEF ProviderInv, ProviderTypes
  <2>2. dropped[u] \subseteq 0..provider[u] /\ 0..provider[u] - 1 \subseteq dropped[u]
    BY <2>1 DEF ProviderInv, ProviderTypes, Numbered
  <2>3. IsFiniteSet(0..provider[u]) /\ Cardinality(0..provider[u] - 1) = provider[u]
    BY SMTT(30), <2>1, FS_Interval
  <2>4. IsFiniteSet(dropped[u])
    BY <2>2, <2>3, FS_Subset
  <2> QED BY ZenonT(30), <2>2, <2>3, <2>4, FS_Subset
<1> QED BY <1>1, <1>2, <1>3, PTL DEF Spec

-----------------------------------------------------------------------------
(* What is remembered of the transactions.                                 *)

Entry == [at : Nat, tx : Nat, url : Url]
Note == [tx : Nat, kind : Filter, url : Url, at : Nat, from : Url, taken : BOOLEAN]

EventTypes ==
  /\ now \in Nat /\ told \in [Url -> Nat]
  /\ stream \in [Reader -> Seq(Nat)] /\ heard \in [Reader -> SUBSET Nat]
  /\ txns \in Seq(Entry) /\ handled \in SUBSET Note

\* What notify_check drops is what is old enough.
LEMMA Forgets ==
  ASSUME EventTypes
  PROVE  \E k \in 0..Len(txns) :
           /\ Remembered = SubSeq(txns, k + 1, Len(txns))
           /\ \A i \in 1..k : txns[i].at + Memory <= now
<1> DEFINE k == Cardinality(Forgettable)
<1> txns \in Seq(Entry)
  BY DEF EventTypes
<1>0. Len(txns) \in Nat /\ DOMAIN txns = 1..Len(txns)
  OBVIOUS
<1>1. IsFiniteSet(1..Len(txns)) /\ Cardinality(1..Len(txns)) = Len(txns)
  BY <1>0, FS_Interval
<1>2. IsFiniteSet(Forgettable) /\ k <= Len(txns)
  BY <1>0, <1>1, FS_Subset DEF Forgettable
<1>3. k \in Nat
  BY <1>2, FS_CardinalityType
<1>4. ASSUME NEW i \in Forgettable  PROVE  i <= k
  <2>1. i \in Nat /\ 1..i \subseteq Forgettable
    BY <1>0, <1>4 DEF Forgettable
  <2>2. Cardinality(1..i) = i
    BY <2>1, FS_Interval
  <2>3. Cardinality(1..i) <= k
    BY <1>2, <2>1, FS_Subset
  <2> QED BY <2>2, <2>3
<1>5. Forgettable \subseteq 1..k
  BY <1>0, <1>3, <1>4 DEF Forgettable
<1>6. IsFiniteSet(1..k) /\ Cardinality(1..k) = k
  BY <1>3, FS_Interval
<1>7. 1..k = Forgettable
  BY <1>5, <1>6, FS_Subset
<1>8. \A i \in 1..k : txns[i].at + Memory <= now
  BY <1>0, <1>7 DEF Forgettable
<1> QED BY <1>2, <1>3, <1>8 DEF Remembered

\* A transaction's entry was forgotten: it was handed on too long ago.
Forgotten(x) == \E c \in HandedOn : c.tx = x /\ c.at + Memory <= now
InTable(x, u) == \E i \in DOMAIN txns : txns[i].tx = x /\ txns[i].url = u

EventInv ==
  /\ EventTypes
  /\ \A i, j \in DOMAIN txns : txns[i].tx = txns[j].tx => i = j
  /\ \A i \in DOMAIN txns : \E c \in HandedOn : c.tx = txns[i].tx /\ c.at = txns[i].at
  /\ \A s \in handled : /\ s.at <= now
                        /\ s.taken <=> s.from = s.url
                        /\ Forgotten(s.tx) \/ InTable(s.tx, s.from)
  /\ \A r \in Reader : \A x \in heard[r] :
       \/ x \in ToSet(stream[r])
       \/ \E h \in handled : h.tx = x /\ h.kind = r[2] /\ h.url = r[1]
  /\ HandledOnce

\* Handling an event keeps the table, the notes and the streams in step.
\* (ethrpc.rs: notify_check, handle_events)
LEMMA HandleKeeps ==
  ASSUME EventInv, Memory \in Nat, NEW r \in Reader, Handle(r)
  PROVE  EventInv'
<1> DEFINE x == Head(stream[r])
           u == r[1]
           K == KnownFrom(x)
           R == Remembered
           note(v) == [tx |-> x, kind |-> r[2], url |-> u, at |-> now, from |-> v, taken |-> K \subseteq {u}]
           whom == IF K = {} THEN {u} ELSE K
<1>0. EventTypes /\ u \in Url /\ r[2] \in Filter
  BY DEF EventInv, Reader
<1>1. /\ stream[r] # <<>> /\ stream' = [stream EXCEPT ![r] = Tail(@)]
      /\ txns' = IF K = {} THEN Append(R, [at |-> now, tx |-> x, url |-> u]) ELSE R
      /\ handled' = handled \cup { note(v) : v \in whom }
      /\ now' = now /\ told' = told /\ heard' = heard
  BY DEF Handle, Accepts
<1>2. x \in Nat /\ now \in Nat
  BY <1>0, <1>1 DEF EventTypes
<1>3. PICK k \in 0..Len(txns) :
        /\ R = SubSeq(txns, k + 1, Len(txns))
        /\ \A i \in 1..k : txns[i].at + Memory <= now
  BY <1>0, Forgets
<1>4. txns \in Seq(Entry)
  BY <1>0 DEF EventTypes
<1>5. /\ R \in Seq(Entry) /\ Len(R) = Len(txns) - k /\ DOMAIN R = 1..Len(R)
      /\ DOMAIN txns = 1..Len(txns) /\ Len(txns) \in Nat
      /\ \A j \in 1..Len(R) : R[j] = txns[j + k]
  BY <1>3, <1>4
<1>51. k \in Nat /\ Len(R) \in Nat /\ \A j \in DOMAIN R : R[j] \in Entry
  <2>1. R \in Seq(Entry)
    BY <1>5
  <2>2. Len(R) \in Nat /\ \A j \in DOMAIN R : R[j] \in Entry
    BY <2>1
  <2>3. k \in Nat
    OBVIOUS
  <2> QED BY <2>2, <2>3
<1>52. \A j \in 1..Len(R) : j \in Nat /\ j + k \in DOMAIN txns
  <2> DEFINE n == Len(txns)
             m == Len(R)
  <2>1. n \in Nat /\ m = n - k /\ DOMAIN txns = 1..n
    BY <1>5
  <2> HIDE DEF n, m
  <2>2. \A j \in 1..m : j \in Nat /\ j + k \in 1..n
    BY <1>51, <2>1
  <2> QED BY <2>1, <2>2 DEF m
<1>6. \A v : v \in K <=> \E j \in DOMAIN R : R[j].tx = x /\ R[j].url = v
  BY DEF KnownFrom, ToSet
<1> HIDE DEF K, R, x, u
<1>7. \A i, j \in DOMAIN R : R[i].tx = R[j].tx => i = j
  <2> SUFFICES ASSUME NEW i \in 1..Len(R), NEW j \in 1..Len(R), R[i].tx = R[j].tx  PROVE  i = j
    BY <1>5
  <2>1. i + k \in DOMAIN txns /\ j + k \in DOMAIN txns
    BY <1>52
  <2>2. i + k = j + k
    BY <1>5, <2>1 DEF EventInv
  <2>3. i \in Nat /\ j \in Nat
    BY <1>52
  <2> QED BY <1>51, <2>2, <2>3
<1>8. \A v, w \in K : v = w
  BY <1>6, <1>7
<1>9. K \subseteq Url
  BY <1>6, <1>51 DEF Entry
<1>10. \A v \in whom : (K \subseteq {u}) <=> v = u
  BY <1>8
<1>11. whom # {} /\ whom \subseteq Url
  BY <1>0, <1>9
<1>12. /\ \A v : /\ note(v).tx = x /\ note(v).kind = r[2] /\ note(v).url = u /\ note(v).at = now
                 /\ note(v).from = v /\ (note(v).taken <=> K \subseteq {u})
       /\ \A v \in whom : note(v) \in Note
  BY <1>0, <1>2, <1>11 DEF Note
<1> HIDE DEF note, whom
<1>13. /\ HandedOn \subseteq HandedOn' /\ handled \subseteq handled'
       /\ \A v \in whom : note(v) \in handled' /\ (K \subseteq {u} => note(v) \in HandedOn')
       /\ \A s \in handled' : s \in handled \/ \E v \in whom : s = note(v)
  BY <1>1, <1>12 DEF HandedOn
<1>14. \A y : Forgotten(y) => Forgotten(y)'
  BY <1>1, <1>13 DEF Forgotten
<1>15. ASSUME NEW y, NEW v, InTable(y, v)
       PROVE  Forgotten(y) \/ \E j \in DOMAIN R : R[j].tx = y /\ R[j].url = v
  <2>1. PICK i \in 1..Len(txns) : txns[i].tx = y /\ txns[i].url = v
    BY <1>5, <1>15 DEF InTable
  <2>2. CASE i <= k
    <3>1. txns[i].at + Memory <= now
      BY <1>3, <2>1, <2>2
    <3>2. PICK c \in HandedOn : c.tx = txns[i].tx /\ c.at = txns[i].at
      BY <1>5, <2>1 DEF EventInv
    <3> QED BY <2>1, <3>1, <3>2 DEF Forgotten
  <2>3. CASE i > k
    <3>1. i - k \in 1..Len(R) /\ R[i - k] = txns[i]
      <4> DEFINE n == Len(txns)
                 m == Len(R)
      <4>0. n \in Nat /\ m = n - k /\ i \in 1..n
        BY <1>5
      <4> HIDE DEF n, m
      <4>1. i - k \in 1..m /\ (i - k) + k = i
        BY <1>51, <2>3, <4>0
      <4> QED BY <1>5, <4>1 DEF m
    <3> QED BY <1>5, <2>1, <3>1
  <2>4. i \in Nat
    OBVIOUS
  <2> QED BY <1>51, <2>2, <2>3, <2>4
<1>16. \A j \in DOMAIN R : R[j] \in Entry /\ \E c \in HandedOn : c.tx = R[j].tx /\ c.at = R[j].at
  <2> SUFFICES ASSUME NEW j \in 1..Len(R)
               PROVE  R[j] \in Entry /\ \E c \in HandedOn : c.tx = R[j].tx /\ c.at = R[j].at
    BY <1>5
  <2>1. j + k \in DOMAIN txns /\ R[j] = txns[j + k]
    BY <1>5, <1>52
  <2> QED BY <1>5, <1>51, <2>1 DEF EventInv
<1> DEFINE e == [at |-> now, tx |-> x, url |-> u]
<1>17. e \in Entry /\ e.at = now /\ e.tx = x /\ e.url = u
  BY <1>0, <1>2 DEF Entry
<1> HIDE DEF e
<1>18. /\ txns' \in Seq(Entry)
       /\ DOMAIN R \subseteq DOMAIN txns' /\ \A j \in DOMAIN R : txns'[j] = R[j]
       /\ K = {} => \E j \in DOMAIN txns' : txns'[j] = e
       /\ \A j \in DOMAIN txns' : j \in DOMAIN R \/ (K = {} /\ j = Len(R) + 1 /\ txns'[j] = e)
  <2>1. CASE K = {}
    <3>1. txns' = Append(R, e)
      BY <1>1, <2>1 DEF e
    <3>2. Len(R) \in Nat /\ Len(txns') = Len(R) + 1 /\ txns' \in Seq(Entry) /\ txns'[Len(R) + 1] = e
          /\ \A j \in 1..Len(R) : txns'[j] = R[j]
      BY <1>5, <1>17, <3>1
    <3>3. DOMAIN txns' = 1..Len(R) + 1
      BY <3>2
    <3>4. \A j \in 1..Len(R) + 1 : j \in 1..Len(R) \/ j = Len(R) + 1
      BY <3>2
    <3>5. Len(R) + 1 \in DOMAIN txns'
      BY <3>2, <3>3
    <3>6. DOMAIN R \subseteq DOMAIN txns' /\ \A j \in DOMAIN R : txns'[j] = R[j]
      BY SMTT(30), <1>5, <3>2, <3>3
    <3> QED BY <1>5, <2>1, <3>2, <3>3, <3>4, <3>5, <3>6
  <2>2. CASE K # {}
    BY <1>1, <1>5, <2>2
  <2> QED BY <2>1, <2>2
<1>19. EventTypes'
  <2>1. stream' \in [Reader -> Seq(Nat)]
    BY <1>0, <1>1 DEF EventTypes
  <2>2. handled' \in SUBSET Note
    BY <1>0, <1>12, <1>13 DEF EventTypes
  <2> QED BY <1>0, <1>1, <1>18, <2>1, <2>2 DEF EventTypes
<1>20. \A i, j \in DOMAIN txns' : txns'[i].tx = txns'[j].tx => i = j
  BY <1>6, <1>7, <1>17, <1>18
<1>21. \A i \in DOMAIN txns' : \E c \in HandedOn' : c.tx = txns'[i].tx /\ c.at = txns'[i].at
  <2> SUFFICES ASSUME NEW i \in DOMAIN txns'
               PROVE  \E c \in HandedOn' : c.tx = txns'[i].tx /\ c.at = txns'[i].at
    OBVIOUS
  <2>1. CASE i \in DOMAIN R
    BY <1>13, <1>16, <1>18, <2>1
  <2>2. CASE K = {} /\ txns'[i] = e
    <3>1. PICK v \in whom : TRUE
      BY <1>11 DEF whom
    <3> QED BY <1>12, <1>13, <1>17, <2>2, <3>1
  <2> QED BY <1>18, <2>1, <2>2
<1>22. ASSUME NEW s \in handled'
       PROVE  /\ s.at <= now'
              /\ s.taken <=> s.from = s.url
              /\ Forgotten(s.tx)' \/ InTable(s.tx, s.from)'
  <2>1. CASE s \in handled
    <3>1. s.at <= now /\ (s.taken <=> s.from = s.url) /\ (Forgotten(s.tx) \/ InTable(s.tx, s.from))
      BY <2>1 DEF EventInv
    <3>2. InTable(s.tx, s.from) => Forgotten(s.tx) \/ InTable(s.tx, s.from)'
      BY SMTT(30), <1>15, <1>18 DEF InTable
    <3> QED BY <1>1, <1>14, <3>1, <3>2
  <2>2. ASSUME NEW v \in whom, s = note(v)
        PROVE  /\ s.at <= now'
               /\ s.taken <=> s.from = s.url
               /\ InTable(s.tx, s.from)'
    <3>1. s.tx = x /\ s.url = u /\ s.at = now /\ s.from = v /\ (s.taken <=> K \subseteq {u})
      BY <1>12, <2>2
    <3>2. \E j \in DOMAIN txns' : txns'[j].tx = x /\ txns'[j].url = v
      BY <1>6, <1>17, <1>18 DEF whom
    <3>3. (K \subseteq {u}) <=> v = u
      BY <1>10 DEF whom
    <3> QED BY <1>1, <1>2, <3>1, <3>2, <3>3 DEF InTable
  <2> QED BY <1>13, <2>1, <2>2
<1>23. ASSUME NEW q \in Reader, NEW y \in heard'[q]
       PROVE  \/ y \in ToSet(stream'[q])
              \/ \E h \in handled' : h.tx = y /\ h.kind = q[2] /\ h.url = q[1]
  <2>1. \/ y \in ToSet(stream[q])
        \/ \E h \in handled : h.tx = y /\ h.kind = q[2] /\ h.url = q[1]
    BY <1>1, <1>23 DEF EventInv
  <2>2. CASE q = r /\ y = x
    <3>1. PICK v \in whom : TRUE
      BY <1>11 DEF whom
    <3> QED BY <1>12, <1>13, <2>2, <3>1 DEF u
  <2>3. CASE q = r /\ y # x /\ y \in ToSet(stream[q])
    <3>1. stream[r] \in Seq(Nat) /\ stream'[r] = Tail(stream[r])
      BY <1>0, <1>1 DEF EventTypes
    <3>2. PICK i \in 1..Len(stream[r]) : y = stream[r][i]
      BY <2>3, <3>1 DEF ToSet
    <3>3. i - 1 \in 1..Len(Tail(stream[r])) /\ Tail(stream[r])[i - 1] = y
      BY <1>1, <2>3, <3>1, <3>2 DEF x
    <3>4. DOMAIN Tail(stream[r]) = 1..Len(Tail(stream[r]))
      BY <1>1, <3>1
    <3> QED BY <2>3, <3>1, <3>3, <3>4 DEF ToSet
  <2>4. CASE q # r
    BY <1>0, <1>1, <1>13, <2>1, <2>4 DEF EventTypes
  <2> QED BY <1>13, <2>1, <2>2, <2>3, <2>4
<1>24. HandledOnce'
  <2> SUFFICES ASSUME NEW a \in HandedOn', NEW b \in HandedOn', a.tx = b.tx, a.kind = b.kind,
                      a.url # b.url, a.at <= b.at
               PROVE  \E c \in HandedOn' : c.tx = a.tx /\ c.at + Memory <= b.at
    BY DEF HandledOnce
  <2>1. ASSUME NEW o \in HandedOn, NEW v \in whom, o.tx = note(v).tx, o.url # note(v).url,
               K \subseteq {u}
        PROVE  Forgotten(x)
    <3>1. o.tx = x /\ o.url # u /\ o \in handled /\ o.taken
      BY <1>12, <2>1 DEF HandedOn
    <3>2. o.from = o.url /\ (Forgotten(x) \/ InTable(x, o.url))
      BY <3>1 DEF EventInv
    <3>3. o.url \notin K
      BY <2>1, <3>1
    <3> QED BY <1>6, <1>15, <3>2, <3>3
  <2>2. CASE a \in handled /\ b \in handled
    <3>1. a \in HandedOn /\ b \in HandedOn
      BY <2>2 DEF HandedOn
    <3> QED BY <1>13, <3>1 DEF EventInv, HandledOnce
  <2>3. ASSUME NEW v \in whom, b = note(v), a \in handled
        PROVE  \E c \in HandedOn' : c.tx = a.tx /\ c.at + Memory <= b.at
    <3>1. a \in HandedOn /\ K \subseteq {u} /\ b.at = now /\ b.tx = x
      BY <1>12, <2>3 DEF HandedOn
    <3>2. Forgotten(x)
      BY <2>1, <2>3, <3>1
    <3> QED BY <1>13, <3>1, <3>2 DEF Forgotten
  <2>4. ASSUME NEW v \in whom, a = note(v), b \in handled
        PROVE  \E c \in HandedOn' : c.tx = a.tx /\ c.at + Memory <= b.at
    <3>1. b \in HandedOn /\ K \subseteq {u} /\ a.at = now /\ a.tx = x
      BY <1>12, <2>4 DEF HandedOn
    <3>2. b.at = now
      <4>1. b.at \in Nat /\ b.at <= now
        BY <1>0, <2>4 DEF EventInv, EventTypes, Note
      <4> QED BY <1>2, <3>1, <4>1
    <3>3. Forgotten(x)
      BY <2>1, <2>4, <3>1
    <3> QED BY <1>13, <3>1, <3>2, <3>3 DEF Forgotten
  <2>5. ASSUME NEW v \in whom, NEW w \in whom, a = note(v), b = note(w)  PROVE  FALSE
    BY <1>12, <2>5
  <2>6. a \in handled' /\ b \in handled'
    BY DEF HandedOn
  <2> QED BY <1>13, <2>2, <2>3, <2>4, <2>5, <2>6
<1> QED BY <1>19, <1>20, <1>21, <1>22, <1>23, <1>24 DEF EventInv

\* What a server tells waits in the streams it told it to.  (handle_events)
LEMMA TellKeeps ==
  ASSUME EventInv, NEW u \in Url, Tell(u)
  PROVE  EventInv'
<1> DEFINE x == told[u] + 1
           to == { r \in Reader : r[1] = u /\ r[2] \in events[x] /\ Connected(r) }
<1>1. /\ told' = [told EXCEPT ![u] = @ + 1] /\ UNCHANGED <<now, txns, handled>>
      /\ stream' = [r \in Reader |-> IF r \in to THEN Append(stream[r], x) ELSE stream[r]]
      /\ heard' = [r \in Reader |-> IF r \in to THEN heard[r] \cup {x} ELSE heard[r]]
  BY DEF Tell
<1>2. EventTypes /\ x \in Nat
  BY DEF EventInv, EventTypes
<1> HIDE DEF x, to
<1>3. EventTypes'
  BY <1>1, <1>2 DEF EventTypes
<1>4. ASSUME NEW r \in Reader, NEW y \in heard'[r]
      PROVE  \/ y \in ToSet(stream'[r])
             \/ \E h \in handled' : h.tx = y /\ h.kind = r[2] /\ h.url = r[1]
  <2>1. stream[r] \in Seq(Nat)
    BY <1>2 DEF EventTypes
  <2>2. CASE r \in to
    <3> DEFINE q == Append(stream[r], x)
    <3>1. /\ Len(q) = Len(stream[r]) + 1 /\ q[Len(q)] = x /\ Len(stream[r]) \in Nat
          /\ \A i \in 1..Len(stream[r]) : q[i] = stream[r][i]
          /\ DOMAIN q = 1..Len(q) /\ DOMAIN stream[r] = 1..Len(stream[r])
      BY <1>2, <2>1
    <3>2. stream'[r] = q
      BY <1>1, <2>2
    <3> HIDE DEF q
    <3>3. \A z \in ToSet(stream[r]) : z \in ToSet(q)
      BY <3>1 DEF ToSet
    <3>4. x \in ToSet(q)
      BY <3>1 DEF ToSet
    <3>5. y = x \/ y \in heard[r]
      BY <1>1, <1>4, <2>2
    <3> QED BY <1>1, <3>2, <3>3, <3>4, <3>5 DEF EventInv
  <2>3. CASE r \notin to
    <3>1. y \in heard[r] /\ stream'[r] = stream[r]
      BY <1>1, <1>4, <2>3
    <3> QED BY <1>1, <3>1 DEF EventInv
  <2> QED BY <2>2, <2>3
<1> QED BY <1>1, <1>3, <1>4 DEF EventInv, Forgotten, InTable, HandedOn, HandledOnce

\* An event is handed on once while its transaction is remembered, and not skipped in favour of a
\* server that would skip it too.  (ethrpc.rs: notify_check, handle_events)
THEOREM EachOnce ==
  ASSUME Memory \in Nat
  PROVE  Spec => []EventsOnce
<1>1. Init => EventInv
  <2> SUFFICES ASSUME Init  PROVE  EventInv
    OBVIOUS
  <2>1. EventTypes
    BY DEF Init, EventTypes
  <2>2. DOMAIN txns = {} /\ handled = {} /\ \A r \in Reader : heard[r] = {}
    BY DEF Init
  <2> QED BY <2>1, <2>2 DEF EventInv, HandledOnce, HandedOn
<1>2. EventInv /\ [Next]_vars => EventInv'
  <2> SUFFICES ASSUME EventInv, [Next]_vars  PROVE  EventInv'
    OBVIOUS
  <2>1. ASSUME now' \in Nat, now <= now', UNCHANGED <<told, stream, txns, handled, heard>>
        PROVE  EventInv'
    <3>1. EventTypes'
      BY <2>1 DEF EventInv, EventTypes
    <3>2. HandedOn' = HandedOn
      BY <2>1 DEF HandedOn
    <3>3. \A c \in HandedOn : c.at \in Nat
      BY DEF EventInv, EventTypes, Note, HandedOn
    <3>4. \A y : Forgotten(y) => Forgotten(y)'
      BY <2>1, <3>2, <3>3 DEF Forgotten, EventInv, EventTypes
    <3>5. \A s \in handled : s.at \in Nat
      BY DEF EventInv, EventTypes, Note
    <3>6. \A s \in handled' : /\ s.at <= now'
                              /\ s.taken <=> s.from = s.url
                              /\ Forgotten(s.tx)' \/ InTable(s.tx, s.from)'
      BY <2>1, <3>4, <3>5 DEF EventInv, EventTypes, InTable
    <3> QED BY <2>1, <3>1, <3>2, <3>6 DEF EventInv, HandledOnce
  <2>2. ASSUME UNCHANGED <<now, told, stream, txns, handled, heard>>  PROVE  EventInv'
    BY <2>1, <2>2 DEF EventInv, EventTypes
  <2>3. CASE Tick
    BY <2>1, <2>3 DEF Tick, EventInv, EventTypes
  <2>4. CASE Emit
    BY <2>2, <2>4 DEF Emit
  <2>5. ASSUME NEW u \in Url, Drop(u)  PROVE  EventInv'
    BY <2>2, <2>5 DEF Drop
  <2>6. ASSUME NEW r \in Reader, Subscribe(r)  PROVE  EventInv'
    BY <2>2, <2>6 DEF Subscribe
  <2>7. ASSUME NEW r \in Reader, Reconnect(r)  PROVE  EventInv'
    BY <2>2, <2>7 DEF Reconnect
  <2>8. CASE UNCHANGED vars
    BY <2>2, <2>8 DEF vars
  <2> QED BY <2>3, <2>4, <2>5, <2>6, <2>7, <2>8, TellKeeps, HandleKeeps DEF Next
<1>3. EventInv => EventsOnce
  <2> SUFFICES ASSUME EventInv, NEW s \in handled, s.tx \in heard[<<s.from, s.kind>>],
                      \A c \in HandedOn : c.tx = s.tx => now < c.at + Memory
               PROVE  \/ \E h \in HandedOn : h.tx = s.tx /\ h.kind = s.kind
                      \/ s.tx \in ToSet(stream[<<s.from, s.kind>>])
    BY DEF EventsOnce, OwnerHandles, EventInv
  <2>1. <<s.from, s.kind>> \in Reader
    BY DEF EventInv, EventTypes, Note, Reader
  <2>2. ~Forgotten(s.tx)
    <3>1. now \in Nat /\ \A c \in HandedOn : c.at \in Nat
      BY DEF EventInv, EventTypes, Note, HandedOn
    <3> QED BY <3>1 DEF Forgotten
  <2>3. ASSUME NEW h \in handled, h.tx = s.tx, h.kind = s.kind, h.url = s.from  PROVE  h \in HandedOn
    <3>1. InTable(s.tx, s.from) /\ InTable(s.tx, h.from)
      BY <2>2, <2>3 DEF EventInv
    <3>2. s.from = h.from
      BY <3>1 DEF InTable, EventInv
    <3>3. h.taken
      BY <2>3, <3>2 DEF EventInv
    <3> QED BY <3>3 DEF HandedOn
  <2> QED BY <2>1, <2>3 DEF EventInv
<1> QED BY <1>1, <1>2, <1>3, PTL DEF Spec

-----------------------------------------------------------------------------
(* Calls.                                                                  *)

CONSTANTS Rpcs, Call, MaxTries
VARIABLES dead, place, tries, type, second, count, server, raced

Rpc == INSTANCE RpcCalls WITH at <- place

LEMMA SameSizes ==
  ASSUME NEW S
  PROVE  Rpc!Cardinality(S) = Cardinality(S) /\ Rpc!ToSet(S) = ToSet(S)
BY DEF Rpc!Cardinality, Cardinality, Rpc!ToSet, ToSet

Places == {"idle", "count", "pick", "asked", "again", "none", "panic"}

CallTypes ==
  /\ dead \in [ToSet(Rpcs) -> BOOLEAN]
  /\ place \in [Call -> Places] /\ type \in [Call -> BOOLEAN] /\ second \in [Call -> BOOLEAN]
  /\ raced \in [Call -> BOOLEAN] /\ count \in [Call -> Nat]

\* What a call that no mark was changed under knows of the marks: that there is no server of
\* the type it tried first, or how many there are of the one it chose.  (rpc, rpc_of_type)
Knows(c) ==
  /\ (place[c] = "count" /\ second[c]) => Rpc!OfType(dead, ~type[c]) = {}
  /\ place[c] = "pick" => Cardinality(Rpc!OfType(dead, type[c])) = count[c]
  /\ place[c] \notin {"none", "panic"}

RpcInv == CallTypes /\ \A c \in Call : raced[c] \/ Knows(c)

\* A mark that stays as it was changes nothing, and one that changes is a race to those who
\* have looked.  (RpcInfo)
LEMMA Marked ==
  ASSUME RpcInv, NEW c \in Call, NEW d \in BOOLEAN, Rpc!Mark(c, d), NEW s \in Places \ {"count", "pick", "none", "panic"},
         place' = [place EXCEPT ![c] = s], UNCHANGED <<type, second, count>>
  PROVE  RpcInv'
<1>1. CallTypes'
  BY DEF RpcInv, CallTypes, Rpc!Mark, Places
<1>2. ASSUME NEW k \in Call, ~raced'[k]  PROVE  Knows(k)'
  <2>1. ~raced[k] /\ Knows(k)
    BY <1>2 DEF Rpc!Mark, RpcInv, CallTypes
  <2>2. CASE k = c
    BY <2>2 DEF Knows, RpcInv, CallTypes, Places
  <2>3. CASE k # c
    <3>1. place'[k] = place[k]
      BY <2>3 DEF RpcInv, CallTypes
    <3>2. CASE dead[server[c]] = d
      <4>1. dead' = dead
        BY <3>2 DEF Rpc!Mark, RpcInv, CallTypes
      <4> QED BY <2>1, <3>1, <4>1 DEF Knows
    <3>3. CASE dead[server[c]] # d
      <4>1. ~(place[k] = "pick" \/ (place[k] = "count" /\ second[k]))
        BY <1>2, <3>3 DEF Rpc!Mark
      <4> QED BY <2>1, <3>1, <4>1 DEF Knows
    <3> QED BY <3>2, <3>3
  <2> QED BY <2>2, <2>3
<1> QED BY <1>1, <1>2 DEF RpcInv

\* Steps of a call that leave the marks alone leave alone what the others know.
LEMMA CallStep ==
  ASSUME RpcInv, NEW c \in Call, CallTypes', dead' = dead,
         \A k \in Call \ {c} : /\ place'[k] = place[k] /\ type'[k] = type[k] /\ second'[k] = second[k]
                               /\ count'[k] = count[k] /\ raced'[k] = raced[k],
         raced'[c] \/ Knows(c)'
  PROVE  RpcInv'
<1> SUFFICES ASSUME NEW k \in Call \ {c}  PROVE  raced'[k] \/ Knows(k)'
  BY DEF RpcInv
<1> QED BY DEF RpcInv, Knows

\* A call is left without a server, or panics, only when another changed a mark while it
\* selected.  There has to be a server in the configuration.  (ethrpc.rs: rpc, rpc_of_type)
THEOREM AloneFinds ==
  ASSUME DOMAIN Rpcs # {}, IsFiniteSet(DOMAIN Rpcs)
  PROVE  Rpc!Spec => []Rpc!ShortageIsRace
<1>0. \A i \in DOMAIN Rpcs : Rpcs[i] \in ToSet(Rpcs)
  BY DEF ToSet
<1>1. Rpc!Init => RpcInv
  BY SameSizes DEF Rpc!Init, RpcInv, CallTypes, Places, Knows
<1>2. RpcInv /\ [Rpc!Next]_(Rpc!vars) => RpcInv'
  <2> SUFFICES ASSUME RpcInv, [Rpc!Next]_(Rpc!vars)  PROVE  RpcInv'
    OBVIOUS
  <2>0. ASSUME NEW d \in BOOLEAN  PROVE  IsFiniteSet(Rpc!OfType(dead, d))
    BY FS_Subset DEF Rpc!OfType
  <2>1. ASSUME NEW c \in Call, Rpc!Attempt(c)  PROVE  RpcInv'
    <3>1. CallTypes'
      BY <2>1 DEF Rpc!Attempt, RpcInv, CallTypes, Places
    <3>2. Knows(c)'
      BY <2>1 DEF Rpc!Attempt, RpcInv, CallTypes, Knows
    <3> QED BY <2>1, <3>1, <3>2, CallStep DEF Rpc!Attempt, RpcInv, CallTypes
  <2>2. ASSUME NEW c \in Call, Rpc!CountType(c)  PROVE  RpcInv'
    <3> DEFINE n == Cardinality(Rpc!OfType(dead, type[c]))
    <3>0. type[c] \in BOOLEAN /\ n \in Nat
      BY <2>0, FS_CardinalityType DEF RpcInv, CallTypes
    <3>1. /\ count' = [count EXCEPT ![c] = n] /\ dead' = dead /\ raced' = raced
          /\ place' = [place EXCEPT ![c] = IF n > 0 THEN "pick" ELSE IF second[c] THEN "none" ELSE "count"]
          /\ second' = [second EXCEPT ![c] = @ \/ n = 0]
          /\ type' = [type EXCEPT ![c] = IF n = 0 THEN ~@ ELSE @]
          /\ place[c] = "count"
      BY <2>2, SameSizes DEF Rpc!CountType
    <3>2. n = 0 => Rpc!OfType(dead, type[c]) = {}
      BY <2>0, <3>0, FS_EmptySet
    <3> HIDE DEF n
    <3>3. CallTypes'
      BY <3>0, <3>1 DEF RpcInv, CallTypes, Places
    <3>4. CASE n = 0 /\ second[c]
      <4>1. raced[c]
        <5> SUFFICES ASSUME ~raced[c]  PROVE  FALSE
          BY DEF RpcInv, CallTypes
        <5>1. Rpc!OfType(dead, ~type[c]) = {} /\ Rpc!OfType(dead, type[c]) = {}
          BY <3>1, <3>2, <3>4 DEF RpcInv, Knows
        <5>2. PICK i \in DOMAIN Rpcs : TRUE
          OBVIOUS
        <5>3. dead[Rpcs[i]] \in BOOLEAN
          BY <1>0, <5>2 DEF RpcInv, CallTypes
        <5> QED BY <3>0, <5>1, <5>2, <5>3 DEF Rpc!OfType
      <4> QED BY <3>1, <3>3, <4>1, CallStep DEF RpcInv, CallTypes
    <3>5. CASE n = 0 /\ ~second[c]
      <4>1. place'[c] = "count" /\ type'[c] = ~type[c]
        BY <3>1, <3>5 DEF RpcInv, CallTypes
      <4>2. Rpc!OfType(dead', ~type'[c]) = {}
        BY <3>0, <3>1, <3>2, <3>5, <4>1 DEF RpcInv, CallTypes
      <4>3. Knows(c)'
        BY <4>1, <4>2 DEF Knows
      <4> QED BY <3>1, <3>3, <4>3, CallStep DEF RpcInv, CallTypes
    <3>6. CASE n > 0
      <4>1. place'[c] = "pick" /\ type'[c] = type[c] /\ count'[c] = n
        BY <3>0, <3>1, <3>6 DEF RpcInv, CallTypes
      <4>2. Knows(c)'
        BY <3>1, <4>1 DEF Knows, n
      <4> QED BY <3>1, <3>3, <4>2, CallStep DEF RpcInv, CallTypes
    <3> QED BY <3>0, <3>4, <3>5, <3>6 DEF RpcInv, CallTypes
  <2>3. ASSUME NEW c \in Call, Rpc!Pick(c)  PROVE  RpcInv'
    <3>1. PICK choice \in Rpc!Drawn(c) :
            IF choice < Cardinality(Rpc!OfType(dead, type[c]))
            THEN /\ server' = [server EXCEPT ![c] = Rpcs[Rpc!Nth(Rpc!OfType(dead, type[c]), choice)]]
                 /\ place' = [place EXCEPT ![c] = "asked"]
            ELSE place' = [place EXCEPT ![c] = "panic"] /\ UNCHANGED server
      BY <2>3, SameSizes DEF Rpc!Pick
    <3>2. UNCHANGED <<dead, type, second, count, raced>> /\ place[c] = "pick"
      BY <2>3 DEF Rpc!Pick
    <3>3. place' = [place EXCEPT ![c] = "asked"] \/ place' = [place EXCEPT ![c] = "panic"]
      BY <3>1
    <3>4. CallTypes'
      BY <3>2, <3>3 DEF RpcInv, CallTypes, Places
    <3>5. ~raced[c] => place' = [place EXCEPT ![c] = "asked"]
      <4> SUFFICES ASSUME ~raced[c]  PROVE  place' = [place EXCEPT ![c] = "asked"]
        OBVIOUS
      <4>1. Cardinality(Rpc!OfType(dead, type[c])) = count[c] /\ count[c] \in Nat
        BY <3>2 DEF RpcInv, CallTypes, Knows
      <4>2. choice < count[c]
        BY <3>1, <4>1 DEF Rpc!Drawn
      <4> QED BY <3>1, <4>1, <4>2
    <3>6. raced'[c] \/ Knows(c)'
      BY <3>2, <3>5 DEF RpcInv, CallTypes, Knows
    <3>7. \A k \in Call \ {c} : place'[k] = place[k]
      BY <3>3 DEF RpcInv, CallTypes
    <3> QED BY <3>2, <3>4, <3>6, <3>7, CallStep
  <2>4. ASSUME NEW c \in Call, Rpc!Answered(c)  PROVE  RpcInv'
    BY <2>4, Marked DEF Rpc!Answered, Places
  <2>5. ASSUME NEW c \in Call, place[c] = "asked", UNCHANGED <<dead, raced, type, second, count>>,
               place' = [place EXCEPT ![c] = "idle"] \/ place' = [place EXCEPT ![c] = "again"]
        PROVE  RpcInv'
    <3>1. CallTypes'
      BY <2>5 DEF RpcInv, CallTypes, Places
    <3>2. Knows(c)' /\ \A k \in Call \ {c} : place'[k] = place[k]
      BY <2>5 DEF RpcInv, CallTypes, Knows
    <3> QED BY <2>5, <3>1, <3>2, CallStep
  <2>6. ASSUME NEW c \in Call, Rpc!Failed(c)  PROVE  RpcInv'
    <3>1. CASE tries[c] > MaxTries
      BY <2>6, <2>5, <3>1 DEF Rpc!Failed
    <3>2. CASE ~(tries[c] > MaxTries)
      BY <2>6, <3>2, Marked DEF Rpc!Failed, Places
    <3> QED BY <3>1, <3>2
  <2>7. ASSUME NEW c \in Call, Rpc!Refused(c)  PROVE  RpcInv'
    BY <2>7, <2>5 DEF Rpc!Refused
  <2>8. ASSUME NEW c \in Call, Rpc!TimedOut(c)  PROVE  RpcInv'
    BY <2>8, <2>5 DEF Rpc!TimedOut
  <2>9. CASE UNCHANGED Rpc!vars
    BY <2>9 DEF Rpc!vars, RpcInv, CallTypes, Knows
  <2> QED BY <2>1, <2>2, <2>3, <2>4, <2>6, <2>7, <2>8, <2>9 DEF Rpc!Next
<1>3. RpcInv => Rpc!ShortageIsRace
  BY DEF RpcInv, Knows, Rpc!ShortageIsRace
<1> QED BY <1>1, <1>2, <1>3, PTL DEF Rpc!Spec

-----------------------------------------------------------------------------
(* The copy of the domains.                                                *)

CONSTANTS Queries, Kind, MaxId, MaxLogged, MaxFailed
VARIABLES past, queue, mode, domains, loader, pc, on, event, snap, failed, standing

Cache == INSTANCE DomainCache WITH MaxTx <- MaxLogged, at <- standing

Step == {"unborn", "idle", "call", "wait", "begin", "load", "loaded", "err", "done", "stopped"}

\* What LoaderAlive says of states it cannot be said of without.
WaitTypes == pc \in [Cache!Task -> Step] /\ on \in [Cache!Task -> Cache!Task] /\ loader \in Cache!Task

CacheInv == WaitTypes /\ Cache!LoaderAlive

\* Steps of one task that neither begin nor end a load, nor make it wait, change its pc only.
\* (lib.rs: with_domains, handle_err)
LEMMA LoadStep ==
  ASSUME CacheInv, NEW t \in Cache!Task, NEW s \in Step \ {"wait"}, pc[t] \notin {"load", "loaded"},
         pc' = [pc EXCEPT ![t] = s], UNCHANGED on, loader' = loader, mode' \in {mode, "Errored", "Domains"}
  PROVE  CacheInv'
BY DEF CacheInv, WaitTypes, Cache!LoaderAlive, Step

\* Dropping a sender wakes exactly those who wait for it.  (lib.rs: update_all_domains)
LEMMA Woken ==
  ASSUME CacheInv, NEW t \in Cache!Task, NEW s \in Step \ {"wait"}, Cache!Wake(t, s), loader' = loader, mode' # "Updating"
  PROVE  CacheInv'
<1> DEFINE waiting == { u \in Cache!Task : pc[u] = "wait" /\ on[u] = t }
<1>1. /\ pc' = [u \in Cache!Task |-> IF u = t THEN s ELSE IF u \in waiting THEN "call" ELSE pc[u]]
      /\ on' = [u \in Cache!Task |-> IF u \in waiting THEN Cache!Main ELSE on[u]]
  BY DEF Cache!Wake
<1>2. WaitTypes'
  BY <1>1 DEF CacheInv, WaitTypes, Step, Cache!Task
<1>3. ASSUME NEW u \in Cache!Task, pc'[u] = "wait"  PROVE  pc'[on'[u]] \in {"load", "loaded"}
  <2>1. u # t /\ u \notin waiting /\ pc[u] = "wait" /\ on'[u] = on[u]
    BY <1>1, <1>3 DEF CacheInv, WaitTypes, Step
  <2>2. on[u] # t /\ on[u] \in Cache!Task /\ pc[on[u]] \in {"load", "loaded"}
    BY <2>1 DEF CacheInv, WaitTypes, Cache!LoaderAlive
  <2>3. pc'[on[u]] = pc[on[u]]
    BY <1>1, <2>2
  <2> QED BY <2>1, <2>2, <2>3
<1> QED BY <1>2, <1>3 DEF CacheInv, Cache!LoaderAlive

\* Whoever waits for the copy waits for a task that is loading it, whatever fails and whoever
\* loads at the same time.  (lib.rs: with_domains, update_all_domains)
THEOREM NobodyForgotten == Cache!Spec => []Cache!LoaderAlive
<1>1. Cache!Init => CacheInv
  BY DEF Cache!Init, CacheInv, WaitTypes, Cache!LoaderAlive, Step, Cache!Task
<1>2. CacheInv /\ [Cache!Next]_(Cache!vars) => CacheInv'
  <2> SUFFICES ASSUME CacheInv, [Cache!Next]_(Cache!vars)  PROVE  CacheInv'
    OBVIOUS
  <2>1. CASE Cache!Transact
    BY <2>1 DEF Cache!Transact, CacheInv, WaitTypes, Cache!LoaderAlive
  <2>2. ASSUME NEW q \in Queries, Cache!Query(q)  PROVE  CacheInv'
    BY <2>2, LoadStep DEF Cache!Query, Cache!Task, Step
  <2>3. ASSUME NEW t \in Cache!Task, Cache!Wait(t)  PROVE  CacheInv'
    BY <2>3 DEF Cache!Wait, CacheInv, WaitTypes, Cache!LoaderAlive, Step
  <2>4. ASSUME NEW t \in Cache!Task, Cache!Decide(t)  PROVE  CacheInv'
    BY <2>4, LoadStep DEF Cache!Decide, Step
  <2>5. ASSUME NEW q \in Queries, Cache!Answer(q)  PROVE  CacheInv'
    BY <2>5, LoadStep DEF Cache!Answer, Cache!Task, Step
  <2>6. ASSUME NEW k \in Kind, Cache!TakeEvent(k)  PROVE  CacheInv'
    BY <2>6, LoadStep DEF Cache!TakeEvent, Cache!Task, Step
  <2>7. ASSUME NEW k \in Kind, Cache!Apply(k)  PROVE  CacheInv'
    <3> DEFINE s == IF Cache!Bails(domains, event[k].t) THEN "err" ELSE "idle"
    <3>1. s \in Step \ {"wait"}
      BY DEF Step
    <3> HIDE DEF s
    <3>2. pc' = [pc EXCEPT ![k] = s] /\ pc[k] = "call" /\ UNCHANGED on /\ loader' = loader /\ mode' = mode
      BY <2>7 DEF Cache!Apply, s
    <3> QED BY <3>1, <3>2, LoadStep DEF Cache!Task
  <2>8. ASSUME NEW k \in Kind, Cache!HandleErr(k)  PROVE  CacheInv'
    BY <2>8, LoadStep DEF Cache!HandleErr, Cache!Task, Step
  <2>9. ASSUME NEW t \in Cache!Task, Cache!BeginLoad(t)  PROVE  CacheInv'
    BY <2>9 DEF Cache!BeginLoad, CacheInv, WaitTypes, Cache!LoaderAlive, Step
  <2>10. ASSUME NEW t \in Cache!Task, Cache!Read(t)  PROVE  CacheInv'
    BY <2>10 DEF Cache!Read, CacheInv, WaitTypes, Cache!LoaderAlive, Step
  <2>11. ASSUME NEW t \in Cache!Task, Cache!FinishLoad(t)  PROVE  CacheInv'
    <3>1. CASE t = Cache!Main
      <4>1. pc' = [u \in Cache!Task |-> IF u = Cache!Main THEN "done" ELSE "idle"] /\ on' = on /\ loader' = loader
            /\ mode' = "Domains"
        BY <2>11, <3>1 DEF Cache!FinishLoad
      <4> QED BY <4>1 DEF CacheInv, WaitTypes, Cache!LoaderAlive, Step
    <3>2. CASE t # Cache!Main
      BY <2>11, <3>2, Woken DEF Cache!FinishLoad, Step
    <3> QED BY <3>1, <3>2
  <2>12. ASSUME NEW t \in Cache!Task, Cache!FailLoad(t)  PROVE  CacheInv'
    BY <2>12, Woken DEF Cache!FailLoad, Step
  <2>13. CASE UNCHANGED Cache!vars
    BY <2>13 DEF Cache!vars, CacheInv, WaitTypes, Cache!LoaderAlive
  <2> QED
    BY <2>1, <2>2, <2>3, <2>4, <2>5, <2>6, <2>7, <2>8, <2>9, <2>10, <2>11, <2>12, <2>13
    DEF Cache!Next, Cache!TaskNext
<1> QED
  BY <1>1, <1>2, PTL DEF Cache!Spec, CacheInv

-----------------------------------------------------------------------------
(* The copy of the domains.                                                *)

Domain == [owner : Nat, recs : Nat, subs : Nat, black : BOOLEAN]
Chain == UNION { [S -> Domain] : S \in SUBSET Nat }

\* The subdomains of a domain.
Children(c, i) == { j \in DOMAIN c : c[j].subs = Cache!SubMark /\ c[j].owner = i }

\* A subdomain's parent is there and no subdomain itself, and a domain's count is that of its
\* subdomains.
Counts(c) ==
  \A i \in DOMAIN c :
    IF c[i].subs = Cache!SubMark THEN c[i].owner \in DOMAIN c /\ c[c[i].owner].subs # Cache!SubMark
    ELSE c[i].subs < Cache!SubMark /\ c[i].subs = Cardinality(Children(c, i))
Typed(c) == DOMAIN c \subseteq Nat /\ \A i \in DOMAIN c : c[i] \in Domain
Sound(c) == Typed(c) /\ IsFiniteSet(DOMAIN c) /\ Counts(c)

Transaction ==
  [kind : {"Register"}, id : Nat, owner : Nat, recs : Nat]
    \cup [kind : {"CreateSubdomain"}, id : Nat, parent : Nat, recs : Nat]
    \cup [kind : {"UpdateRecords"}, id : Nat, recs : Nat]
    \cup [kind : {"Takeover"}, id : Nat, owner : Nat, recs : Nat]
    \cup [kind : {"Destroy"}, id : Nat]
    \cup [kind : {"Blacklist"}, id : Nat, black : BOOLEAN]

\* A transaction that the contract c can carry out.
Fits(c, t) ==
  CASE t.kind = "Register" -> t.id \notin DOMAIN c
    [] t.kind = "CreateSubdomain" ->
         t.id \notin DOMAIN c /\ t.parent \in Cache!Tops(c) /\ c[t.parent].subs + 1 # Cache!SubMark
    [] t.kind = "Takeover" -> t.id \in Cache!Tops(c) /\ t.owner # c[t.id].owner
    [] t.kind = "Destroy" -> t.id \in DOMAIN c /\ c[t.id].subs \in {0, Cache!SubMark}
    [] OTHER -> t.id \in DOMAIN c

LEMMA ChildrenFinite ==
  ASSUME NEW c, Sound(c), NEW i
  PROVE  /\ IsFiniteSet(Children(c, i)) /\ Cardinality(Children(c, i)) \in Nat
         /\ Cardinality(Children(c, i)) = 0 <=> Children(c, i) = {}
<1>1. Children(c, i) \subseteq DOMAIN c
  BY DEF Children
<1>2. IsFiniteSet(Children(c, i))
  BY <1>1, FS_Subset DEF Sound
<1> QED BY <1>2, FS_CardinalityType, FS_EmptySet

\* What changes neither counts nor whose subdomain one is leaves the contract sound.
LEMMA Alike ==
  ASSUME NEW c, Sound(c), NEW e, DOMAIN e = DOMAIN c, Typed(e),
         \A i \in DOMAIN c : /\ e[i].subs = c[i].subs
                             /\ c[i].subs = Cache!SubMark => e[i].owner = c[i].owner
  PROVE  Sound(e)
<1>1. ASSUME NEW i \in DOMAIN c  PROVE  Children(e, i) = Children(c, i)
  BY DEF Children
<1> QED BY <1>1 DEF Sound, Counts

LEMMA RegisterSound ==
  ASSUME NEW c, Sound(c), NEW id \in Nat \ DOMAIN c, NEW owner \in Nat, NEW recs \in Nat
  PROVE  Sound(Cache!With(c, id, Cache!Dom(owner, recs, 0, FALSE)))
<1> DEFINE e == Cache!With(c, id, Cache!Dom(owner, recs, 0, FALSE))
<1>1. /\ DOMAIN e = DOMAIN c \cup {id} /\ id \notin DOMAIN c
      /\ \A i \in DOMAIN c : e[i] = c[i]
      /\ e[id] = Cache!Dom(owner, recs, 0, FALSE)
  BY DEF Cache!With
<1> HIDE DEF e
<1>2. e[id] \in Domain /\ e[id].subs = 0 /\ e[id].subs # Cache!SubMark /\ 0 < Cache!SubMark
  BY <1>1 DEF Domain, Cache!Dom, Cache!SubMark
<1>3. Typed(e)
  BY <1>1, <1>2 DEF Sound, Typed
<1>4. IsFiniteSet(DOMAIN e)
  BY <1>1, FS_AddElement DEF Sound
<1>5. ASSUME NEW i \in DOMAIN e  PROVE  Children(e, i) = Children(c, i)
  BY <1>1, <1>2 DEF Children
<1>6. Children(c, id) = {}
  BY <1>1 DEF Children, Sound, Counts
<1>7. Cardinality(Children(e, id)) = 0
  BY <1>1, <1>5, <1>6, FS_EmptySet
<1>8. Counts(e)
  BY <1>1, <1>2, <1>5, <1>7 DEF Counts, Sound
<1> QED BY <1>3, <1>4, <1>8 DEF e, Sound

LEMMA SubdomainSound ==
  ASSUME NEW c, Sound(c), NEW id \in Nat \ DOMAIN c, NEW parent \in Cache!Tops(c), NEW recs \in Nat,
         NEW black \in BOOLEAN, c[parent].subs + 1 # Cache!SubMark
  PROVE  Sound(Cache!With(Cache!CountBy(c, parent, 2), id, Cache!Dom(parent, recs, Cache!SubMark, black)))
<1> DEFINE b == Cache!CountBy(c, parent, 2)
           e == Cache!With(b, id, Cache!Dom(parent, recs, Cache!SubMark, black))
<1>0. /\ parent \in DOMAIN c /\ c[parent].subs # Cache!SubMark /\ c[parent].subs < Cache!SubMark
      /\ c[parent] \in Domain /\ c[parent].subs \in Nat /\ parent \in Nat
  BY DEF Cache!Tops, Sound, Typed, Domain, Counts
<1>1. /\ DOMAIN b = DOMAIN c /\ \A i \in DOMAIN c \ {parent} : b[i] = c[i]
      /\ b[parent] = [c[parent] EXCEPT !.subs = @ + 2 - 1]
  BY <1>0 DEF Cache!CountBy
<1>2. b[parent] \in Domain /\ b[parent].subs = c[parent].subs + 1 /\ b[parent].owner = c[parent].owner
  BY <1>0, <1>1 DEF Domain
<1>3. /\ DOMAIN e = DOMAIN c \cup {id} /\ id # parent
      /\ \A i \in DOMAIN c : e[i] = b[i]
      /\ e[id] = Cache!Dom(parent, recs, Cache!SubMark, black)
  BY <1>0, <1>1 DEF Cache!With
<1> HIDE DEF b, e
<1>4. e[id] \in Domain /\ e[id].subs = Cache!SubMark /\ e[id].owner = parent
  BY <1>0, <1>3 DEF Domain, Cache!Dom, Cache!SubMark
<1>5. Typed(e)
  BY <1>1, <1>2, <1>3, <1>4 DEF Sound, Typed
<1>6. IsFiniteSet(DOMAIN e)
  BY <1>3, FS_AddElement DEF Sound
<1>7. e[parent].subs = c[parent].subs + 1 /\ e[parent].subs < Cache!SubMark /\ e[parent].subs # Cache!SubMark
  BY <1>0, <1>2, <1>3 DEF Cache!SubMark
<1>8. ASSUME NEW i \in DOMAIN c \ {parent}  PROVE  Children(e, i) = Children(c, i) /\ e[i] = c[i]
  BY <1>0, <1>1, <1>3, <1>4, <1>7 DEF Children
<1>9. Children(e, parent) = Children(c, parent) \cup {id} /\ id \notin Children(c, parent)
  BY <1>0, <1>1, <1>3, <1>4, <1>7 DEF Children
<1>10. Cardinality(Children(e, parent)) = Cardinality(Children(c, parent)) + 1
  BY <1>9, ChildrenFinite, FS_AddElement
<1>11. Cardinality(Children(e, parent)) = e[parent].subs
  BY <1>0, <1>7, <1>10 DEF Sound, Counts
<1>12. Counts(e)
  <2> SUFFICES ASSUME NEW i \in DOMAIN e
               PROVE  IF e[i].subs = Cache!SubMark
                      THEN e[i].owner \in DOMAIN e /\ e[e[i].owner].subs # Cache!SubMark
                      ELSE e[i].subs < Cache!SubMark /\ e[i].subs = Cardinality(Children(e, i))
    BY DEF Counts
  <2>1. CASE i = id
    BY <1>0, <1>3, <1>4, <1>7, <2>1
  <2>2. CASE i = parent
    BY <1>7, <1>11, <2>2
  <2>3. CASE i \in DOMAIN c \ {parent}
    <3>1. e[i] = c[i] /\ Children(e, i) = Children(c, i)
      BY <1>8, <2>3
    <3>2. c[i].subs # Cache!SubMark => c[i].subs < Cache!SubMark /\ c[i].subs = Cardinality(Children(c, i))
      BY <2>3 DEF Sound, Counts
    <3>3. c[i].subs = Cache!SubMark => c[i].owner \in DOMAIN c /\ c[c[i].owner].subs # Cache!SubMark
      BY <2>3 DEF Sound, Counts
    <3>4. \A j \in DOMAIN c : c[j].subs # Cache!SubMark => e[j].subs # Cache!SubMark
      BY <1>7, <1>8
    <3> QED BY <1>3, <3>1, <3>2, <3>3, <3>4
  <2> QED BY <1>3, <2>1, <2>2, <2>3
<1> QED BY <1>5, <1>6, <1>12 DEF b, e, Sound

LEMMA DestroySound ==
  ASSUME NEW c, Sound(c), NEW id \in DOMAIN c, c[id].subs \in {0, Cache!SubMark}
  PROVE  Sound(Cache!Without(IF c[id].subs = Cache!SubMark THEN Cache!CountBy(c, c[id].owner, 0) ELSE c, id))
<1>1. CASE c[id].subs # Cache!SubMark
  <2> DEFINE e == Cache!Without(c, id)
  <2>1. DOMAIN e = DOMAIN c \ {id} /\ \A i \in DOMAIN e : e[i] = c[i]
    BY DEF Cache!Without
  <2> HIDE DEF e
  <2>2. Children(c, id) = {}
    BY <1>1, ChildrenFinite DEF Sound, Counts
  <2>3. ASSUME NEW i \in DOMAIN e  PROVE  Children(e, i) = Children(c, i)
    BY <1>1, <2>1 DEF Children
  <2>4. Typed(e) /\ IsFiniteSet(DOMAIN e)
    BY <2>1, FS_RemoveElement DEF Sound, Typed
  <2>5. \A j \in DOMAIN c : c[j].subs = Cache!SubMark => c[j].owner # id
    BY <2>2 DEF Children
  <2>6. Counts(e)
    BY <2>1, <2>3, <2>5 DEF Sound, Counts
  <2> QED BY <1>1, <2>4, <2>6 DEF e, Sound
<1>2. CASE c[id].subs = Cache!SubMark
  <2> DEFINE p == c[id].owner
             b == Cache!CountBy(c, p, 0)
             e == Cache!Without(b, id)
  <2>1. p \in DOMAIN c /\ c[p].subs # Cache!SubMark /\ c[p] \in Domain /\ c[p].subs \in Nat /\ p # id
        /\ c[p].subs < Cache!SubMark /\ c[p].subs = Cardinality(Children(c, p))
    BY <1>2 DEF Sound, Typed, Counts, Domain
  <2>2. id \in Children(c, p)
    BY <1>2 DEF Children
  <2>3. c[p].subs \in Nat \ {0}
    BY <2>1, <2>2, ChildrenFinite
  <2>4. /\ DOMAIN b = DOMAIN c /\ \A i \in DOMAIN c \ {p} : b[i] = c[i]
        /\ b[p] = [c[p] EXCEPT !.subs = @ + 0 - 1]
    BY <2>1 DEF Cache!CountBy
  <2>5. b[p] \in Domain /\ b[p].subs = c[p].subs - 1 /\ b[p].owner = c[p].owner
    BY <2>1, <2>3, <2>4 DEF Domain
  <2>6. DOMAIN e = DOMAIN c \ {id} /\ \A i \in DOMAIN e : e[i] = b[i]
    BY <2>4 DEF Cache!Without
  <2> HIDE DEF p, b, e
  <2>7. e[p].subs = c[p].subs - 1 /\ e[p].subs < Cache!SubMark /\ e[p].subs # Cache!SubMark
    BY <2>1, <2>3, <2>5, <2>6 DEF Cache!SubMark
  <2>8. ASSUME NEW i \in DOMAIN e \ {p}  PROVE  Children(e, i) = Children(c, i) /\ e[i] = c[i]
    <3>1. e[i] = c[i]
      BY <2>4, <2>6
    <3>2. \A j \in DOMAIN e :
            (e[j].subs = Cache!SubMark /\ e[j].owner = i) <=> (c[j].subs = Cache!SubMark /\ c[j].owner = i)
      BY <2>1, <2>4, <2>6, <2>7
    <3>3. c[id].owner # i
      BY DEF p
    <3> QED BY <2>6, <3>1, <3>2, <3>3 DEF Children
  <2>9. Children(e, p) = Children(c, p) \ {id}
    BY <2>1, <2>4, <2>6, <2>7 DEF Children
  <2>10. Cardinality(Children(e, p)) = e[p].subs
    <3>1. IsFiniteSet(Children(c, p)) /\ Cardinality(Children(c, p)) = c[p].subs
      BY <2>1, ChildrenFinite
    <3>2. Cardinality(Children(c, p) \ {id}) = Cardinality(Children(c, p)) - 1
      BY <2>2, <3>1, FS_RemoveElement
    <3> QED BY <2>7, <2>9, <3>1, <3>2
  <2>11. Typed(e) /\ IsFiniteSet(DOMAIN e)
    <3>1. \A i \in DOMAIN e : e[i] \in Domain
      BY <2>4, <2>5, <2>6 DEF Sound, Typed
    <3> QED BY <2>6, <3>1, FS_RemoveElement DEF Sound, Typed
  <2>12. Counts(e)
    <3> SUFFICES ASSUME NEW i \in DOMAIN e
                 PROVE  IF e[i].subs = Cache!SubMark
                        THEN e[i].owner \in DOMAIN e /\ e[e[i].owner].subs # Cache!SubMark
                        ELSE e[i].subs < Cache!SubMark /\ e[i].subs = Cardinality(Children(e, i))
      BY DEF Counts
    <3>1. CASE i = p
      BY <2>7, <2>10, <3>1
    <3>2. CASE i # p
      <4>1. e[i] = c[i] /\ Children(e, i) = Children(c, i) /\ i \in DOMAIN c
        BY <2>6, <2>8, <3>2
      <4>2. c[i].subs # Cache!SubMark => c[i].subs < Cache!SubMark /\ c[i].subs = Cardinality(Children(c, i))
        BY <4>1 DEF Sound, Counts
      <4>3. c[i].subs = Cache!SubMark => c[i].owner \in DOMAIN c /\ c[c[i].owner].subs # Cache!SubMark
        BY <4>1 DEF Sound, Counts
      <4>4. \A j \in DOMAIN c : c[j].subs # Cache!SubMark => j \in DOMAIN e /\ e[j].subs # Cache!SubMark
        BY <1>2, <2>6, <2>7, <2>8
      <4> QED BY <4>1, <4>2, <4>3, <4>4
    <3> QED BY <3>1, <3>2
  <2> QED BY <1>2, <2>11, <2>12 DEF p, b, e, Sound
<1> QED BY <1>1, <1>2

\* What the contract carries out leaves it sound.
LEMMA AfterSound ==
  ASSUME NEW c, Sound(c), NEW t \in Transaction, Fits(c, t)
  PROVE  Sound(Cache!After(c, t)) /\ DOMAIN Cache!After(c, t) \subseteq DOMAIN c \cup {t.id}
<1>1. CASE t.kind = "Register"
  <2>1. t.id \in Nat \ DOMAIN c /\ t.owner \in Nat /\ t.recs \in Nat
    BY <1>1 DEF Transaction, Fits
  <2>2. Cache!After(c, t) = Cache!With(c, t.id, Cache!Dom(t.owner, t.recs, 0, FALSE))
    BY <1>1 DEF Cache!After
  <2>3. Sound(Cache!After(c, t))
    BY <2>1, <2>2, RegisterSound
  <2> QED BY <2>2, <2>3 DEF Cache!With
<1>2. CASE t.kind = "CreateSubdomain"
  <2>1. /\ t.id \in Nat \ DOMAIN c /\ t.parent \in Cache!Tops(c) /\ t.recs \in Nat
        /\ c[t.parent].subs + 1 # Cache!SubMark
    BY <1>2 DEF Transaction, Fits
  <2>2. c[t.parent].black \in BOOLEAN
    BY <2>1 DEF Cache!Tops, Sound, Typed, Domain
  <2>3. Cache!After(c, t) =
          Cache!With(Cache!CountBy(c, t.parent, 2), t.id, Cache!Dom(t.parent, t.recs, Cache!SubMark, c[t.parent].black))
    BY <1>2 DEF Cache!After
  <2>4. DOMAIN Cache!CountBy(c, t.parent, 2) = DOMAIN c
    BY DEF Cache!CountBy
  <2>5. Sound(Cache!After(c, t))
    BY <2>1, <2>2, <2>3, SubdomainSound
  <2> QED BY <2>3, <2>4, <2>5 DEF Cache!With
<1>3. CASE t.kind = "UpdateRecords"
  <2> DEFINE e == [c EXCEPT ![t.id].recs = t.recs]
  <2>1. Cache!After(c, t) = e /\ t.id \in DOMAIN c /\ t.recs \in Nat
    BY <1>3 DEF Cache!After, Fits, Transaction
  <2>2. DOMAIN e = DOMAIN c
        /\ \A i \in DOMAIN c : e[i] = IF i = t.id THEN [c[i] EXCEPT !.recs = t.recs] ELSE c[i]
    OBVIOUS
  <2> HIDE DEF e
  <2>3. \A i \in DOMAIN c : c[i] \in Domain
    BY DEF Sound, Typed
  <2>4. \A i \in DOMAIN c : e[i] \in Domain /\ e[i].subs = c[i].subs /\ e[i].owner = c[i].owner
    BY <2>1, <2>2, <2>3 DEF Domain
  <2>5. Typed(e)
    BY <2>2, <2>4 DEF Sound, Typed
  <2> QED BY <2>1, <2>2, <2>4, <2>5, Alike
<1>4. CASE t.kind = "Takeover"
  <2> DEFINE e == [c EXCEPT ![t.id] = [@ EXCEPT !.recs = t.recs, !.owner = t.owner]]
  <2>1. /\ Cache!After(c, t) = e /\ t.id \in DOMAIN c /\ t.recs \in Nat /\ t.owner \in Nat
        /\ c[t.id].subs # Cache!SubMark
    BY <1>4 DEF Cache!After, Fits, Transaction, Cache!Tops
  <2>2. DOMAIN e = DOMAIN c
        /\ \A i \in DOMAIN c : e[i] = IF i = t.id THEN [c[i] EXCEPT !.recs = t.recs, !.owner = t.owner] ELSE c[i]
    OBVIOUS
  <2> HIDE DEF e
  <2>3. \A i \in DOMAIN c : c[i] \in Domain
    BY DEF Sound, Typed
  <2> DEFINE r == [c[t.id] EXCEPT !.recs = t.recs, !.owner = t.owner]
  <2>4. c[t.id] \in Domain
    BY <2>1, <2>3
  <2>5. r \in Domain
    BY <2>1, <2>4 DEF Domain
  <2>6. r.subs = c[t.id].subs
    BY <2>4 DEF Domain
  <2>7. e[t.id] = r /\ \A i \in DOMAIN c : i # t.id => e[i] = c[i]
    BY <2>1, <2>2
  <2> HIDE DEF r
  <2>8. \A i \in DOMAIN c : e[i] \in Domain /\ e[i].subs = c[i].subs /\ (i # t.id => e[i].owner = c[i].owner)
    BY <2>3, <2>5, <2>6, <2>7
  <2>9. Typed(e)
    BY <2>2, <2>8 DEF Sound, Typed
  <2>10. \A i \in DOMAIN c : e[i].subs = c[i].subs /\ (c[i].subs = Cache!SubMark => e[i].owner = c[i].owner)
    BY <2>1, <2>8
  <2>11. DOMAIN e = DOMAIN c
    BY <2>2
  <2>12. Sound(e)
    BY <2>9, <2>10, <2>11, Alike
  <2> QED BY <2>1, <2>11, <2>12
<1>5. CASE t.kind = "Destroy"
  <2>1. t.id \in DOMAIN c /\ c[t.id].subs \in {0, Cache!SubMark}
    BY <1>5 DEF Fits
  <2>2. Cache!After(c, t) =
          Cache!Without(IF c[t.id].subs = Cache!SubMark THEN Cache!CountBy(c, c[t.id].owner, 0) ELSE c, t.id)
    BY <1>5 DEF Cache!After
  <2>3. DOMAIN Cache!CountBy(c, c[t.id].owner, 0) = DOMAIN c
    BY DEF Cache!CountBy
  <2>4. Sound(Cache!After(c, t))
    BY <2>1, <2>2, DestroySound
  <2> QED BY <2>2, <2>3, <2>4 DEF Cache!Without
<1>6. CASE t.kind = "Blacklist"
  <2> DEFINE e == [c EXCEPT ![t.id].black = t.black]
  <2>1. Cache!After(c, t) = e /\ t.id \in DOMAIN c /\ t.black \in BOOLEAN
    BY <1>6 DEF Cache!After, Fits, Transaction
  <2>2. DOMAIN e = DOMAIN c
        /\ \A i \in DOMAIN c : e[i] = IF i = t.id THEN [c[i] EXCEPT !.black = t.black] ELSE c[i]
    OBVIOUS
  <2> HIDE DEF e
  <2>3. \A i \in DOMAIN c : c[i] \in Domain
    BY DEF Sound, Typed
  <2>4. \A i \in DOMAIN c : e[i] \in Domain /\ e[i].subs = c[i].subs /\ e[i].owner = c[i].owner
    BY <2>1, <2>2, <2>3 DEF Domain
  <2>5. Typed(e)
    BY <2>2, <2>4 DEF Sound, Typed
  <2> QED BY <2>1, <2>2, <2>4, <2>5, Alike
<1> QED BY <1>1, <1>2, <1>3, <1>4, <1>5, <1>6 DEF Transaction

\* A copy that is what the contract is.
Copies(doms, c) == DOMAIN doms = DOMAIN c /\ \A i \in DOMAIN c : doms[i].d = c[i]
Copied == [d : Domain, records : Nat]

\* An event's handler makes of a copy what the transaction makes of the contract.
\* (lib.rs: filter_register_domain .. filter_blacklist)
LEMMA AppliedCopies ==
  ASSUME NEW c, Sound(c), NEW t \in Transaction, Fits(c, t),
         NEW doms, Copies(doms, c), \A i \in DOMAIN doms : doms[i] \in Copied
  PROVE  Copies(Cache!Applied(doms, t), Cache!After(c, t))
<1>0. DOMAIN doms = DOMAIN c /\ \A i \in DOMAIN c : doms[i].d = c[i] /\ doms[i] \in Copied /\ c[i] \in Domain
  BY DEF Copies, Sound, Typed
<1>1. CASE t.kind = "Register"
  <2>1. Cache!After(c, t) = Cache!With(c, t.id, Cache!Dom(t.owner, t.recs, 0, FALSE))
    BY <1>1 DEF Cache!After
  <2>2. Cache!Applied(doms, t) = Cache!With(doms, t.id, Cache!NewDomain(Cache!Dom(t.owner, t.recs, 0, FALSE)))
    BY <1>1 DEF Cache!Applied
  <2> DEFINE n == Cache!Dom(t.owner, t.recs, 0, FALSE)
             e == Cache!With(c, t.id, n)
             a == Cache!With(doms, t.id, Cache!NewDomain(n))
  <2>3. /\ DOMAIN e = DOMAIN c \cup {t.id}
        /\ \A i \in DOMAIN e : e[i] = IF i = t.id THEN n ELSE c[i]
    BY DEF Cache!With
  <2>4. /\ DOMAIN a = DOMAIN doms \cup {t.id}
        /\ \A i \in DOMAIN a : a[i] = IF i = t.id THEN Cache!NewDomain(n) ELSE doms[i]
    BY DEF Cache!With
  <2>5. Cache!NewDomain(n).d = n
    BY DEF Cache!NewDomain
  <2> HIDE DEF n, e, a
  <2>6. Copies(a, e)
    BY <1>0, <2>3, <2>4, <2>5 DEF Copies
  <2> QED BY <2>1, <2>2, <2>6 DEF n, e, a
<1>2. CASE t.kind = "CreateSubdomain"
  <2> DEFINE p == t.parent
             b == Cache!CountBy(c, p, 2)
             a == Cache!Counted(doms, p, 2)
  <2>1. p \in DOMAIN c /\ c[p].subs # Cache!SubMark /\ c[p].subs + 1 # Cache!SubMark /\ t.id \notin DOMAIN c
    BY <1>2 DEF Fits, Cache!Tops
  <2>2. c[p].subs \in Nat /\ c[p].subs < Cache!SubMark - 1
    BY <2>1, <1>0 DEF Sound, Counts, Domain, Cache!SubMark
  <2>3. DOMAIN b = DOMAIN c
        /\ \A i \in DOMAIN c : b[i] = IF i = p THEN [c[p] EXCEPT !.subs = @ + 2 - 1] ELSE c[i]
    BY <2>1 DEF Cache!CountBy
  <2>4. /\ DOMAIN a = DOMAIN c
        /\ \A i \in DOMAIN c : a[i] = IF i = p THEN [doms[p] EXCEPT !.d.subs = (@ + 2 - 1) % 256] ELSE doms[i]
    BY <1>0, <2>1 DEF Cache!Counted
  <2>5. (c[p].subs + 2 - 1) % 256 = c[p].subs + 2 - 1
    BY <2>2 DEF Cache!SubMark
  <2>6. a[p].d = [c[p] EXCEPT !.subs = @ + 2 - 1]
    BY <1>0, <2>1, <2>4, <2>5 DEF Copied, Domain
  <2>7. \A i \in DOMAIN c : a[i].d = b[i]
    BY <1>0, <2>3, <2>4, <2>6
  <2>8. Cache!After(c, t) = Cache!With(b, t.id, Cache!Dom(p, t.recs, Cache!SubMark, c[p].black))
    BY <1>2 DEF Cache!After
  <2>9. Cache!Applied(doms, t) = Cache!With(a, t.id, Cache!Subdomain(doms, t))
    BY <1>0, <1>2, <2>1 DEF Cache!Applied, Cache!Bails
  <2>10. Cache!Subdomain(doms, t).d = Cache!Dom(p, t.recs, Cache!SubMark, c[p].black)
    BY <1>0, <2>1 DEF Cache!Subdomain, Cache!NewDomain
  <2> HIDE DEF a, b, p
  <2> QED BY <2>3, <2>4, <2>7, <2>8, <2>9, <2>10 DEF Cache!With, Copies
<1>3. CASE t.kind = "UpdateRecords"
  <2>1. t.id \in DOMAIN c
    BY <1>3 DEF Fits
  <2>2. Cache!After(c, t) = [c EXCEPT ![t.id].recs = t.recs]
    BY <1>3 DEF Cache!After
  <2>3. Cache!Applied(doms, t) = [doms EXCEPT ![t.id] = Cache!WithRecords(@, t)]
    BY <1>0, <1>3, <2>1 DEF Cache!Applied, Cache!Bails
  <2> QED BY <1>0, <2>1, <2>2, <2>3 DEF Copies, Cache!WithRecords
<1>4. CASE t.kind = "Takeover"
  <2>1. t.id \in DOMAIN c
    BY <1>4 DEF Fits, Cache!Tops
  <2>2. Cache!After(c, t) = [c EXCEPT ![t.id] = [@ EXCEPT !.recs = t.recs, !.owner = t.owner]]
    BY <1>4 DEF Cache!After
  <2>3. Cache!Applied(doms, t) = [doms EXCEPT ![t.id] = Cache!TakenOver(@, t)]
    BY <1>0, <1>4, <2>1 DEF Cache!Applied, Cache!Bails
  <2>4. Cache!TakenOver(doms[t.id], t).d = [c[t.id] EXCEPT !.recs = t.recs, !.owner = t.owner]
    BY <1>0, <2>1 DEF Cache!TakenOver, Copied, Domain
  <2> QED BY <1>0, <2>1, <2>2, <2>3, <2>4 DEF Copies
<1>5. CASE t.kind = "Destroy"
  <2> DEFINE rest == Cache!Without(doms, t.id)
             p == c[t.id].owner
             b == Cache!CountBy(c, p, 0)
  <2>1. t.id \in DOMAIN c /\ Cache!Applied(doms, t) = Cache!Removed(doms, t)
    BY <1>0, <1>5 DEF Fits, Cache!Applied
  <2>2. DOMAIN rest = DOMAIN c \ {t.id} /\ \A i \in DOMAIN rest : rest[i] = doms[i]
    BY <1>0 DEF Cache!Without
  <2>3. Cache!After(c, t) = Cache!Without(IF c[t.id].subs = Cache!SubMark THEN b ELSE c, t.id)
    BY <1>5 DEF Cache!After
  <2>4. CASE c[t.id].subs # Cache!SubMark
    <3>1. Cache!Applied(doms, t) = rest
      BY <1>0, <2>1, <2>4 DEF Cache!Removed
    <3>2. Cache!After(c, t) = Cache!Without(c, t.id)
      BY <2>3, <2>4
    <3> QED BY <1>0, <2>2, <3>1, <3>2 DEF Copies, Cache!Without
  <2>5. CASE c[t.id].subs = Cache!SubMark
    <3>1. p \in DOMAIN c /\ p # t.id /\ c[p].subs # Cache!SubMark /\ c[p].subs < Cache!SubMark
          /\ c[p].subs = Cardinality(Children(c, p)) /\ c[p].subs \in Nat
      BY <1>0, <2>1, <2>5 DEF Sound, Counts, Domain
    <3>2. t.id \in Children(c, p)
      BY <2>1, <2>5 DEF Children
    <3>3. c[p].subs \in Nat \ {0}
      BY <3>1, <3>2, ChildrenFinite
    <3>4. (c[p].subs + 0 - 1) % 256 = c[p].subs + 0 - 1
      BY <3>1, <3>3 DEF Cache!SubMark
    <3>5. Cache!Applied(doms, t) = Cache!Counted(rest, p, 0)
      BY <1>0, <2>1, <2>2, <2>5, <3>1 DEF Cache!Removed
    <3>6. /\ DOMAIN b = DOMAIN c
          /\ \A i \in DOMAIN c : b[i] = IF i = p THEN [c[p] EXCEPT !.subs = @ + 0 - 1] ELSE c[i]
      BY <3>1 DEF Cache!CountBy
    <3>7. /\ DOMAIN Cache!Counted(rest, p, 0) = DOMAIN rest
          /\ \A i \in DOMAIN rest :
               Cache!Counted(rest, p, 0)[i] =
                 IF i = p THEN [rest[p] EXCEPT !.d.subs = (@ + 0 - 1) % 256] ELSE rest[i]
      BY DEF Cache!Counted
    <3>8. p \in DOMAIN rest /\ rest[p] = doms[p] /\ doms[p].d = c[p] /\ doms[p] \in Copied /\ c[p] \in Domain
      BY <1>0, <2>2, <3>1
    <3>9. [rest[p] EXCEPT !.d.subs = (@ + 0 - 1) % 256].d = [c[p] EXCEPT !.subs = @ + 0 - 1]
      BY <3>4, <3>8 DEF Copied, Domain
    <3>10. b[p] = [c[p] EXCEPT !.subs = @ + 0 - 1]
      BY <3>1, <3>6
    <3>11. Cache!Counted(rest, p, 0)[p] = [rest[p] EXCEPT !.d.subs = (@ + 0 - 1) % 256]
      BY <3>7, <3>8
    <3> HIDE DEF rest, p, b
    <3>12. Cache!Counted(rest, p, 0)[p].d = b[p]
      BY <3>9, <3>10, <3>11
    <3>13. ASSUME NEW i \in DOMAIN rest, i # p  PROVE  Cache!Counted(rest, p, 0)[i].d = b[i]
      BY <1>0, <2>2, <3>6, <3>7, <3>13
    <3>14. DOMAIN Cache!After(c, t) = DOMAIN rest /\ \A i \in DOMAIN rest : Cache!After(c, t)[i] = b[i]
      BY <2>2, <2>3, <2>5, <3>6 DEF Cache!Without
    <3> QED BY <3>5, <3>7, <3>12, <3>13, <3>14 DEF Copies
  <2> QED BY <2>4, <2>5
<1>6. CASE t.kind = "Blacklist"
  <2>1. t.id \in DOMAIN c
    BY <1>6 DEF Fits
  <2>2. Cache!After(c, t) = [c EXCEPT ![t.id].black = t.black]
    BY <1>6 DEF Cache!After
  <2>3. Cache!Applied(doms, t) = [doms EXCEPT ![t.id].d.black = t.black]
    BY <1>0, <1>6, <2>1 DEF Cache!Applied, Cache!Bails
  <2> QED BY <1>0, <2>1, <2>2, <2>3 DEF Copies, Copied
<1> QED BY <1>1, <1>2, <1>3, <1>4, <1>5, <1>6 DEF Transaction

\* Counting a subdomain touches neither types nor records.
LEMMA CountedAlike ==
  ASSUME NEW doms, \A i \in DOMAIN doms : doms[i] \in Copied, NEW p \in DOMAIN doms, NEW d \in {0, 2}
  PROVE  /\ DOMAIN Cache!Counted(doms, p, d) = DOMAIN doms
         /\ \A i \in DOMAIN doms : /\ Cache!Counted(doms, p, d)[i] \in Copied
                                   /\ Cache!Counted(doms, p, d)[i].records = doms[i].records
                                   /\ Cache!Counted(doms, p, d)[i].d.recs = doms[i].d.recs
<1> DEFINE e == [doms[p] EXCEPT !.d.subs = (@ + d - 1) % 256]
<1>1. /\ DOMAIN Cache!Counted(doms, p, d) = DOMAIN doms
      /\ \A i \in DOMAIN doms : Cache!Counted(doms, p, d)[i] = IF i = p THEN e ELSE doms[i]
  BY DEF Cache!Counted
<1>2. doms[p] \in Copied /\ doms[p].d \in Domain /\ doms[p].d.subs \in Nat
  BY DEF Copied, Domain
<1>3. (doms[p].d.subs + d - 1) % 256 \in Nat
  BY <1>2
<1>4. e \in Copied /\ e.records = doms[p].records /\ e.d.recs = doms[p].d.recs
  BY <1>2, <1>3 DEF Copied, Domain
<1> HIDE DEF e
<1> QED BY <1>1, <1>4

\* It leaves a copy of its type, in step or not.
LEMMA AppliedTyped ==
  ASSUME NEW doms, DOMAIN doms \subseteq Nat, \A i \in DOMAIN doms : doms[i] \in Copied,
         NEW t \in Transaction
  PROVE  /\ DOMAIN Cache!Applied(doms, t) \subseteq Nat
         /\ \A i \in DOMAIN Cache!Applied(doms, t) : Cache!Applied(doms, t)[i] \in Copied
<1> DEFINE a == Cache!Applied(doms, t)
<1>1. CASE t.kind = "Register"
  <2>1. a = Cache!With(doms, t.id, Cache!NewDomain(Cache!Dom(t.owner, t.recs, 0, FALSE)))
    BY <1>1 DEF Cache!Applied
  <2>2. t.id \in Nat /\ Cache!NewDomain(Cache!Dom(t.owner, t.recs, 0, FALSE)) \in Copied
    BY <1>1 DEF Transaction, Cache!NewDomain, Cache!Dom, Copied, Domain
  <2> QED BY <2>1, <2>2 DEF Cache!With
<1>2. CASE t.kind = "CreateSubdomain"
  <2>1. CASE t.parent \notin DOMAIN doms
    <3>1. a = doms
      BY <1>2, <2>1 DEF Cache!Applied, Cache!Bails
    <3> QED BY <3>1
  <2>2. CASE t.parent \in DOMAIN doms
    <3> DEFINE b == Cache!Counted(doms, t.parent, 2)
               n == Cache!Subdomain(doms, t)
    <3>1. a = Cache!With(b, t.id, n)
      BY <1>2, <2>2 DEF Cache!Applied, Cache!Bails
    <3>2. t.id \in Nat /\ n \in Copied
      BY <1>2, <2>2 DEF Transaction, Cache!Subdomain, Cache!NewDomain, Cache!Dom, Copied, Domain, Cache!SubMark
    <3>3. DOMAIN b = DOMAIN doms /\ \A i \in DOMAIN doms : b[i] \in Copied
      BY <2>2, CountedAlike
    <3> HIDE DEF b, n
    <3> QED BY <3>1, <3>2, <3>3 DEF Cache!With
  <2> QED BY <2>1, <2>2
<1>3. CASE t.kind \in {"UpdateRecords", "Takeover", "Blacklist"} /\ t.id \notin DOMAIN doms
  <2>1. a = doms
    BY <1>3 DEF Cache!Applied, Cache!Bails
  <2> QED BY <2>1
<1>4. CASE t.kind \in {"UpdateRecords", "Takeover", "Blacklist"} /\ t.id \in DOMAIN doms
  <2>1. CASE t.kind = "UpdateRecords"
    <3>1. a = [doms EXCEPT ![t.id] = Cache!WithRecords(@, t)]
      BY <1>4, <2>1 DEF Cache!Applied, Cache!Bails
    <3>2. Cache!WithRecords(doms[t.id], t) \in Copied
      BY <1>4, <2>1 DEF Cache!WithRecords, Copied, Domain, Transaction
    <3> QED BY <3>1, <3>2
  <2>2. CASE t.kind = "Takeover"
    <3>1. a = [doms EXCEPT ![t.id] = Cache!TakenOver(@, t)]
      BY <1>4, <2>2 DEF Cache!Applied, Cache!Bails
    <3>2. doms[t.id] \in Copied /\ doms[t.id].d \in Domain /\ t.owner \in Nat /\ t.recs \in Nat
      BY <1>4, <2>2 DEF Copied, Transaction
    <3>3. [doms[t.id].d EXCEPT !.owner = t.owner, !.recs = t.recs] \in Domain
      BY <3>2 DEF Domain
    <3>4. Cache!TakenOver(doms[t.id], t) \in Copied
      BY <3>2, <3>3 DEF Cache!TakenOver, Copied
    <3> QED BY <3>1, <3>4
  <2>3. CASE t.kind = "Blacklist"
    <3>1. a = [doms EXCEPT ![t.id] = [@ EXCEPT !.d.black = t.black]]
      BY <1>4, <2>3 DEF Cache!Applied, Cache!Bails
    <3>2. [doms[t.id] EXCEPT !.d.black = t.black] \in Copied
      BY <1>4, <2>3 DEF Copied, Domain, Transaction
    <3> QED BY <3>1, <3>2
  <2> QED BY <1>4, <2>1, <2>2, <2>3
<1>5. CASE t.kind = "Destroy"
  <2> DEFINE rest == Cache!Without(doms, t.id)
             p == doms[t.id].d.owner
  <2>1. DOMAIN rest \subseteq DOMAIN doms /\ \A i \in DOMAIN rest : rest[i] = doms[i]
    BY DEF Cache!Without
  <2>2. a = doms \/ a = rest \/ (a = Cache!Counted(rest, p, 0) /\ p \in DOMAIN rest)
    BY <1>5 DEF Cache!Applied, Cache!Removed
  <2> HIDE DEF rest, p
  <2>3. \A j \in DOMAIN rest : rest[j] \in Copied
    BY <2>1
  <2>4. CASE a = doms \/ a = rest
    BY <2>1, <2>3, <2>4
  <2>5. CASE a = Cache!Counted(rest, p, 0) /\ p \in DOMAIN rest
    <3>1. DOMAIN a = DOMAIN rest /\ \A j \in DOMAIN rest : a[j] \in Copied
      BY <2>3, <2>5, CountedAlike
    <3> QED BY <2>1, <3>1
  <2> QED BY <2>2, <2>4, <2>5
<1> QED BY <1>1, <1>2, <1>3, <1>4, <1>5 DEF Transaction

\* It renews the records with what they are decoded from, but for the domain taken over.
\* (update_records, filter_takeover)
LEMMA AppliedRecords ==
  ASSUME NEW doms, \A i \in DOMAIN doms : doms[i] \in Copied, NEW t \in Transaction,
         NEW i \in DOMAIN Cache!Applied(doms, t),
         Cache!Applied(doms, t)[i].records # Cache!Applied(doms, t)[i].d.recs
  PROVE  \/ i \in DOMAIN doms /\ doms[i].records # doms[i].d.recs
         \/ t.kind = "Takeover" /\ i = t.id
<1> DEFINE a == Cache!Applied(doms, t)
<1>1. CASE t.kind = "Register"
  <2>1. a = Cache!With(doms, t.id, Cache!NewDomain(Cache!Dom(t.owner, t.recs, 0, FALSE)))
    BY <1>1 DEF Cache!Applied
  <2>2. Cache!NewDomain(Cache!Dom(t.owner, t.recs, 0, FALSE)).records =
          Cache!NewDomain(Cache!Dom(t.owner, t.recs, 0, FALSE)).d.recs
    BY DEF Cache!NewDomain, Cache!Dom
  <2> QED BY <2>1, <2>2 DEF Cache!With
<1>2. CASE t.kind = "CreateSubdomain"
  <2>1. CASE t.parent \notin DOMAIN doms
    <3>1. a = doms
      BY <1>2, <2>1 DEF Cache!Applied, Cache!Bails
    <3> QED BY <3>1
  <2>2. CASE t.parent \in DOMAIN doms
    <3> DEFINE b == Cache!Counted(doms, t.parent, 2)
               n == Cache!Subdomain(doms, t)
    <3>1. a = Cache!With(b, t.id, n)
      BY <1>2, <2>2 DEF Cache!Applied, Cache!Bails
    <3>2. n.records = n.d.recs
      BY DEF Cache!Subdomain, Cache!NewDomain, Cache!Dom
    <3>3. DOMAIN b = DOMAIN doms
          /\ \A j \in DOMAIN doms : b[j].records = doms[j].records /\ b[j].d.recs = doms[j].d.recs
      BY <2>2, CountedAlike
    <3> HIDE DEF b, n
    <3>4. i # t.id => i \in DOMAIN b /\ a[i] = b[i]
      BY <3>1 DEF Cache!With
    <3>5. i = t.id => a[i] = n
      BY <3>1 DEF Cache!With
    <3> QED BY <3>2, <3>3, <3>4, <3>5
  <2> QED BY <2>1, <2>2
<1>3. CASE t.kind \in {"UpdateRecords", "Takeover", "Blacklist"} /\ t.id \notin DOMAIN doms
  <2>1. a = doms
    BY <1>3, Zenon DEF Cache!Applied, Cache!Bails
  <2> QED BY <2>1
<1>4. CASE t.kind \in {"UpdateRecords", "Takeover", "Blacklist"} /\ t.id \in DOMAIN doms
  <2>1. CASE t.kind = "UpdateRecords"
    <3>1. a = [doms EXCEPT ![t.id] = Cache!WithRecords(@, t)]
      BY <1>4, <2>1 DEF Cache!Applied, Cache!Bails
    <3>2. Cache!WithRecords(doms[t.id], t).records = Cache!WithRecords(doms[t.id], t).d.recs
      BY <1>4 DEF Cache!WithRecords, Copied, Domain
    <3> QED BY <3>1, <3>2
  <2>2. CASE t.kind = "Takeover"
    <3>1. a = [doms EXCEPT ![t.id] = Cache!TakenOver(@, t)]
      BY <1>4, <2>2 DEF Cache!Applied, Cache!Bails
    <3> QED BY <2>2, <3>1
  <2>3. CASE t.kind = "Blacklist"
    <3>1. a = [doms EXCEPT ![t.id] = [@ EXCEPT !.d.black = t.black]]
      BY <1>4, <2>3 DEF Cache!Applied, Cache!Bails
    <3>2. /\ [doms[t.id] EXCEPT !.d.black = t.black].records = doms[t.id].records
          /\ [doms[t.id] EXCEPT !.d.black = t.black].d.recs = doms[t.id].d.recs
      BY <1>4 DEF Copied, Domain
    <3> QED BY <3>1, <3>2
  <2> QED BY <1>4, <2>1, <2>2, <2>3
<1>5. CASE t.kind = "Destroy"
  <2> DEFINE rest == Cache!Without(doms, t.id)
             p == doms[t.id].d.owner
  <2>1. DOMAIN rest \subseteq DOMAIN doms /\ \A j \in DOMAIN rest : rest[j] = doms[j]
    BY DEF Cache!Without
  <2>2. a = doms \/ a = rest \/ (a = Cache!Counted(rest, p, 0) /\ p \in DOMAIN rest)
    BY <1>5 DEF Cache!Applied, Cache!Removed
  <2> HIDE DEF rest, p
  <2>3. \A j \in DOMAIN rest : rest[j] \in Copied
    BY <2>1
  <2>4. CASE a = doms \/ a = rest
    BY <2>1, <2>4
  <2>5. CASE a = Cache!Counted(rest, p, 0) /\ p \in DOMAIN rest
    <3>1. DOMAIN a = DOMAIN rest
          /\ \A j \in DOMAIN rest : a[j].records = rest[j].records /\ a[j].d.recs = rest[j].d.recs
      BY <2>3, <2>5, CountedAlike
    <3> QED BY <2>1, <3>1
  <2> QED BY <2>2, <2>4, <2>5
<1> QED BY <1>1, <1>2, <1>3, <1>4, <1>5 DEF Transaction

\* The contract stays a function of its domains.
LEMMA AfterChain ==
  ASSUME NEW c, Sound(c), NEW t \in Transaction, Fits(c, t)
  PROVE  Cache!After(c, t) \in Chain
<1> DEFINE e == Cache!After(c, t)
<1>1. e = [i \in DOMAIN e |-> e[i]]
  <2>1. CASE t.kind = "Register"
    BY <2>1 DEF Cache!After, Cache!With
  <2>2. CASE t.kind = "CreateSubdomain"
    BY <2>2 DEF Cache!After, Cache!With
  <2>3. CASE t.kind = "UpdateRecords"
    BY <2>3 DEF Cache!After
  <2>4. CASE t.kind = "Takeover"
    BY <2>4 DEF Cache!After
  <2>5. CASE t.kind = "Destroy"
    BY <2>5 DEF Cache!After, Cache!Without
  <2>6. CASE t.kind = "Blacklist"
    BY <2>6 DEF Cache!After
  <2> QED BY <2>1, <2>2, <2>3, <2>4, <2>5, <2>6 DEF Transaction
<1>2. Sound(e)
  BY AfterSound
<1> HIDE DEF e
<1>3. DOMAIN e \subseteq Nat /\ \A i \in DOMAIN e : e[i] \in Domain
  BY <1>2 DEF Sound, Typed
<1>4. e \in [DOMAIN e -> Domain]
  BY <1>1, <1>3
<1>5. e \in Chain
  BY <1>3, <1>4 DEF Chain
<1> QED BY <1>5 DEF e

-----------------------------------------------------------------------------
\* The contract so far: all ids have been given out in turn.
Ids == UNION { DOMAIN past[n] : n \in DOMAIN past }
PastInv ==
  /\ past \in Seq(Chain) /\ past # <<>>
  /\ \A n \in 1..Len(past) : Sound(past[n])
  /\ \E k \in Nat : Ids = 1..k

\* The transactions of a contract's past, with their numbers.
Events(p) ==
  { e \in [t : Transaction, nr : Nat] :
      e.nr \in 1..Len(p) - 1 /\ Fits(p[e.nr], e.t) /\ p[e.nr + 1] = Cache!After(p[e.nr], e.t) }

LEMMA NewId ==
  ASSUME NEW k \in Nat, Ids = 1..k
  PROVE  Cache!NextId = k + 1
<1>1. Cardinality(1..k) = IF 1 > k THEN 0 ELSE k - 1 + 1
  BY FS_Interval
<1>2. Cardinality(1..k) = k
  BY <1>1
<1>3. Cache!Cardinality(Ids) = Cardinality(Ids)
  BY DEF Cache!Cardinality, Cardinality
<1>4. Cache!Cardinality(Ids) + 1 = k + 1
  BY <1>2, <1>3
<1> QED BY <1>4 DEF Cache!NextId, Ids

LEMMA LastOfPast ==
  ASSUME PastInv
  PROVE  /\ Len(past) \in Nat \ {0} /\ DOMAIN past = 1..Len(past)
         /\ Cache!Last(past) = past[Len(past)] /\ Sound(Cache!Last(past))
<1>1. Len(past) \in Nat \ {0} /\ DOMAIN past = 1..Len(past)
  BY DEF PastInv
<1>2. Cache!Last(past) = past[Len(past)]
  BY DEF Cache!Last
<1>3. Len(past) \in 1..Len(past)
  BY <1>1
<1> QED BY <1>1, <1>2, <1>3 DEF PastInv

LEMMA TxFits ==
  ASSUME PastInv, NEW t \in Cache!Tx(Cache!Last(past))
  PROVE  /\ t \in Transaction /\ Fits(Cache!Last(past), t) /\ t.kind \in Kind
         /\ IF t.kind \in {"Register", "CreateSubdomain"} THEN t.id = Cache!NextId
            ELSE t.id \in DOMAIN Cache!Last(past)
<1> DEFINE c == Cache!Last(past)
<1>1. Len(past) \in Nat /\ Sound(c) /\ DOMAIN past = 1..Len(past)
      /\ c = past[Len(past)] /\ Len(past) \in DOMAIN past
  BY LastOfPast
<1>2. PICK k \in Nat : Ids = 1..k
  BY DEF PastInv
<1>3. Cache!NextId = k + 1
  BY <1>2, NewId
<1>4. DOMAIN c \subseteq Ids
  BY <1>1 DEF Ids
<1>5. Cache!NextId \in Nat /\ Cache!NextId \notin DOMAIN c
  BY <1>2, <1>3, <1>4
<1>6. DOMAIN c \subseteq Nat
  BY <1>1 DEF Sound, Typed
<1>7. Cache!Tops(c) \subseteq DOMAIN c
  BY DEF Cache!Tops
<1> HIDE DEF c
<1>8. t \in Cache!Tx(c)
  BY DEF c
<1>9. \/ /\ t \in [kind : {"Register"}, id : {Cache!NextId}, owner : {1}, recs : {Len(past)}]
         /\ t.kind \in Kind
      \/ /\ t \in [kind : {"CreateSubdomain"}, id : {Cache!NextId}, parent : Cache!Tops(c), recs : {Len(past)}]
         /\ t.kind \in Kind /\ c[t.parent].subs + 1 # Cache!SubMark
      \/ /\ t \in [kind : {"UpdateRecords"}, id : DOMAIN c, recs : {Len(past)}]
         /\ t.kind \in Kind
      \/ /\ t \in [kind : {"Takeover"}, id : Cache!Tops(c), owner : Cache!Lockup, recs : {Len(past)}]
         /\ t.kind \in Kind /\ t.owner # c[t.id].owner
      \/ /\ t \in [kind : {"Destroy"}, id : { i \in DOMAIN c : c[i].subs \in {0, Cache!SubMark} }]
         /\ t.kind \in Kind
      \/ /\ t \in [kind : {"Blacklist"}, id : DOMAIN c, black : BOOLEAN]
         /\ t.kind \in Kind
  BY <1>8 DEF Cache!Tx
<1>10. t \in Transaction
  BY <1>1, <1>5, <1>6, <1>7, <1>9 DEF Transaction, Cache!Lockup
<1>11. Fits(c, t)
  BY <1>5, <1>7, <1>9 DEF Fits
<1>12. t.kind \in Kind
       /\ IF t.kind \in {"Register", "CreateSubdomain"} THEN t.id = Cache!NextId ELSE t.id \in DOMAIN c
  BY <1>7, <1>9
<1> QED BY <1>10, <1>11, <1>12 DEF c

\* A transaction adds to the past, and makes an event.
LEMMA Transacted ==
  ASSUME PastInv, NEW t \in Cache!Tx(Cache!Last(past)), past' = Append(past, Cache!After(Cache!Last(past), t))
  PROVE  /\ PastInv' /\ Len(past') = Len(past) + 1 /\ \A n \in 1..Len(past) : past'[n] = past[n]
         /\ [t |-> t, nr |-> Len(past)] \in Events(past')
<1> DEFINE c == Cache!Last(past)
           e == Cache!After(c, t)
<1>1. Len(past) \in Nat \ {0} /\ DOMAIN past = 1..Len(past) /\ c = past[Len(past)] /\ Sound(c)
  BY LastOfPast
<1>2. t \in Transaction /\ Fits(c, t)
  BY TxFits
<1>3. e \in Chain /\ Sound(e) /\ DOMAIN e \subseteq DOMAIN c \cup {t.id}
  BY <1>1, <1>2, AfterChain, AfterSound
<1>4. t.kind \in {"Register", "CreateSubdomain"} => t.id \in DOMAIN e
  BY DEF Cache!After, Cache!With
<1> HIDE DEF e, c
<1>5. past \in Seq(Chain) /\ past' = Append(past, e)
  BY DEF e, c, PastInv
<1>6. /\ past' \in Seq(Chain) /\ past' # <<>> /\ Len(past') = Len(past) + 1
      /\ past'[Len(past) + 1] = e /\ \A n \in 1..Len(past) : past'[n] = past[n]
  BY <1>3, <1>5
<1>7. DOMAIN past' = 1..Len(past) + 1
  BY <1>6
<1>8. \A n \in 1..Len(past') : Sound(past'[n])
  BY <1>1, <1>3, <1>6 DEF PastInv
<1>9. PICK k \in Nat : Ids = 1..k
  BY DEF PastInv
<1>10. DOMAIN c \subseteq Ids
  BY <1>1 DEF Ids
<1>11. Ids' = Ids \cup DOMAIN e
  BY <1>1, <1>6, <1>7 DEF Ids
<1>12. Cache!NextId = k + 1
  BY <1>9, NewId
<1>13. IF t.kind \in {"Register", "CreateSubdomain"} THEN t.id = k + 1 ELSE t.id \in DOMAIN c
  BY <1>12, TxFits DEF c
<1>14. Ids' = 1..k \/ Ids' = 1..k + 1
  BY <1>3, <1>4, <1>9, <1>10, <1>11, <1>13
<1>15. PastInv'
  BY <1>6, <1>8, <1>14 DEF PastInv
<1>16. [t |-> t, nr |-> Len(past)] \in Events(past')
  BY <1>1, <1>2, <1>6 DEF Events, e
<1> QED BY <1>6, <1>15, <1>16

Busy(step) == step \notin {"unborn", "idle"}

\* What is to be handled, or being handled, is of the past, and what was read is a state of it.
TasksInv ==
  /\ pc \in [Cache!Task -> Step] /\ queue \in [Kind -> Seq(Events(past))]
  /\ DOMAIN event = Kind /\ \A k \in Kind : Busy(pc[k]) => event[k] \in Events(past)
  /\ DOMAIN snap = Cache!Task
  /\ \A t \in Cache!Task : pc[t] = "loaded" => snap[t][1] \in Nat /\ snap[t][1] + 1 \in 1..Len(past)

CopyInv ==
  /\ DOMAIN domains \subseteq Nat /\ \A i \in DOMAIN domains : domains[i] \in Copied
  /\ Cache!RecordsFollow
  /\ standing # Cache!Astray => standing \in Nat /\ standing + 1 \in 1..Len(past) /\ Copies(domains, past[standing + 1])

DomInv == PastInv /\ TasksInv /\ CopyInv

LEMMA TasksStay ==
  ASSUME Kind \subseteq Cache!Task, TasksInv, pc' \in [Cache!Task -> Step], UNCHANGED <<past, queue>>,
         DOMAIN event' = Kind, DOMAIN snap' = Cache!Task,
         \A k \in Kind : Busy(pc'[k]) => Busy(pc[k]) /\ event'[k] = event[k],
         \A t \in Cache!Task : pc'[t] = "loaded" => pc[t] = "loaded" /\ snap'[t] = snap[t]
  PROVE  TasksInv'
BY DEF TasksInv, Events

\* A task that goes on, with the event it has.
LEMMA TaskMoves ==
  ASSUME Kind \subseteq Cache!Task, TasksInv, NEW t \in Cache!Task, NEW s \in Step \ {"loaded"},
         pc' = [pc EXCEPT ![t] = s], UNCHANGED <<past, queue, event, snap>>,
         t \in Kind => Busy(pc[t]) \/ ~Busy(s)
  PROVE  TasksInv'
<1>1. pc' \in [Cache!Task -> Step] /\ \A u \in Cache!Task : pc'[u] = IF u = t THEN s ELSE pc[u]
  BY DEF TasksInv
<1>2. DOMAIN event' = Kind /\ DOMAIN snap' = Cache!Task /\ event' = event /\ snap' = snap
  BY DEF TasksInv
<1>3. \A k \in Kind : Busy(pc'[k]) => Busy(pc[k]) /\ event'[k] = event[k]
  BY <1>1, <1>2
<1>4. \A u \in Cache!Task : pc'[u] = "loaded" => pc[u] = "loaded" /\ snap'[u] = snap[u]
  BY <1>1, <1>2
<1> QED BY <1>1, <1>2, <1>3, <1>4, TasksStay

\* Those that waited call again.
LEMMA WakeMoves ==
  ASSUME Kind \subseteq Cache!Task, TasksInv, NEW t \in Cache!Task, NEW s \in Step \ {"loaded"}, Busy(pc[t]),
         Cache!Wake(t, s), UNCHANGED <<past, queue, event>>,
         DOMAIN snap' = Cache!Task, \A u \in Cache!Task \ {t} : snap'[u] = snap[u]
  PROVE  TasksInv'
<1>1. pc' \in [Cache!Task -> Step]
      /\ \A u \in Cache!Task :
           \/ u = t /\ pc'[u] = s
           \/ u # t /\ pc'[u] = pc[u]
           \/ u # t /\ pc[u] = "wait" /\ pc'[u] = "call"
  BY DEF Cache!Wake, TasksInv, Step
<1>2. DOMAIN event' = Kind /\ event' = event
  BY DEF TasksInv
<1>3. \A k \in Kind : Busy(pc'[k]) => Busy(pc[k]) /\ event'[k] = event[k]
  BY <1>1, <1>2 DEF Busy
<1>4. \A u \in Cache!Task : pc'[u] = "loaded" => pc[u] = "loaded" /\ snap'[u] = snap[u]
  BY <1>1
<1> QED BY <1>1, <1>2, <1>3, <1>4, TasksStay

LEMMA CopyStays ==
  ASSUME CopyInv, UNCHANGED <<past, domains, standing>>
  PROVE  CopyInv'
BY DEF CopyInv, Cache!RecordsFollow

LEMMA CopyDropped ==
  ASSUME domains' = <<>>, standing' = Cache!Astray
  PROVE  CopyInv'
BY DEF CopyInv, Cache!RecordsFollow

\* What was read at some time is a copy of the contract as it was then.
LEMMA CopyLoaded ==
  ASSUME PastInv, past' = past, NEW n \in Nat, n + 1 \in 1..Len(past),
         domains' = Cache!Loaded(past[n + 1]), standing' = n
  PROVE  CopyInv'
<1> DEFINE c == past[n + 1]
<1>1. Sound(c)
  BY DEF PastInv
<1> HIDE DEF c
<1>2. domains' = [i \in DOMAIN c |-> [d |-> c[i], records |-> c[i].recs]]
  BY DEF c, Cache!Loaded, Cache!NewDomain
<1>3. DOMAIN c \subseteq Nat /\ \A i \in DOMAIN c : c[i] \in Domain
  BY <1>1 DEF Sound, Typed
<1>4. /\ DOMAIN domains' = DOMAIN c
      /\ \A i \in DOMAIN c : /\ domains'[i] \in Copied /\ domains'[i].d = c[i]
                             /\ domains'[i].records = domains'[i].d.recs
  BY <1>2, <1>3 DEF Copied, Domain
<1>5. Cache!RecordsFollow'
  BY <1>4 DEF Cache!RecordsFollow
<1>6. Copies(domains', past'[n + 1])
  BY <1>4 DEF Copies, c
<1> QED BY <1>3, <1>4, <1>5, <1>6 DEF CopyInv

LEMMA OwnerTaken ==
  ASSUME NEW c, NEW t \in Transaction, Fits(c, t), t.kind = "Takeover", Sound(c)
  PROVE  t.id \in DOMAIN c \cap DOMAIN Cache!After(c, t) /\ c[t.id].owner # Cache!After(c, t)[t.id].owner
<1>1. Cache!After(c, t) = [c EXCEPT ![t.id] = [@ EXCEPT !.recs = t.recs, !.owner = t.owner]]
  BY DEF Cache!After
<1>2. t.id \in DOMAIN c /\ t.owner # c[t.id].owner /\ c[t.id] \in Domain
  BY DEF Fits, Cache!Tops, Sound, Typed
<1>3. [c[t.id] EXCEPT !.recs = t.recs, !.owner = t.owner].owner = t.owner
  BY <1>2 DEF Domain
<1> QED BY <1>1, <1>2, <1>3

\* An event applied in its turn leads to the next state of the contract.
LEMMA CopyApplied ==
  ASSUME PastInv, CopyInv, past' = past, NEW e \in Events(past),
         domains' = Cache!Applied(domains, e.t),
         standing' = IF e.nr = standing + 1 /\ standing # Cache!Astray THEN standing + 1 ELSE Cache!Astray
  PROVE  CopyInv'
<1>1. /\ e.t \in Transaction /\ e.nr \in Nat /\ e.nr \in 1..Len(past) - 1 /\ Fits(past[e.nr], e.t)
      /\ past[e.nr + 1] = Cache!After(past[e.nr], e.t) /\ Len(past) \in Nat
  BY DEF Events, PastInv
<1>2. e.nr \in 1..Len(past) /\ Sound(past[e.nr])
  BY <1>1 DEF PastInv
<1>3. DOMAIN domains \subseteq Nat /\ \A i \in DOMAIN domains : domains[i] \in Copied
  BY DEF CopyInv
<1>4. DOMAIN domains' \subseteq Nat /\ \A i \in DOMAIN domains' : domains'[i] \in Copied
  BY <1>1, <1>3, AppliedTyped
<1>5. Cache!RecordsFollow'
  <2> SUFFICES ASSUME NEW i \in DOMAIN domains', domains'[i].records # domains'[i].d.recs
               PROVE  \E n \in 1..Len(past) - 1 :
                        i \in DOMAIN past[n] \cap DOMAIN past[n + 1] /\ past[n][i].owner # past[n + 1][i].owner
    BY DEF Cache!RecordsFollow
  <2>1. CASE i \in DOMAIN domains /\ domains[i].records # domains[i].d.recs
    BY <2>1 DEF CopyInv, Cache!RecordsFollow
  <2>2. CASE e.t.kind = "Takeover" /\ i = e.t.id
    BY <1>1, <1>2, <2>2, OwnerTaken
  <2> QED BY <1>1, <1>3, <2>1, <2>2, AppliedRecords
<1>6. ASSUME standing' # Cache!Astray
      PROVE  standing' \in Nat /\ standing' + 1 \in 1..Len(past) /\ Copies(domains', past[standing' + 1])
  <2>1. standing # Cache!Astray /\ e.nr = standing + 1 /\ standing' = standing + 1
    BY <1>6
  <2>2. standing \in Nat /\ Copies(domains, past[e.nr])
    BY <2>1 DEF CopyInv
  <2>3. Copies(domains', Cache!After(past[e.nr], e.t))
    BY <1>1, <1>2, <1>3, <2>2, AppliedCopies
  <2> QED BY <1>1, <2>1, <2>2, <2>3
<1> QED BY <1>4, <1>5, <1>6 DEF CopyInv

LEMMA QueueGrows ==
  ASSUME PastInv, TasksInv, Cache!Transact
  PROVE  PastInv' /\ TasksInv' /\ \A n \in 1..Len(past) : past'[n] = past[n] /\ n \in 1..Len(past')
<1>1. PICK t \in Cache!Tx(Cache!Last(past)) :
        /\ past' = Append(past, Cache!After(Cache!Last(past), t))
        /\ queue' = queue \/ queue' = [queue EXCEPT ![t.kind] = Append(@, [t |-> t, nr |-> Len(past)])]
        /\ UNCHANGED <<pc, event, snap>>
  BY DEF Cache!Transact
<1>2. /\ PastInv' /\ Len(past') = Len(past) + 1 /\ \A n \in 1..Len(past) : past'[n] = past[n]
      /\ [t |-> t, nr |-> Len(past)] \in Events(past')
  BY <1>1, Transacted
<1>3. t.kind \in Kind /\ Len(past) \in Nat
  BY <1>1, TxFits, LastOfPast
<1>4. \A n \in 1..Len(past) : n \in 1..Len(past')
  BY <1>2, <1>3
<1>5. Events(past) \subseteq Events(past')
  <2> SUFFICES ASSUME NEW e \in Events(past)  PROVE  e \in Events(past')
    OBVIOUS
  <2>1. e.nr \in 1..Len(past) - 1 /\ e.nr \in 1..Len(past) /\ e.nr + 1 \in 1..Len(past)
    BY <1>3 DEF Events
  <2>2. e.nr \in 1..Len(past') - 1 /\ past'[e.nr] = past[e.nr] /\ past'[e.nr + 1] = past[e.nr + 1]
    BY <1>2, <1>3, <2>1
  <2> QED BY <2>2 DEF Events
<1>6. \A q \in Seq(Events(past)) : q \in Seq(Events(past'))
  BY <1>5
<1>7. queue \in [Kind -> Seq(Events(past'))]
  BY <1>6 DEF TasksInv
<1>8. queue' \in [Kind -> Seq(Events(past'))]
  <2>1. CASE queue' = queue
    BY <1>7, <2>1
  <2>2. CASE queue' = [queue EXCEPT ![t.kind] = Append(@, [t |-> t, nr |-> Len(past)])]
    <3>1. Append(queue[t.kind], [t |-> t, nr |-> Len(past)]) \in Seq(Events(past'))
      BY <1>2, <1>3, <1>7
    <3> QED BY <1>7, <2>2, <3>1
  <2> QED BY <1>1, <2>1, <2>2
<1>9. TasksInv'
  BY <1>1, <1>4, <1>5, <1>8 DEF TasksInv
<1> QED BY <1>2, <1>4, <1>9

LEMMA Taken ==
  ASSUME PastInv, TasksInv, Kind \subseteq Cache!Task, NEW k \in Kind, Cache!TakeEvent(k)
  PROVE  TasksInv'
<1>1. /\ queue[k] \in Seq(Events(past)) /\ queue[k] # <<>>
  BY DEF Cache!TakeEvent, TasksInv
<1>2. Head(queue[k]) \in Events(past) /\ Tail(queue[k]) \in Seq(Events(past))
  BY <1>1
<1>3. /\ event' = [event EXCEPT ![k] = Head(queue[k])] /\ queue' = [queue EXCEPT ![k] = Tail(queue[k])]
      /\ pc' = [pc EXCEPT ![k] = "call"] /\ UNCHANGED <<past, snap>>
  BY DEF Cache!TakeEvent
<1>4. queue' \in [Kind -> Seq(Events(past))] /\ pc' \in [Cache!Task -> Step] /\ DOMAIN event' = Kind
  BY <1>2, <1>3 DEF TasksInv, Step
<1>5. \A j \in Kind : Busy(pc'[j]) => event'[j] \in Events(past)
  BY <1>2, <1>3 DEF TasksInv
<1>6. \A t \in Cache!Task : pc'[t] = "loaded" => pc[t] = "loaded"
  BY <1>3 DEF TasksInv
<1> QED BY <1>3, <1>4, <1>5, <1>6 DEF TasksInv

\* As long as the events since a load come in the order of their transactions, the copy of the
\* domains is what the contract was after the last of them; and the decoded records are those of
\* the domain, but after a takeover.  (lib.rs: filter_register_domain .. filter_blacklist)
THEOREM ContractKept ==
  ASSUME Cache!Main \notin Kind, Kind \cap Queries = {}
  PROVE  Cache!Spec => [](Cache!InStep /\ Cache!RecordsFollow)
<1>0. Kind \subseteq Cache!Task /\ Queries \subseteq Cache!Task /\ Cache!Main \in Cache!Task
      /\ \A q \in Queries : q \notin Kind
  BY DEF Cache!Task
<1>1. Cache!Init => DomInv
  <2> SUFFICES ASSUME Cache!Init  PROVE  DomInv
    OBVIOUS
  <2>1. past = <<<<>>>> /\ DOMAIN past = {1} /\ Len(past) = 1 /\ past[1] = <<>> /\ DOMAIN past[1] = {}
    BY DEF Cache!Init
  <2>2. Sound(past[1])
    BY <2>1, FS_EmptySet DEF Sound, Typed, Counts
  <2>3. past[1] \in Chain
    <3>1. past[1] \in [{} -> Domain]
      BY <2>1
    <3>2. {} \in SUBSET Nat
      OBVIOUS
    <3> QED BY <3>1, <3>2 DEF Chain
  <2>4. past \in Seq(Chain) /\ past # <<>>
    BY <2>1, <2>3
  <2>5. Ids = 1..0
    BY <2>1 DEF Ids
  <2>6. PastInv
    BY <2>1, <2>2, <2>4, <2>5 DEF PastInv
  <2>7. TasksInv
    BY <1>0 DEF Cache!Init, TasksInv, Step, Busy
  <2>8. CopyInv
    BY DEF Cache!Init, CopyInv, Cache!RecordsFollow
  <2> QED BY <2>6, <2>7, <2>8 DEF DomInv
<1>2. DomInv /\ [Cache!Next]_(Cache!vars) => DomInv'
  <2> SUFFICES ASSUME DomInv, [Cache!Next]_(Cache!vars)  PROVE  DomInv'
    OBVIOUS
  <2>0. PastInv /\ TasksInv /\ CopyInv /\ pc \in [Cache!Task -> Step]
    BY DEF DomInv, TasksInv
  <2>1. ASSUME past' = past  PROVE  PastInv'
    BY <2>0, <2>1 DEF PastInv, Ids
  <2>2. CASE Cache!Transact
    <3>1. PastInv' /\ TasksInv' /\ \A n \in 1..Len(past) : past'[n] = past[n] /\ n \in 1..Len(past')
      BY <2>0, <2>2, QueueGrows
    <3>2. domains' = domains /\ standing' = standing /\ Len(past) \in Nat /\ Len(past') \in Nat
      BY <2>0, <2>2, <3>1 DEF Cache!Transact, PastInv
    <3>3. Cache!RecordsFollow'
      <4> SUFFICES ASSUME NEW i \in DOMAIN domains, domains[i].records # domains[i].d.recs
                   PROVE  \E n \in 1..Len(past') - 1 : /\ i \in DOMAIN past'[n] \cap DOMAIN past'[n + 1]
                                                       /\ past'[n][i].owner # past'[n + 1][i].owner
        BY <3>2 DEF Cache!RecordsFollow
      <4>1. PICK n \in 1..Len(past) - 1 :
              i \in DOMAIN past[n] \cap DOMAIN past[n + 1] /\ past[n][i].owner # past[n + 1][i].owner
        BY <2>0 DEF CopyInv, Cache!RecordsFollow
      <4>2. n \in 1..Len(past) /\ n + 1 \in 1..Len(past)
        BY <3>2
      <4>3. past'[n] = past[n] /\ past'[n + 1] = past[n + 1] /\ n + 1 \in 1..Len(past')
        BY <3>1, <4>2
      <4>4. n \in 1..Len(past') - 1
        BY <3>2, <4>3
      <4> QED BY <4>1, <4>3, <4>4
    <3>4. CopyInv'
      BY <2>0, <3>1, <3>2, <3>3 DEF CopyInv
    <3> QED BY <3>1, <3>4 DEF DomInv
  <2>3. ASSUME NEW q \in Queries, Cache!Query(q) \/ Cache!Answer(q)  PROVE  DomInv'
    <3>1. PICK s \in {"call", "idle"} : pc' = [pc EXCEPT ![q] = s]
      BY <2>3 DEF Cache!Query, Cache!Answer
    <3>2. UNCHANGED <<past, queue, event, snap, domains, standing>>
      BY <2>3 DEF Cache!Query, Cache!Answer
    <3>3. TasksInv'
      BY <1>0, <2>0, <3>1, <3>2, TaskMoves DEF Step
    <3> QED BY <2>0, <2>1, <3>2, <3>3, CopyStays DEF DomInv
  <2>4. ASSUME NEW t \in Cache!Task, Cache!Wait(t) \/ Cache!Decide(t)  PROVE  DomInv'
    <3>1. PICK s \in {"wait", "begin"} : pc' = [pc EXCEPT ![t] = s]
      BY <2>4 DEF Cache!Wait, Cache!Decide
    <3>2. UNCHANGED <<past, queue, event, snap, domains, standing>> /\ pc[t] = "call"
      BY <2>4 DEF Cache!Wait, Cache!Decide
    <3>3. TasksInv'
      BY <1>0, <2>0, <3>1, <3>2, TaskMoves DEF Step, Busy
    <3> QED BY <2>0, <2>1, <3>2, <3>3, CopyStays DEF DomInv
  <2>5. ASSUME NEW k \in Kind, Cache!TakeEvent(k)  PROVE  DomInv'
    <3>1. TasksInv'
      BY <1>0, <2>0, <2>5, Taken
    <3>2. UNCHANGED <<past, domains, standing>>
      BY <2>5 DEF Cache!TakeEvent
    <3> QED BY <2>0, <2>1, <3>1, <3>2, CopyStays DEF DomInv
  <2>6. ASSUME NEW k \in Kind, Cache!Apply(k) \/ Cache!HandleErr(k)  PROVE  TasksInv' /\ past' = past
    <3>1. PICK s \in {"err", "idle"} :
            /\ pc' = [pc EXCEPT ![k] = s]
            /\ event' = event \/ (s = "idle" /\ event' = [event EXCEPT ![k] = <<>>])
      BY <2>6 DEF Cache!Apply, Cache!HandleErr
    <3>2. UNCHANGED <<past, queue, snap>> /\ pc[k] \in {"call", "err"}
      BY <2>6 DEF Cache!Apply, Cache!HandleErr
    <3>3. pc' \in [Cache!Task -> Step] /\ \A t \in Cache!Task : pc'[t] = IF t = k THEN s ELSE pc[t]
      BY <1>0, <2>0, <3>1 DEF Step
    <3>4. DOMAIN event' = Kind /\ \A j \in Kind : (j = k /\ s = "idle") \/ event'[j] = event[j]
      BY <2>0, <3>1 DEF TasksInv
    <3>5. DOMAIN snap' = Cache!Task
          /\ \A t \in Cache!Task : pc'[t] = "loaded" => pc[t] = "loaded" /\ snap'[t] = snap[t]
      BY <2>0, <3>2, <3>3 DEF TasksInv
    <3>6. \A j \in Kind : Busy(pc'[j]) => Busy(pc[j]) /\ event'[j] = event[j]
      BY <1>0, <3>2, <3>3, <3>4 DEF Busy
    <3> QED BY <1>0, <2>0, <3>2, <3>3, <3>4, <3>5, <3>6, TasksStay
  <2>7. ASSUME NEW k \in Kind, Cache!Apply(k)  PROVE  DomInv'
    <3>1. event[k] \in Events(past)
      BY <1>0, <2>0, <2>7 DEF Cache!Apply, TasksInv, Busy
    <3>2. /\ domains' = Cache!Applied(domains, event[k].t)
          /\ standing' = IF event[k].nr = standing + 1 /\ standing # Cache!Astray THEN standing + 1 ELSE Cache!Astray
      BY <2>7 DEF Cache!Apply
    <3>3. CopyInv'
      BY <2>0, <2>6, <2>7, <3>1, <3>2, CopyApplied
    <3> QED BY <2>1, <2>6, <2>7, <3>3 DEF DomInv
  <2>8. ASSUME NEW k \in Kind, Cache!HandleErr(k)  PROVE  DomInv'
    <3>1. CopyInv'
      BY <2>8, CopyDropped DEF Cache!HandleErr
    <3> QED BY <2>1, <2>6, <2>8, <3>1 DEF DomInv
  <2>9. ASSUME NEW t \in Cache!Task, Cache!BeginLoad(t)  PROVE  DomInv'
    <3>1. TasksInv'
      BY <1>0, <2>0, <2>9, TaskMoves DEF Cache!BeginLoad, Step, Busy
    <3>2. CopyInv' /\ past' = past
      BY <2>9, CopyDropped DEF Cache!BeginLoad
    <3> QED BY <2>1, <3>1, <3>2 DEF DomInv
  <2>10. ASSUME NEW t \in Cache!Task, Cache!Read(t)  PROVE  DomInv'
    <3>1. /\ pc[t] = "load" /\ pc' = [pc EXCEPT ![t] = "loaded"]
          /\ snap' = [snap EXCEPT ![t] = <<Len(past) - 1>>]
          /\ UNCHANGED <<past, queue, domains, standing, event>>
      BY <2>10 DEF Cache!Read
    <3>2. Len(past) \in Nat \ {0}
      BY <2>0, LastOfPast
    <3>3. DOMAIN snap' = Cache!Task /\ snap'[t] = <<Len(past) - 1>>
          /\ \A u \in Cache!Task \ {t} : snap'[u] = snap[u]
      BY <2>0, <3>1 DEF TasksInv
    <3>4. snap'[t][1] \in Nat /\ snap'[t][1] + 1 \in 1..Len(past)
      BY <3>2, <3>3
    <3>5. pc' \in [Cache!Task -> Step] /\ \A u \in Cache!Task : pc'[u] = IF u = t THEN "loaded" ELSE pc[u]
      BY <2>0, <3>1 DEF Step
    <3>6. \A k \in Kind : Busy(pc'[k]) => event[k] \in Events(past)
      BY <1>0, <2>0, <3>1, <3>5 DEF TasksInv, Busy
    <3>7. \A u \in Cache!Task : pc'[u] = "loaded" => snap'[u][1] \in Nat /\ snap'[u][1] + 1 \in 1..Len(past)
      BY <2>0, <3>3, <3>4, <3>5 DEF TasksInv
    <3>8. TasksInv'
      BY <2>0, <3>1, <3>3, <3>5, <3>6, <3>7 DEF TasksInv
    <3> QED BY <2>0, <2>1, <3>1, <3>8, CopyStays DEF DomInv
  <2>11. ASSUME NEW t \in Cache!Task, Cache!FinishLoad(t)  PROVE  DomInv'
    <3>1. /\ pc[t] = "loaded" /\ domains' = Cache!Loaded(past[snap[t][1] + 1]) /\ standing' = snap[t][1]
          /\ snap' = [snap EXCEPT ![t] = <<>>] /\ UNCHANGED <<past, queue, event>>
      BY <2>11 DEF Cache!FinishLoad
    <3>2. snap[t][1] \in Nat /\ snap[t][1] + 1 \in 1..Len(past)
      BY <2>0, <3>1 DEF TasksInv
    <3>3. CopyInv'
      BY <2>0, <3>1, <3>2, CopyLoaded
    <3>4. DOMAIN snap' = Cache!Task /\ \A u \in Cache!Task \ {t} : snap'[u] = snap[u]
      BY <2>0, <3>1 DEF TasksInv
    <3>5. CASE t = Cache!Main
      <4>1. pc' = [u \in Cache!Task |-> IF u = Cache!Main THEN "done" ELSE "idle"]
        BY <2>11, <3>5 DEF Cache!FinishLoad
      <4>2. pc' \in [Cache!Task -> Step] /\ (\A k \in Kind : ~Busy(pc'[k]))
            /\ \A u \in Cache!Task : pc'[u] # "loaded"
        BY <1>0, <4>1 DEF Step, Busy
      <4>3. DOMAIN event' = Kind
        BY <2>0, <3>1 DEF TasksInv
      <4>4. TasksInv'
        BY <1>0, <2>0, <3>1, <3>4, <4>2, <4>3, TasksStay
      <4> QED BY <2>1, <3>1, <3>3, <4>4 DEF DomInv
    <3>6. CASE t # Cache!Main
      <4>1. Cache!Wake(t, "call") /\ Busy(pc[t])
        BY <2>11, <3>1, <3>6 DEF Cache!FinishLoad, Busy
      <4>2. TasksInv'
        BY <1>0, <2>0, <3>1, <3>4, <4>1, WakeMoves DEF Step
      <4> QED BY <2>1, <3>1, <3>3, <4>2 DEF DomInv
    <3> QED BY <3>5, <3>6
  <2>12. ASSUME NEW t \in Cache!Task, Cache!FailLoad(t)  PROVE  DomInv'
    <3>1. PICK s \in {"err", "stopped", "idle"} : Cache!Wake(t, s)
      BY <2>12 DEF Cache!FailLoad
    <3>2. Busy(pc[t]) /\ UNCHANGED <<past, queue, event, snap>> /\ CopyInv'
      BY <2>12, CopyDropped DEF Cache!FailLoad, Busy
    <3>3. TasksInv'
      BY <1>0, <2>0, <3>1, <3>2, WakeMoves DEF Step, TasksInv
    <3> QED BY <2>1, <3>2, <3>3 DEF DomInv
  <2>13. CASE UNCHANGED Cache!vars
    <3>1. UNCHANGED <<past, queue, pc, event, snap, domains, standing>>
      BY <2>13 DEF Cache!vars
    <3>2. TasksInv'
      BY <2>0, <3>1 DEF TasksInv
    <3> QED BY <2>0, <2>1, <3>1, <3>2, CopyStays DEF DomInv
  <2> QED
    BY <2>2, <2>3, <2>4, <2>5, <2>7, <2>8, <2>9, <2>10, <2>11, <2>12, <2>13 DEF Cache!Next, Cache!TaskNext
<1>3. DomInv => Cache!InStep /\ Cache!RecordsFollow
  <2> SUFFICES ASSUME DomInv  PROVE  Cache!InStep /\ Cache!RecordsFollow
    OBVIOUS
  <2> QED BY DEF DomInv, CopyInv, Cache!InStep, Copies
<1> QED BY <1>1, <1>2, <1>3, PTL DEF Cache!Spec
=============================================================================
