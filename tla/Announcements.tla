--------------------------- MODULE Announcements ---------------------------
(***************************************************************************)
(* The announcements of the supernode and the pure operators its handler   *)
(* applies to them (cjdns-ann models.rs; cjdns-snode server/utils.rs,      *)
(* server/hash.rs and the retain loop of server.rs add_announcement).      *)
(*                                                                         *)
(* An announcement is the record                                           *)
(*    [node |-> origin, ts |-> timestamp, reset |-> is_reset,              *)
(*     snode |-> supernode it is meant for, entities |-> sequence]         *)
(* and an entity is one of                                                 *)
(*    [kind |-> "version"], [kind |-> "scheme"],                           *)
(*    [kind |-> "peer", num, ip, label, form]    label 0 is a withdrawal   *)
(*    [kind |-> "linkstate", num, filled]        samples the walk records  *)
(* sha512 is taken to be collision free, so an announcement stands for its *)
(* own hash, and the chained digest of a list for the list.  Times are     *)
(* counted from an epoch at least AgreedTimeout in the past.               *)
(***************************************************************************)
EXTENDS Integers, Sequences, FiniteSets, Sublists

CONSTANTS Ip,            \* addresses of nodes, announcers and peers alike
          PeerNum,       \* switch slots a node numbers its peers with
          AgreedTimeout  \* AGREED_TIMEOUT, in the model's unit of time

ASSUME AgreedTimeoutAssumption == AgreedTimeout \in Nat

Entity == [kind : {"version", "scheme"}]
            \cup [kind : {"peer"}, num : PeerNum, ip : Ip, label : Nat, form : Nat]
            \cup [kind : {"linkstate"}, num : PeerNum, filled : Nat]

Announcement == [node : Ip, ts : Nat, reset : BOOLEAN, snode : Ip, entities : Seq(Entity)]

EntitiesOf(a) == { a.entities[i] : i \in DOMAIN a.entities }

HasVersion(a) == \E e \in EntitiesOf(a) : e.kind = "version"

HasScheme(a) == \E e \in EntitiesOf(a) : e.kind = "scheme"

\* Positions of the peer entities, in the order the handler walks them.
PeerPositions(a) == { i \in DOMAIN a.entities : a.entities[i].kind = "peer" }

LinkStates(a) == { e \in EntitiesOf(a) : e.kind = "linkstate" }

IsEphemeral(e) == e.kind = "linkstate"

IsReplacement(old, new) ==
  /\ old.kind = new.kind
  /\ \/ old.kind \in {"version", "scheme"}
     \/ old.kind = "peer" /\ old.num = new.num

-----------------------------------------------------------------------------
(* The retain loop of add_announcement, newest announcement first.          *)

Expired(a, ann) == a.ts < ann.ts - AgreedTimeout

\* Entity k of announcement i of the list s is announced first there: nothing
\* the loop has walked before (newer announcements that have not expired, and
\* the earlier entities of the same one) replaces it.
Fresh(s, ann, i, k) ==
  LET e == s[i].entities[k] IN
  /\ ~IsEphemeral(e)
  /\ \A j \in 1..i : ~Expired(s[j], ann) =>
       \A m \in DOMAIN s[j].entities :
         (j = i => m < k) => \/ IsEphemeral(s[j].entities[m])
                             \/ ~IsReplacement(e, s[j].entities[m])

\* Mutant of Retained: an announcement is dropped as soon as one entity is replaced.
RetainedWhole(s, ann) ==
  { i \in DOMAIN s : /\ ~Expired(s[i], ann)
                     /\ \/ s[i] = ann
                        \/ \A k \in DOMAIN s[i].entities : Fresh(s, ann, i, k) }

\* Positions of s that survive the arrival of ann (s already has ann in front).
Retained(s, ann) ==
  { i \in DOMAIN s : /\ ~Expired(s[i], ann)
                     /\ \/ s[i] = ann
                        \/ \E k \in DOMAIN s[i].entities : Fresh(s, ann, i, k) }

\* What add_announcement makes of the list, and the announcements it drops.
AfterAdd(anns, ann) ==
  LET s == <<ann>> \o anns IN Pick(s, Retained(s, ann))

DroppedByAdd(anns, ann) ==
  LET s == <<ann>> \o anns IN { s[i] : i \in DOMAIN s \ Retained(s, ann) }

\* The entities in force in a list: those nothing newer in it replaces.
InForce(s) ==
  UNION { { s[i].entities[k] : k \in { n \in DOMAIN s[i].entities : Fresh(s, s[1], i, n) } }
          : i \in DOMAIN s }

\* A list that runs from the newest announcement to the oldest.
Chronological(s) == \A i, j \in DOMAIN s : i < j => s[i].ts >= s[j].ts

LinkOf(e) == <<e.ip, e.num>>

\* Peer entity k of announcement i of the list s says what its link is: no newer
\* announcement uses its number, and no later entity of the same one names the link.
Standing(s, i, k) ==
  LET e == s[i].entities[k] IN
  /\ e.kind = "peer"
  /\ \A j \in 1..(i - 1) : \A f \in EntitiesOf(s[j]) : ~IsReplacement(e, f)
  /\ \A m \in PeerPositions(s[i]) : m > k => LinkOf(s[i].entities[m]) # LinkOf(e)

\* The digest of server/hash.rs: zero for no announcements, else the chain.
StateHash(s) == s
=============================================================================
