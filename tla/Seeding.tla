------------------------------ MODULE Seeding -------------------------------
(***************************************************************************)
(* Where a new node finds peers.  Nodes post their credentials to the      *)
(* snode's seeder (seeder/mod.rs) and are answered with those of others;   *)
(* testers report which of them can be reached; the nameserver asks for    *)
(* the ones that can (cjdns-nameserver/src/seeder.rs) and gives some of    *)
(* them away in a TXT record.                                              *)
(*                                                                         *)
(* External: the nodes, and what the route server knows of a node's        *)
(* peers, which makes some nodes unfit to be given to another.             *)
(***************************************************************************)
EXTENDS Integers, Sequences, FiniteSets, SequencesExt, Sublists

CONSTANTS Cred,     \* CjdnsPeer: [ip, addr, fam, pass], ip being the key's
          PubId,    \* the peer ids that start with PUB_
          Posts,    \* what nodes post: [sender, id, creds]
          InFlight, \* the posts in progress
          Unfit,    \* the nodes with too many peers, or peers of the asker: some sets of them
          Result,   \* the results of tests considered, TRUE for an error
          Respond,  \* NUM_PEERS_TO_RESPOND
          Share,    \* share_peers_with_nameserver
          Cutoff,   \* the age of a check, at most, for the nameserver (an hour)
          MaxAge,   \* the age of the nameserver's list (five minutes)
          MaxNow, MaxPeers  \* bounds: the clock, the entries

VARIABLES now,
          peers,    \* SeederMut.peers
          post,     \* per request: what is posted, which credentials are left, and the selections;
                    \* the fields after out are history
          reply,    \* the last answer given, and to what
          asked,    \* what the nameserver was answered and has not stored, and when it asked
          cache     \* the nameserver's peers, when they were asked for and stored

vars == <<now, peers, post, reply, asked, cache>>

Never == -1
TopRing == 0  \* SeederMut.top_ring, which nothing raises
NoReply == [kind |-> "none", got |-> <<>>]
NoPost == [at |-> "idle"]
Id == { p.id : p \in Posts }
Ip == { c.ip : c \in Cred }

Init ==
  /\ now = 0 /\ peers = <<>> /\ reply = NoReply
  /\ post = [r \in InFlight |-> NoPost]
  /\ asked = [at |-> Never, list |-> <<>>]
  /\ cache = [list |-> <<>>, at |-> Never, updated |-> Never]

Tick ==
  /\ now < MaxNow
  /\ now' = now + 1
  /\ reply' = NoReply
  /\ UNCHANGED <<peers, post, asked, cache>>

-----------------------------------------------------------------------------
(* handle_cred.                                                            *)

\* "first" is history: the id the entry was made with.
NewPeer(sender, id, cred) ==
  [ip |-> sender, id |-> id, first |-> id, creds |-> cred, ring |-> TopRing, error |-> FALSE,
   private |-> id \notin PubId, check |-> Never]

\* An entry found is the sender's with these credentials: only its id may be new.
Renewed(p, id) ==
  IF p.id = id THEN p ELSE [p EXCEPT !.id = id, !.error = FALSE, !.check = Never]

IndexOf(list, sender, cred) ==
  { i \in DOMAIN list : list[i].ip = sender /\ list[i].creds = cred }

Recorded(list, sender, id, cred) ==
  LET found == IndexOf(list, sender, cred)
  IN IF found = {} THEN Append(list, NewPeer(sender, id, cred))
     ELSE LET i == CHOOSE i \in found : \A k \in found : i <= k
          IN [list EXCEPT ![i] = Renewed(@, id)]

RingOf(list, sender, cred) ==
  LET found == IndexOf(list, sender, cred)
  IN IF found = {} THEN TopRing ELSE list[CHOOSE i \in found : \A k \in found : i <= k].ring

\* Whom each of the four passes considers.
InPass(p, ring, attempt) ==
  CASE attempt = 0 -> p.ring + 1 = ring
    [] attempt = 1 -> p.ring = ring
    [] attempt = 2 -> p.ring >= ring
    [] attempt = 3 -> TRUE

\* Mutant of Eligible: what has been selected is not looked at.
EligibleAgain(p, cred, out, unfit) ==
  ~p.private /\ p.creds.fam = cred.fam /\ p.ip \notin unfit
\* Mutant of Eligible: private peers, too.
EligiblePrivate(p, cred, out, unfit) ==
  /\ p.creds.fam = cred.fam
  /\ p.creds \notin ToSet(out)
  /\ p.ip \notin unfit
Eligible(p, cred, out, unfit) ==
  /\ ~p.private /\ p.creds.fam = cred.fam
  /\ p.creds \notin ToSet(out)
  /\ p.ip \notin unfit

\* A pass goes through the peers in their order while there is room.  No two have the same
\* credentials, so that those it selects itself need not be looked at.
Pass(list, cred, unfit, out, among, room) ==
  LET fit == Pick(list, { i \in among : Eligible(list[i], cred, out, unfit) })
  IN out \o [n \in 1..(IF Len(fit) < room THEN Len(fit) ELSE room) |-> fit[n].creds]

\* The selection goes on from what earlier credentials of the same post brought; the first pass
\* selects one peer, and only for the first of them.
Selected(list, sender, cred, unfit, out) ==
  LET among(a) == { i \in DOMAIN list : InPass(list[i], RingOf(list, sender, cred), a) }
      full == Len(out) + Respond
      first == IF out = <<>> THEN Pass(list, cred, unfit, out, among(0), 1) ELSE out
      second == Pass(list, cred, unfit, first, among(1), full - Len(first))
      third == Pass(list, cred, unfit, second, among(2), full - Len(second))
  IN Pass(list, cred, unfit, third, among(3), full - Len(third))

-----------------------------------------------------------------------------
(* post_credentials: the credentials are taken one by one, the lock being  *)
(* free in between, and one of another node ends it with an error; those   *)
(* before it have been recorded.                                           *)

Open(r) ==
  /\ post[r].at = "idle"
  /\ \E p \in Posts :
       post' = [post EXCEPT ![r] =
         [at |-> "creds", sender |-> p.sender, id |-> p.id, left |-> p.creds, out |-> <<>>,
          known |-> Len(peers), fams |-> {}, unfit |-> Ip, refused |-> {}]]
  /\ reply' = NoReply
  /\ UNCHANGED <<now, peers, asked, cache>>

Refuse(r) ==
  /\ post[r].at = "creds" /\ post[r].left # <<>> /\ Head(post[r].left).ip # post[r].sender
  /\ post' = [post EXCEPT ![r] = NoPost]
  /\ reply' = [kind |-> "error", got |-> <<>>]
  /\ UNCHANGED <<now, peers, asked, cache>>

HandleCred(r) ==
  /\ post[r].at = "creds" /\ post[r].left # <<>> /\ Head(post[r].left).ip = post[r].sender
  /\ \E others \in Unfit :
       LET p == post[r]
           cred == Head(p.left)
           unfit == others \cup {p.sender}
           list == Recorded(peers, p.sender, p.id, cred)
       IN /\ Len(list) <= MaxPeers
          /\ peers' = list
          /\ post' = [post EXCEPT ![r] =
               [p EXCEPT !.left = Tail(@), !.out = Selected(list, p.sender, cred, unfit, @),
                         !.fams = @ \cup {cred.fam}, !.unfit = @ \cap unfit, !.refused = @ \cup unfit]]
  /\ reply' = NoReply
  /\ UNCHANGED <<now, asked, cache>>

\* Mutant of Trimmed: the answer is one too long.
TrimmedLate(out) ==
  IF Len(out) <= Respond + 1 THEN {out}
  ELSE { Pick(out, keep) : keep \in { s \in SUBSET DOMAIN out : 1 \in s /\ Cardinality(s) = Respond + 1 } }
\* Random ones but the first are removed until the answer is short enough.
Trimmed(out) ==
  IF Len(out) <= Respond THEN {out}
  ELSE { Pick(out, keep) : keep \in { s \in SUBSET DOMAIN out : 1 \in s /\ Cardinality(s) = Respond } }

Answer(r) ==
  /\ post[r].at = "creds" /\ post[r].left = <<>>
  /\ post' = [post EXCEPT ![r] = NoPost]
  /\ \E got \in Trimmed(post[r].out) :
       reply' = [kind |-> "creds", got |-> got, known |-> post[r].known, fams |-> post[r].fams,
                 unfit |-> post[r].unfit, refused |-> post[r].refused]
  /\ UNCHANGED <<now, peers, asked, cache>>

\* testres: the first entry with the address and the key that were tested.
TestRes ==
  \E i \in DOMAIN peers, err \in Result :
    LET same == { k \in DOMAIN peers :
                    peers[k].creds.addr = peers[i].creds.addr /\ peers[k].ip = peers[i].ip }
        first == CHOOSE k \in same : \A l \in same : k <= l
    IN /\ peers' = [peers EXCEPT ![first] = [@ EXCEPT !.error = err, !.check = now]]
       /\ reply' = NoReply
       /\ UNCHANGED <<now, post, asked, cache>>

-----------------------------------------------------------------------------
(* list_peers for a nameserver, and what that does with it.                *)

Shareable(p) == ~p.private /\ ~p.error /\ p.check # Never /\ p.check + Cutoff > now

\* Every entry is of the one ring there is, so that sorting by it keeps their order.  One is
\* listed before their number is looked at.
ListPeers(unfit) ==
  LET ok == Pick(peers, { i \in DOMAIN peers : Shareable(peers[i]) /\ peers[i].ip \notin unfit })
      most == IF Share = 0 THEN 1 ELSE Share
  IN SubSeq(ok, 1, IF Len(ok) < most THEN Len(ok) ELSE most)

Ask ==
  /\ asked.at = Never
  /\ \E unfit \in Unfit : asked' = [at |-> now, list |-> ListPeers(unfit)]
  /\ reply' = NoReply
  /\ UNCHANGED <<now, peers, post, cache>>

\* update_peers; without an answer, or with an empty one, the old list is kept.
Store ==
  /\ asked.at # Never
  /\ asked' = [at |-> Never, list |-> <<>>]
  /\ \/ asked.list # <<>> /\ cache' = [list |-> asked.list, at |-> asked.at, updated |-> now]
     \/ UNCHANGED cache
  /\ reply' = NoReply
  /\ UNCHANGED <<now, peers, post>>

\* Mutant of TooOld: the list never gets too old.
TooOldNever == cache.updated = Never
TooOld == cache.updated = Never \/ now - cache.updated > MaxAge

\* get_seed_txt draws with repetition, so that any of the list may be in the record.
Seeds == IF TooOld THEN {} ELSE ToSet(cache.list)

Next ==
  \/ Tick \/ TestRes \/ Ask \/ Store
  \/ \E r \in InFlight : Open(r) \/ Refuse(r) \/ HandleCred(r) \/ Answer(r)

Spec == Init /\ [][Next]_vars

-----------------------------------------------------------------------------
Entry == [ip : Ip, id : Id, first : Id, creds : Cred, ring : {TopRing}, error : BOOLEAN, private : BOOLEAN,
          check : 0..MaxNow \cup {Never}]
InProgress ==
  [at : {"creds"}, sender : { p.sender : p \in Posts }, id : Id, left : Seq(Cred), out : Seq(Cred), known : Nat,
   fams : SUBSET { c.fam : c \in Cred }, unfit : SUBSET Ip, refused : SUBSET Ip]
\* Entries are what struct SeederPeer can hold, the ring being the one there is.
TypeOK ==
  /\ now \in 0..MaxNow
  /\ peers \in Seq(Entry) /\ asked.list \in Seq(Entry) /\ cache.list \in Seq(Entry)
  /\ post \in [InFlight -> InProgress \cup {NoPost}]
  /\ asked.at \in 0..MaxNow \cup {Never}
  /\ cache.at \in 0..MaxNow \cup {Never} /\ cache.updated \in 0..MaxNow \cup {Never}

EntriesOf(c) == { p \in ToSet(peers) : p.creds = c }

\* A node is answered with no more peers than a reply has room for, none of them twice, itself or
\* one of its own, and none of a family it did not post.  (post_credentials, handle_cred)
AnswersFit ==
  reply.kind = "creds" =>
    /\ Len(reply.got) <= Respond /\ IsInjective(reply.got)
    /\ \A c \in ToSet(reply.got) : c.ip \notin reply.unfit /\ c.fam \in reply.fams

\* It is answered with fewer only when there are no more to give of those that were there when it
\* posted, whoever posts or tests meanwhile.
AnswersFull ==
  (reply.kind = "creds" /\ Len(reply.got) < Respond) =>
    \A i \in 1..reply.known :
      (~peers[i].private /\ peers[i].creds.fam \in reply.fams /\ peers[i].ip \notin reply.refused) =>
        peers[i].creds \in ToSet(reply.got)

\* A peer recorded under an id that is not a public one is never given to a node or to the
\* nameserver, whatever ids its node posts later.  (handle_cred, list_peers)
FirstIdDecides ==
  \A c \in (IF reply.kind = "creds" THEN ToSet(reply.got) ELSE {})
            \cup { p.creds : p \in ToSet(cache.list) } :
    \E p \in EntriesOf(c) : p.first \in PubId

\* Every peer a TXT record may hold was reached by a test not longer ago than the snode's cutoff,
\* the nameserver's, and the time its question took.  (list_peers, update_peers, get_seed_txt)
SeedsTested ==
  \A p \in Seeds : ~p.error /\ now - p.check < Cutoff + MaxAge + (cache.updated - cache.at)

\* "you may set it to any Peer ID that does not begin with PUB_" - html/ptest.html, for a node
\* to be tested, and not to be connected to.
PrivateNotShared ==
  reply.kind = "creds" =>
    \A c \in ToSet(reply.got) : \A p \in EntriesOf(c) : p.id \in PubId
=============================================================================
