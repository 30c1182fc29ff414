---------------------------- MODULE DomainNames -----------------------------
(***************************************************************************)
(* What the nameserver answers (cjdns-nameserver main.rs) from the domains *)
(* the cache holds (cjdns-pns lib.rs).  A name is a sequence of labels.    *)
(* Domains are looked through in the order of a hash map, which is no      *)
(* order: an answer is one of several.                                     *)
(***************************************************************************)
EXTENDS Naturals, Sequences, FiniteSets, SequencesExt

CONSTANTS Own,        \* my_name
          LabelEnds,  \* the pairs of labels of which the first ends with the second
          Servers,    \* nameservers: their names
          NsPrefix,   \* special_ns_prefix: [key, rooted, label], rooted for a key with a last dot
          Seeding     \* whether there is a seeder, and an answer from it: "none", "fails" or "peers"

Pkt == "pkt"
NoTld == "none"

\* The types whose data is a name, which may be in pkt.
NameTypes == {"ANAME", "CNAME", "NS", "MX", "PTR", "SRV", "SVCB"}

\* Mutant of ParseName: whatever the last label is, it is the tld.
ParseNameTld(name) ==
  [ok |-> Len(name) > 1 /\ Pkt \in {name[Len(name)], name[Len(name) - 1]},
   sub |-> SubSeq(name, 1, Len(name) - 2), tld |-> IF name = <<>> THEN NoTld ELSE Last(name)]

\* parse_name; the error has neither part.
ParseName(name) ==
  LET n == Len(name) IN
  CASE n > 1 /\ name[n] = Pkt -> [ok |-> TRUE, sub |-> Front(name), tld |-> NoTld]
    [] n > 1 /\ name[n] # Pkt /\ name[n - 1] = Pkt ->
         [ok |-> TRUE, sub |-> SubSeq(name, 1, n - 2), tld |-> Last(name)]
    [] OTHER -> [ok |-> FALSE, sub |-> <<>>, tld |-> NoTld]

-----------------------------------------------------------------------------
(* get_records.                                                            *)

\* Domain::update_records: records are kept by the name they are for.
Named(dom) == [i \in DOMAIN dom.records |-> [dom.records[i] EXCEPT !.name = @ \o dom.name]]
RecordsAt(dom, name) == SelectSeq(Named(dom), LAMBDA r : r.name = name)

\* Mutant of Claims: the end of the text is enough.
ClaimsText(dom, sub) ==
  dom.name # <<>> /\ Len(sub) >= Len(dom.name) /\ <<sub[Len(sub)], Last(dom.name)>> \in LabelEnds
\* A domain answers for its name and what ends with a dot and its name; one without a name
\* only for the bare tld.
Claims(dom, sub) ==
  IF dom.name = <<>> THEN sub = <<>> ELSE IsSuffix(dom.name, sub)

OfType(recs, t) == SelectSeq(recs, LAMBDA r : r.type = t)

\* Mutant of Matching: aliases are sent along.
MatchingAll(recs, t) ==
  SelectSeq(recs, LAMBDA r : t \in {"ANY", r.type} \/ r.type = "CNAME")
\* CNAMEs only when nothing matches directly.
Matching(recs, t) ==
  LET direct == IF t = "ANY" THEN recs ELSE OfType(recs, t)
  IN IF direct # <<>> THEN direct ELSE OfType(recs, "CNAME")

\* The NS records of the name and everything above it, the longest first.
Referrals(dom, sub) ==
  FlattenSeq([i \in 1..Len(sub) |-> OfType(RecordsAt(dom, SubSeq(sub, i, Len(sub))), "NS")])
    \o (IF sub = <<>> THEN OfType(RecordsAt(dom, sub), "NS") ELSE <<>>)

\* Mutant of InTld: names stay as they are.
InTldNever(target, tld) == target
\* fix_pkt_names1
InTld(target, tld) == IF target # <<>> /\ Last(target) = Pkt THEN Append(target, tld) ELSE target

\* fix_pkt_names0; without a tld, it returns in the loop.
FixPktNames(recs, tld) ==
  IF tld = NoTld
  THEN [i \in DOMAIN recs |-> IF i = 1 THEN [recs[1] EXCEPT !.name = Append(@, Pkt)] ELSE recs[i]]
  ELSE [i \in DOMAIN recs |->
          [recs[i] EXCEPT !.name = @ \o <<Pkt, tld>>,
                          !.data = IF recs[i].type \in NameTypes THEN InTld(@, tld) ELSE @]]

\* The answers there may be: of any of the domains that claim the name.
GetRecords(doms, name, t) ==
  LET asked == ParseName(name) IN
  IF ~asked.ok THEN {}
  ELSE { [records |-> FixPktNames(Matching(RecordsAt(dom, asked.sub), t), asked.tld),
          nameservers |-> FixPktNames(Referrals(dom, asked.sub), asked.tld)] :
            dom \in { d \in doms : Claims(d, asked.sub) } }

-----------------------------------------------------------------------------
(* handle_request.                                                         *)

Respond(code) == [code |-> code, answers |-> <<>>, authority |-> <<>>, glue |-> {}]
Records(answers, authority, glue) ==
  [code |-> "NoError", answers |-> answers, authority |-> authority, glue |-> glue]

\* The text of the name ends with that of my_name, wherever a label starts.
IsOwn(name) ==
  /\ Len(name) >= Len(Own)
  /\ LET tail == SubSeq(name, Len(name) - Len(Own) + 1, Len(name))
     IN Tail(tail) = Tail(Own) /\ <<tail[1], Own[1]>> \in LabelEnds

OwnAnswer(name, t) ==
  IF t \in {"A", "AAAA"} THEN Records(<<[name |-> name, type |-> t, data |-> Own]>>, <<>>, {})
  ELSE IF name[1] = "seed" /\ t = "TXT" /\ Seeding # "none"
  THEN IF Seeding = "fails" THEN Respond("ServFail")
       ELSE Records(<<[name |-> name, type |-> "TXT", data |-> <<"cjdns0">>]>>, <<>>, {})
  ELSE Respond("NoError")

\* A prefix is found by the whole text of the name asked for, which ends with a dot.
ServerNames(name) ==
  LET prefixes == { p \in NsPrefix : p.key = name /\ p.rooted }
  IN [i \in DOMAIN Servers |->
        IF prefixes = {} THEN Servers[i] ELSE <<(CHOOSE p \in prefixes : TRUE).label>> \o Servers[i]]

PktAnswer(name, t) ==
  CASE t = "SOA" -> Records(<<>>, <<[name |-> name, type |-> "SOA", data |-> name]>>, {})
    [] t = "NS" -> Records([i \in DOMAIN Servers |-> [name |-> name, type |-> "NS", data |-> ServerNames(name)[i]]],
                           <<>>, ToSet(ServerNames(name)))
    [] OTHER -> Respond("NoError")

Answers(doms, name, t) ==
  IF IsOwn(name) THEN {OwnAnswer(name, t)}
  ELSE IF Len(name) = 2 /\ name[1] = Pkt THEN {PktAnswer(name, t)}
  ELSE LET got == GetRecords(doms, name, t)
       IN IF got = {} THEN {Respond("NXDomain")}
          ELSE { Records(g.records, IF g.records = <<>> THEN g.nameservers ELSE <<>>, {}) : g \in got }

-----------------------------------------------------------------------------
(* is_valid_domain_label.                                                  *)

Plain(c) == c \in {"a", "0"}
MaxLabel == 63

\* Mutant of IsValidLabel: a hyphen may be the last character.
IsValidLabelOpen(label) ==
  /\ Len(label) \in 1..MaxLabel /\ Plain(label[1])
  /\ \A i \in DOMAIN label : Plain(label[i]) \/ label[i] = "-"
  /\ \A i \in 1..(Len(label) - 1) : <<label[i], label[i + 1]>> # <<"-", "-">>
IsValidLabel(label) ==
  /\ Len(label) \in 1..MaxLabel
  /\ Plain(label[1]) /\ Plain(label[Len(label)])
  /\ \A i \in DOMAIN label : Plain(label[i]) \/ label[i] = "-"
  /\ \A i \in 1..(Len(label) - 1) : <<label[i], label[i + 1]>> # <<"-", "-">>

-----------------------------------------------------------------------------
\* The domains at and above a name; the one without a name is above none.
DomainsOf(doms, name) ==
  { d \in doms : LET asked == ParseName(name)
                 IN  asked.ok /\ IsSuffix(d.name, asked.sub) /\ (d.name = <<>> => asked.sub = <<>>) }
Ours(name) == IsOwn(name) \/ (Len(name) = 2 /\ name[1] = Pkt)

\* Only a name of no domain there is does not exist, and what a name that exists is answered with
\* is a domain's: the records are some of the name's, a referral is to servers of a name above it.
\* Below a tld, all records are under the name asked for.  (get_records, handle_request)
FromItsDomain(doms, name, t) ==
  ~Ours(name) =>
    \A a \in Answers(doms, name, t) :
      /\ a.code = "NXDomain" <=> DomainsOf(doms, name) = {}
      /\ a.answers # <<>> => a.authority = <<>>
      /\ ParseName(name).tld # NoTld =>
           /\ \A r \in ToSet(a.answers) : r.name = name
           /\ \A r \in ToSet(a.authority) : r.type = "NS" /\ IsSuffix(r.name, name)
      /\ \A r \in ToSet(a.answers) : r.type = "CNAME" \/ t \in {"ANY", r.type}

\* A query for an alias is answered by what it was an alias of or by the alias, never by both.
\* (get_records)
AliasAlone(doms, name, t) ==
  t \notin {"ANY", "CNAME"} =>
    \A a \in Answers(doms, name, t) :
      Cardinality({ r.type : r \in ToSet(a.answers) }) <= 1

\* In every tld a name has the same records, and a name in pkt one of them points to is looked
\* up there as the same name.  (parse_name, fix_pkt_names)
SameInEveryTld(doms, sub, tld, t) ==
  LET bare == sub \o <<Pkt>>
      full == sub \o <<Pkt, tld>>
      target(d, in) == LET p == ParseName(d) IN IF p.ok /\ p.tld = in THEN <<"this pkt">> \o p.sub ELSE d
      view(recs, in) == [i \in DOMAIN recs |->
        [type |-> recs[i].type,
         data |-> IF recs[i].type \in NameTypes THEN target(recs[i].data, in) ELSE recs[i].data]]
  IN (sub # <<>> /\ ~Ours(bare) /\ ~Ours(full)) =>
       { view(a.answers, tld) : a \in Answers(doms, full, t) } =
         { view(a.answers, NoTld) : a \in Answers(doms, bare, t) }

\* A label is valid when it is made of plain characters in runs with single hyphens between them.
ValidIsRuns(label) ==
  IsValidLabel(label) <=>
    /\ Len(label) <= MaxLabel
    /\ \E hyphens \in SUBSET DOMAIN label :
         /\ \A i \in DOMAIN label : IF i \in hyphens THEN label[i] = "-" ELSE Plain(label[i])
         /\ label # <<>>
         /\ \A h \in hyphens : h > 1 /\ h < Len(label) /\ h + 1 \notin hyphens
=============================================================================
