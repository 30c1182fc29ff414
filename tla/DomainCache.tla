---------------------------- MODULE DomainCache -----------------------------
(***************************************************************************)
(* The nameserver's copy of the PNS contract (cjdns-pns, struct Pns): it   *)
(* is loaded whole, then kept up by one task per kind of event.  Events    *)
(* of one kind arrive in order; tasks of different kinds race.  Whoever    *)
(* finds the copy in error loads it anew, and the others wait for that.    *)
(*                                                                         *)
(* External: the contract, a log of transactions each of which emits one   *)
(* event, that a subscription may miss while it is not connected.          *)
(***************************************************************************)
EXTENDS Naturals, Sequences, FiniteSets, SequencesExt

CONSTANTS Queries,   \* the DNS queries answered from the copy
          Kind,      \* the kinds of transactions considered
          MaxId,     \* bound: domains ever registered
          MaxTx,     \* bound: transactions
          MaxFailed  \* bound: loads that fail

VARIABLES past,     \* the contract's domains after 0, 1, 2 ... transactions
          queue,    \* per kind, the events its task has not handled
          mode,     \* PnsMut.domains: "Errored", "Updating" or "Domains"
          domains,  \* the copy, when mode is "Domains"
          loader,   \* the task that drops the sender others wait for, when "Updating"
          pc,       \* where each task is
          on,       \* the task a waiting task is to be woken by
          event,    \* what each event task is handling
          snap,     \* what a loading task has read
          failed,
          at        \* the transaction the copy stands at, or Astray

vars == <<past, queue, mode, domains, loader, pc, on, event, snap, failed, at>>

Main == "main"
Task == {Main} \cup Kind \cup Queries
Astray == MaxTx + 1
SubMark == 255  \* Domain.subdomains of a domain that is a subdomain itself

-----------------------------------------------------------------------------
(* The contract.  A domain has an owner (a lockup, or the parent's id),    *)
(* records, the number of its subdomains, which the contract keeps below   *)
(* the one that marks a subdomain, and a mark.  The n-th transaction       *)
(* brings the records n.                                                   *)

Dom(owner, recs, subs, black) ==
  [owner |-> owner, recs |-> recs, subs |-> subs, black |-> black]
NextId == Cardinality(UNION { DOMAIN past[i] : i \in DOMAIN past }) + 1
Tops(chain) == { i \in DOMAIN chain : chain[i].subs # SubMark }
With(f, x, d) == [y \in DOMAIN f \cup {x} |-> IF y = x THEN d ELSE f[y]]
Without(f, x) == [y \in DOMAIN f \ {x} |-> f[y]]
CountBy(chain, i, d) == [chain EXCEPT ![i].subs = @ + d - 1]

\* What a transaction t of number n does to the contract.
After(chain, t) ==
  CASE t.kind = "Register" -> With(chain, t.id, Dom(t.owner, t.recs, 0, FALSE))
    [] t.kind = "UpdateRecords" -> [chain EXCEPT ![t.id].recs = t.recs]
    [] t.kind = "Takeover" -> [chain EXCEPT ![t.id] = [@ EXCEPT !.recs = t.recs, !.owner = t.owner]]
    [] t.kind = "CreateSubdomain" ->
         With(CountBy(chain, t.parent, 2), t.id, Dom(t.parent, t.recs, SubMark, chain[t.parent].black))
    [] t.kind = "Destroy" ->
         Without(IF chain[t.id].subs = SubMark THEN CountBy(chain, chain[t.id].owner, 0) ELSE chain, t.id)
    [] t.kind = "Blacklist" -> [chain EXCEPT ![t.id].black = t.black]

Lockup == {1, 2}
Tx(chain) ==
  { t \in
      [kind : {"Register"}, id : {NextId}, owner : {1}, recs : {Len(past)}]
        \cup [kind : {"CreateSubdomain"}, id : {NextId}, parent : Tops(chain), recs : {Len(past)}]
        \cup [kind : {"UpdateRecords"}, id : DOMAIN chain, recs : {Len(past)}]
        \cup [kind : {"Takeover"}, id : Tops(chain), owner : Lockup, recs : {Len(past)}]
        \cup [kind : {"Destroy"}, id : { i \in DOMAIN chain : chain[i].subs \in {0, SubMark} }]
        \cup [kind : {"Blacklist"}, id : DOMAIN chain, black : BOOLEAN] :
      /\ t.kind \in Kind /\ t.id \in 1..MaxId
      /\ t.kind = "Takeover" => t.owner # chain[t.id].owner
      /\ t.kind = "CreateSubdomain" => chain[t.parent].subs + 1 # SubMark }

-----------------------------------------------------------------------------
(* The copy of a domain: what the contract said of it, and its records     *)
(* decoded.                                                                *)

NewDomain(d) == [d |-> d, records |-> d.recs]
Loaded(chain) == [i \in DOMAIN chain |-> NewDomain(chain[i])]

\* What an event's handler makes of the copy.
\* Mutant of WithRecords: the decoded records are not renewed.
WithRecordsRaw(c, e) == [c EXCEPT !.d.recs = e.recs]
WithRecords(c, e) == [d |-> [c.d EXCEPT !.recs = e.recs], records |-> e.recs]
TakenOver(c, e) == [c EXCEPT !.d = [@ EXCEPT !.owner = e.owner, !.recs = e.recs]]
Counted(doms, i, d) == [doms EXCEPT ![i].d.subs = (@ + d - 1) % 256]
Subdomain(doms, e) == NewDomain(Dom(e.parent, e.recs, SubMark, doms[e.parent].d.black))
\* Mutant of Removed: the parent keeps its count.
RemovedAlone(doms, e) == Without(doms, e.id)
Removed(doms, e) ==
  LET c == doms[e.id].d
      rest == Without(doms, e.id)
  IN IF c.subs = SubMark /\ c.owner \in DOMAIN rest THEN Counted(rest, c.owner, 0) ELSE rest

\* A handler that does not know the domain, or the parent of a subdomain, bails.
Bails(doms, e) ==
  CASE e.kind = "Register" -> FALSE
    [] e.kind = "CreateSubdomain" -> e.parent \notin DOMAIN doms
    [] e.kind = "Destroy" ->
         \/ e.id \notin DOMAIN doms
         \/ doms[e.id].d.subs = SubMark /\ doms[e.id].d.owner \notin DOMAIN doms \ {e.id}
    [] OTHER -> e.id \notin DOMAIN doms

Applied(doms, e) ==
  CASE e.kind = "Register" -> With(doms, e.id, NewDomain(Dom(e.owner, e.recs, 0, FALSE)))
    [] e.kind = "CreateSubdomain" /\ ~Bails(doms, e) ->
         With(Counted(doms, e.parent, 2), e.id, Subdomain(doms, e))
    [] e.kind = "Destroy" /\ e.id \in DOMAIN doms -> Removed(doms, e)
    [] e.kind = "UpdateRecords" /\ ~Bails(doms, e) -> [doms EXCEPT ![e.id] = WithRecords(@, e)]
    [] e.kind = "Takeover" /\ ~Bails(doms, e) -> [doms EXCEPT ![e.id] = TakenOver(@, e)]
    [] e.kind = "Blacklist" /\ ~Bails(doms, e) -> [doms EXCEPT ![e.id].d.black = e.black]
    [] OTHER -> doms

-----------------------------------------------------------------------------
Init ==
  /\ past = <<<<>>>>
  /\ queue = [k \in Kind |-> <<>>]
  /\ mode = "Errored" /\ domains = <<>> /\ loader = Main
  /\ pc = [t \in Task |-> IF t = Main THEN "begin" ELSE "unborn"]
  /\ on = [t \in Task |-> Main]
  /\ event = [k \in Kind |-> <<>>]
  /\ snap = [t \in Task |-> <<>>]
  /\ failed = 0
  /\ at = Astray

\* A transaction of the contract; the event is lost while nobody listens.
Transact ==
  /\ Len(past) <= MaxTx
  /\ \E t \in Tx(Last(past)) :
       /\ past' = Append(past, After(Last(past), t))
       /\ \E heard \in BOOLEAN :
            /\ heard => pc[Main] = "done"
            /\ queue' = IF heard
                        THEN [queue EXCEPT ![t.kind] = Append(@, [t |-> t, nr |-> Len(past)])]
                        ELSE queue
  /\ UNCHANGED <<mode, domains, loader, pc, on, event, snap, failed, at>>

\* A task of a filter takes the next event, a query comes in: with_domains is called.
TakeEvent(k) ==
  /\ pc[k] = "idle" /\ queue[k] # <<>>
  /\ event' = [event EXCEPT ![k] = Head(queue[k])]
  /\ queue' = [queue EXCEPT ![k] = Tail(@)]
  /\ pc' = [pc EXCEPT ![k] = "call"]
  /\ UNCHANGED <<past, mode, domains, loader, snap, failed, at, on>>

Query(q) ==
  /\ pc[q] = "idle"
  /\ pc' = [pc EXCEPT ![q] = "call"]
  /\ UNCHANGED <<past, queue, mode, domains, loader, event, snap, failed, at, on>>

\* with_domains finds the copy being loaded, and subscribes to the loader's end ...
Wait(t) ==
  /\ pc[t] = "call" /\ mode = "Updating"
  /\ pc' = [pc EXCEPT ![t] = "wait"]
  /\ on' = [on EXCEPT ![t] = loader]
  /\ UNCHANGED <<past, queue, mode, domains, loader, event, snap, failed, at>>

\* ... finds it in error, and will load it ...
Decide(t) ==
  /\ pc[t] = "call" /\ mode = "Errored"
  /\ pc' = [pc EXCEPT ![t] = "begin"]
  /\ UNCHANGED <<past, queue, mode, domains, loader, event, snap, failed, at, on>>

\* ... or uses it: a query reads, an event changes it.
Answer(q) ==
  /\ pc[q] = "call" /\ mode = "Domains"
  /\ pc' = [pc EXCEPT ![q] = "idle"]
  /\ UNCHANGED <<past, queue, mode, domains, loader, event, snap, failed, at, on>>

Apply(k) ==
  /\ pc[k] = "call" /\ mode = "Domains"
  /\ domains' = Applied(domains, event[k].t)
  /\ at' = IF event[k].nr = at + 1 /\ at # Astray THEN at + 1 ELSE Astray
  /\ pc' = [pc EXCEPT ![k] = IF Bails(domains, event[k].t) THEN "err" ELSE "idle"]
  /\ event' = IF Bails(domains, event[k].t) THEN event ELSE [event EXCEPT ![k] = <<>>]
  /\ UNCHANGED <<past, queue, mode, loader, snap, failed, on>>

\* handle_err puts the copy in error, whatever has become of it since.
HandleErr(k) ==
  /\ pc[k] = "err"
  /\ mode' = "Errored" /\ domains' = <<>> /\ at' = Astray
  /\ pc' = [pc EXCEPT ![k] = "idle"]
  /\ event' = [event EXCEPT ![k] = <<>>]
  /\ UNCHANGED <<past, queue, loader, snap, failed, on>>

-----------------------------------------------------------------------------
(* update_all_domains, in its steps.                                       *)

BeginLoad(t) ==
  /\ pc[t] = "begin"
  /\ mode' = "Updating" /\ loader' = t /\ domains' = <<>> /\ at' = Astray
  /\ pc' = [pc EXCEPT ![t] = "load"]
  /\ UNCHANGED <<past, queue, event, snap, failed, on>>

Read(t) ==
  /\ pc[t] = "load"
  /\ snap' = [snap EXCEPT ![t] = <<Len(past) - 1>>]
  /\ pc' = [pc EXCEPT ![t] = "loaded"]
  /\ UNCHANGED <<past, queue, mode, domains, loader, event, failed, at, on>>

\* Dropping the sender wakes whoever subscribed to it.
Wake(t, next) ==
  LET waiting == { u \in Task : pc[u] = "wait" /\ on[u] = t }
  IN /\ pc' = [u \in Task |-> IF u = t THEN next ELSE IF u \in waiting THEN "call" ELSE pc[u]]
     /\ on' = [u \in Task |-> IF u \in waiting THEN Main ELSE on[u]]

FinishLoad(t) ==
  /\ pc[t] = "loaded"
  /\ mode' = "Domains"
  /\ domains' = Loaded(past[snap[t][1] + 1])
  /\ at' = snap[t][1]
  /\ snap' = [snap EXCEPT ![t] = <<>>]
  /\ IF t = Main
     THEN pc' = [u \in Task |-> IF u = Main THEN "done" ELSE "idle"] /\ UNCHANGED on
     ELSE Wake(t, "call")
  /\ UNCHANGED <<past, queue, loader, event, failed>>

\* Mutant of FailLoad: the error leaves before the copy is marked.
FailLoadEarly(t) ==
  /\ pc[t] = "load" /\ failed < MaxFailed
  /\ failed' = failed + 1
  /\ Wake(t, IF t \in Kind THEN "err" ELSE IF t = Main THEN "stopped" ELSE "idle")
  /\ UNCHANGED <<past, queue, mode, domains, loader, event, snap, at>>

\* read_eth gives up.  An event's task goes on to handle_err, a query is answered ServFail;
\* when it is the first load, the server does not start.
FailLoad(t) ==
  /\ pc[t] = "load" /\ failed < MaxFailed
  /\ failed' = failed + 1
  /\ mode' = "Errored" /\ domains' = <<>> /\ at' = Astray
  /\ Wake(t, IF t \in Kind THEN "err" ELSE IF t = Main THEN "stopped" ELSE "idle")
  /\ UNCHANGED <<past, queue, loader, event, snap>>

-----------------------------------------------------------------------------
TaskNext(t) ==
  \/ Wait(t) \/ Decide(t) \/ BeginLoad(t) \/ Read(t) \/ FinishLoad(t)
  \/ t \in Queries /\ Answer(t)
  \/ t \in Kind /\ (TakeEvent(t) \/ Apply(t) \/ HandleErr(t))

Next ==
  \/ Transact
  \/ \E q \in Queries : Query(q)
  \/ \E t \in Task : TaskNext(t) \/ FailLoad(t)

Spec == Init /\ [][Next]_vars

-----------------------------------------------------------------------------
\* The steps of the tasks, and what the counts of struct Domain hold.
TypeOK ==
  /\ mode \in {"Errored", "Updating", "Domains"}
  /\ loader \in Task /\ failed \in 0..MaxFailed /\ at \in 0..MaxTx + 1
  /\ on \in [Task -> Task]
  /\ pc \in [Task -> {"unborn", "idle", "call", "wait", "begin", "load", "loaded", "err",
                     "done", "stopped"}]
  /\ \A i \in DOMAIN domains :
       domains[i].records \in 1..MaxTx /\ domains[i].d.subs \in 0..MaxId \cup {SubMark}

\* As long as the events since a load come in the order of their transactions, the copy is
\* what the contract was after the last of them.  (lib.rs: the handlers of the filters)
InStep ==
  (mode = "Domains" /\ at # Astray) =>
    /\ DOMAIN domains = DOMAIN past[at + 1]
    /\ \A i \in DOMAIN domains : domains[i].d = past[at + 1][i]

\* The decoded records are those of the domain, but after a takeover, which leaves the old
\* owner's.  (lib.rs: update_records, filter_takeover)
RecordsFollow ==
  \A i \in DOMAIN domains :
    domains[i].records # domains[i].d.recs =>
      \E n \in 1..Len(past) - 1 :
        i \in DOMAIN past[n] \cap DOMAIN past[n + 1] /\ past[n][i].owner # past[n + 1][i].owner

\* Whoever waits, waits for a task that is loading, so that its end will wake it.
\* (lib.rs: with_domains, update_all_domains)
LoaderAlive ==
  /\ mode = "Updating" => pc[loader] \in {"load", "loaded"}
  /\ \A t \in Task : pc[t] = "wait" => pc[on[t]] \in {"load", "loaded"}
=============================================================================
