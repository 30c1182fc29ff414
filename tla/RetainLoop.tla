----------------------------- MODULE RetainLoop -----------------------------
(***************************************************************************)
(* The retain loop of add_announcement (server.rs) as the code runs it,    *)
(* one announcement of the node's list after the other, newest first,      *)
(* against the declarative reading of it in Announcements that the model   *)
(* of the handler uses.                                                    *)
(***************************************************************************)
EXTENDS Announcements, SequencesExt

CONSTANTS Ann,     \* the announcements of a node that may arrive, in any order
          MaxAdds  \* bound on how many arrive

ASSUME RetainAssumption == Ann \subseteq Announcement

VARIABLES anns,      \* node_mut.announcements
          adds,      \* announcements added so far
          ann,       \* the announcement being added
          before,    \* the list it met
          visits,    \* announcements the loop has yet to visit
          announced, \* entities_announced
          dropped    \* drop_announce

retainVars == <<anns, adds, ann, before, visits, announced, dropped>>

RetainInit ==
  /\ anns = <<>> /\ adds = 0 /\ before = <<>> /\ visits = <<>>
  /\ ann \in Ann /\ announced = <<>> /\ dropped = <<>>

\* insert(0, ann): the loop is about to run over the list with ann in front.
Insert(a) ==
  /\ visits = <<>> /\ adds < MaxAdds
  /\ adds' = adds + 1 /\ ann' = a /\ before' = anns
  /\ visits' = <<a>> \o anns /\ anns' = <<>> /\ announced' = <<>> /\ dropped' = <<>>

Expire ==
  /\ visits # <<>> /\ Expired(Head(visits), ann)
  /\ dropped' = Append(dropped, Head(visits))
  /\ visits' = Tail(visits)
  /\ UNCHANGED <<anns, adds, ann, before, announced>>

\* An entity is announced unless it is ephemeral or what was announced before replaces it.
Announce(seen, e) ==
  IF IsEphemeral(e) \/ \E je \in ToSet(seen) : IsReplacement(e, je) THEN seen ELSE Append(seen, e)

\* The loop over the entities of an announcement.
AnnounceAll(seen, a) ==
  LET upTo[k \in 0..Len(a.entities)] == IF k = 0 THEN seen ELSE Announce(upTo[k - 1], a.entities[k])
  IN  upTo[Len(a.entities)]

\* Mutant of Visit: the announcement of this call is kept only if it announces something.
VisitStrict ==
  LET a == Head(visits)
      seen == AnnounceAll(announced, a)
      keep == seen # announced IN
  /\ visits # <<>> /\ ~Expired(a, ann)
  /\ announced' = seen
  /\ anns' = IF keep THEN Append(anns, a) ELSE anns
  /\ dropped' = IF keep THEN dropped ELSE Append(dropped, a)
  /\ visits' = Tail(visits)
  /\ UNCHANGED <<adds, ann, before>>

\* Mutant of Visit: the entities of dropped announcements count, those kept do not.
VisitForgetful ==
  LET a == Head(visits)
      keep == AnnounceAll(announced, a) # announced \/ a = ann IN
  /\ visits # <<>> /\ ~Expired(a, ann)
  /\ announced' = announced
  /\ anns' = IF keep THEN Append(anns, a) ELSE anns
  /\ dropped' = IF keep THEN dropped ELSE Append(dropped, a)
  /\ visits' = Tail(visits)
  /\ UNCHANGED <<adds, ann, before>>

\* One iteration for an announcement that has not expired.
Visit ==
  LET a == Head(visits)
      seen == AnnounceAll(announced, a)
      keep == seen # announced \/ a = ann IN
  /\ visits # <<>> /\ ~Expired(a, ann)
  /\ announced' = seen
  /\ anns' = IF keep THEN Append(anns, a) ELSE anns
  /\ dropped' = IF keep THEN dropped ELSE Append(dropped, a)
  /\ visits' = Tail(visits)
  /\ UNCHANGED <<adds, ann, before>>

RetainNext == (\E a \in Ann : Insert(a)) \/ Expire \/ Visit

RetainSpec == RetainInit /\ [][RetainNext]_retainVars

-----------------------------------------------------------------------------
\* The list the loop runs over.
Met == <<ann>> \o before

\* When the loop ends, the list and the announcements to drop are those the handler's
\* model takes in one step, for every order of arrival, repeats included.
LoopIsAfterAdd ==
  (visits = <<>> /\ adds > 0) =>
    /\ anns = AfterAdd(before, ann)
    /\ ToSet(dropped) = DroppedByAdd(before, ann)

\* The slot of a node's state an entity fills.
Slot(e) == [kind |-> e.kind, num |-> IF e.kind = "peer" THEN {e.num} ELSE {}]

\* Entity k of announcement i of the list is the newest to fill its slot, of those that
\* have not expired.
Newest(i, k) ==
  /\ ~Expired(Met[i], ann) /\ ~IsEphemeral(Met[i].entities[k])
  /\ \A j \in 1..i : ~Expired(Met[j], ann) =>
       \A m \in DOMAIN Met[j].entities :
         (j = i => m < k) => Slot(Met[j].entities[m]) # Slot(Met[i].entities[k])

NewestValues ==
  UNION { { Met[i].entities[k] : k \in { n \in DOMAIN Met[i].entities : Newest(i, n) } } : i \in DOMAIN Met }

\* Every entity slot filled by an announcement that has not expired is filled by the
\* kept ones, with the value of the announcement that was added last.
LastValueWins ==
  (visits = <<>> /\ adds > 0) =>
    /\ InForce(anns) = NewestValues
    /\ ToSet(announced) = NewestValues

\* The retain loop keeps what the step of the handler's model keeps, the last value of every
\* entity among it.  (add_announcement)
LoopKeepsLast == LoopIsAfterAdd /\ LastValueWins
=============================================================================
