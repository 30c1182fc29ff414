----------------------------- MODULE LinkState ------------------------------
(***************************************************************************)
(* The samples of one link: taken by a node every timeslot, sent to the    *)
(* supernode in the link state entities of its announcements, put into a   *)
(* ring by the parser (cjdns-ann serialized_ann.rs parse_link_state) and   *)
(* given back their timeslots by link_state_update1 (server.rs).           *)
(*                                                                         *)
(* The node is external: it samples once per timeslot, announces in the    *)
(* slot of its newest sample, sends the samples since its last report (at  *)
(* most the newest Slots of them, oldest first) and names with             *)
(* starting_point the ring index of the oldest.                            *)
(***************************************************************************)
EXTENDS Integers, Sequences, FiniteSets

CONSTANTS Slots,    \* LINK_STATE_SLOTS
          Window,   \* AGREED_TIMEOUT in timeslots
          Sample,   \* what a sample can be
          MaxLag,   \* bound on the samples a node takes without reporting
          MaxSlot,  \* bound on the timeslots
          None      \* Option::None

ASSUME SlotsAssumption == Slots \in Nat \ {0} /\ Window \in Nat /\ Slots <= Window
ASSUME LinkBoundsAssumption == MaxLag \in Nat /\ MaxSlot \in Nat
ASSUME LinkNoneAssumption == None \notin Sample

VARIABLES taken,    \* the node's samples; the n-th was taken in timeslot n
          reported, \* timeslot of the newest sample that was reported
          state,    \* Link.link_state: timeslot -> sample
          recent,   \* most_recent_ls_slot
          decayed   \* timeslots by which Link.value has been decayed in all

vars == <<taken, reported, state, recent, decayed>>

Clock == Len(taken)

Init ==
  /\ taken = <<>> /\ reported = 0 /\ state = <<>>
  /\ recent = 0 /\ decayed = 0

\* The node takes the sample of a new timeslot.
TakeSample(v) ==
  /\ Clock < MaxSlot /\ Clock - reported < MaxLag
  /\ taken' = Append(taken, v)
  /\ UNCHANGED <<reported, state, recent, decayed>>

\* parse_link_state: the ring, filled from the starting point on.
Ring(sp, samples) ==
  [i \in 0..(Slots - 1) |->
     LET here == { n \in DOMAIN samples : (sp + n - 1) % Slots = i } IN
     IF here = {} THEN None ELSE samples[CHOOSE n \in here : \A m \in here : m <= n]]

\* Mutant of Walk: the walk starts at the starting point.
WalkFromStart(sp) == [j \in 1..(Slots - 1) |-> (sp - j + 1) % Slots]

\* Mutant of Walk: the walk turns round one index early.
WalkShort(sp) == [j \in 1..(Slots - 2) |-> (sp - j) % Slots]

\* Indices in the order of the walk: back from the starting point, looping at the
\* end, until it is back at the starting point.
Walk(sp) == [j \in 1..(Slots - 1) |-> (sp - j) % Slots]

\* Steps of the walk that meet a sample; only they move the time back.
Hits(ring, sp) == { j \in DOMAIN Walk(sp) : ring[Walk(sp)[j]] # None }

\* Mutant of TimeOf: empty slots move the time back as well.
TimeOfEvery(ring, sp, ts, j) == ts - (j - 1)

TimeOf(ring, sp, ts, j) == ts - Cardinality({ i \in Hits(ring, sp) : i < j })

\* What the walk inserts into link_state.
Walked(ring, sp, ts) ==
  [t \in { TimeOf(ring, sp, ts, j) : j \in Hits(ring, sp) } |->
     ring[Walk(sp)[CHOOSE j \in Hits(ring, sp) : TimeOf(ring, sp, ts, j) = t]]]

\* Mutant of Kept: nothing is dropped for age.
KeptAll(ts) == DOMAIN state

\* Timeslots of link_state that are not dropped for age.
Kept(ts) == { t \in DOMAIN state : t >= ts - Window }

\* An announcement with the samples since the last report arrives and is handled.
Report ==
  LET ts == Clock
      n == IF Clock - reported < Slots THEN Clock - reported ELSE Slots
      sp == (ts - n) % Slots
      new == Walked(Ring(sp, SubSeq(taken, ts - n + 1, ts)), sp, ts) IN
  /\ Clock > reported
  /\ reported' = ts
  /\ state' = [t \in Kept(ts) \cup DOMAIN new |-> IF t \in DOMAIN new THEN new[t] ELSE state[t]]
  /\ decayed' = IF recent > ts THEN decayed + (recent - ts) ELSE decayed
  /\ recent' = ts
  /\ UNCHANGED taken

Next == (\E v \in Sample : TakeSample(v)) \/ Report

Spec == Init /\ [][Next]_vars

-----------------------------------------------------------------------------
\* What is recorded are samples, of timeslots up to now.
TypeOK ==
  /\ taken \in Seq(Sample) /\ reported \in 0..Clock /\ recent \in 0..Clock /\ decayed \in Nat
  /\ DOMAIN state \subseteq 1..Clock /\ \A t \in DOMAIN state : state[t] \in Sample

\* Every sample the supernode records is the one the node took in that very timeslot,
\* however many samples the reports carry and wherever in the ring they start.
RightSlot == \A t \in DOMAIN state : t \in DOMAIN taken /\ state[t] = taken[t]

\* The record of a link never reaches further back than AGREED_TIMEOUT, nor ahead of
\* the last report.
InWindow == \A t \in DOMAIN state : recent - Window <= t /\ t <= recent

\* The samples of a link are of their type, each in the timeslot it was taken in, and none of them
\* older than the window.  (link_state_update1)
SamplesInPlace == TypeOK /\ RightSlot /\ InWindow

\* A report records all of its samples except the oldest one.
AllButOldest ==
  [][reported' # reported =>
       \A t \in DOMAIN taken : (t > reported + 1 /\ t > Clock - Slots + 1) => t \in DOMAIN state']_vars

\* What the comment on LINK_STATE_SLOTS promises: a node that reports before Slots
\* samples have gone by loses none of them.
NoSampleLost == \A t \in 1..reported : t >= recent - Window => t \in DOMAIN state

\* What the comment on DECAY_PER_TIMESLOT promises: when time has gone by between two
\* reports, the value a link has from samples recorded before decays.
ValueDecays ==
  [][(recent' > recent /\ \E t \in DOMAIN state : state[t] # 0) => decayed' > decayed]_vars
=============================================================================
