------------------------------ MODULE Tester --------------------------------
(***************************************************************************)
(* The peer tester (cjdns-ptest): its main loop fetches the snode's list,  *)
(* hands the peers that are due to its agents and posts what they found;   *)
(* the agents share one cjdns node, on which they connect to a peer and    *)
(* disconnect again.                                                       *)
(*                                                                         *)
(* External: the snode, of which only the time of a peer's last check      *)
(* matters here, the node and the peers.                                   *)
(***************************************************************************)
EXTENDS Naturals, Sequences, FiniteSets, SequencesExt

CONSTANTS Peers,     \* the snode's list, in order
          Agent,
          Retest,    \* retest_after_minutes
          Window,    \* how long currently_testing keeps a peer (20 minutes)
          Patience,  \* how long an agent waits for a test (5 minutes)
          Attempts,  \* how often it tries (4)
          Cap,       \* the capacity of each channel (512)
          MaxNow     \* bound: the clock

VARIABLES now,
          checked,    \* at the snode: last_check_sec of each peer
          todo,       \* main_loop_cycle: the fetched peers not gone through yet
          nows,       \* its nows
          testing,    \* currently_testing, which is in order of age, as a set
          phase,      \* "idle", "send", "collect" or "post"
          nodes,      \* the results collected
          tasks,      \* the channel to the agents
          results,    \* the channel from the agents
          agent,      \* per agent: what it does
          conn        \* the connections of the node: who made them

vars == <<now, checked, todo, nows, testing, phase, nodes, tasks, results, agent, conn>>

Never == 0 - 1
Nobody == "nobody"
Idle == [at |-> "idle", peer |-> Nobody, sent |-> Never, since |-> Never, attempt |-> 0, res |-> "none"]

Init ==
  /\ now = 0
  /\ checked = [p \in ToSet(Peers) |-> Never]
  /\ todo = <<>> /\ nows = 0 /\ testing = {} /\ phase = "idle" /\ nodes = {}
  /\ tasks = <<>> /\ results = <<>>
  /\ agent = [a \in Agent |-> Idle]
  /\ conn = [p \in ToSet(Peers) |-> Nobody]

\* Time passes while nobody has something to do but wait: no test outlives its patience.
Tick ==
  /\ now < MaxNow
  /\ \A a \in Agent : agent[a].at = "testing" => now < agent[a].since + Patience
  /\ now' = now + 1
  /\ UNCHANGED <<checked, todo, nows, testing, phase, nodes, tasks, results, agent, conn>>

-----------------------------------------------------------------------------
(* main_loop_cycle.                                                        *)

\* Mutant of Pruned: what is to be kept is dropped.
PrunedRecent == { t \in testing : t.since + Window <= now }
Pruned == { t \in testing : t.since + Window > now }

\* What was put in first is the oldest: dropping from the front drops all that is too old.
Fetch ==
  /\ phase = "idle"
  /\ todo' = [i \in DOMAIN Peers |-> [peer |-> Peers[i], check |-> checked[Peers[i]]]]
  /\ nows' = now
  /\ testing' = Pruned
  /\ phase' = "send"
  /\ UNCHANGED <<now, checked, nodes, tasks, results, agent, conn>>

Due(t) == t.check = Never \/ t.check + Retest <= nows
UnderTest(p) == \E t \in testing : t.peer = p

Skip ==
  /\ phase = "send" /\ todo # <<>>
  /\ ~Due(Head(todo)) \/ UnderTest(Head(todo).peer)
  /\ todo' = Tail(todo)
  /\ UNCHANGED <<now, checked, nows, testing, phase, nodes, tasks, results, agent, conn>>

\* The loop waits in send when the channel is full.
Send ==
  /\ phase = "send" /\ todo # <<>>
  /\ Due(Head(todo)) /\ ~UnderTest(Head(todo).peer)
  /\ Len(tasks) < Cap
  /\ tasks' = Append(tasks, [peer |-> Head(todo).peer, sent |-> nows])
  /\ testing' = testing \cup {[peer |-> Head(todo).peer, since |-> nows]}
  /\ todo' = Tail(todo)
  /\ UNCHANGED <<now, checked, nows, phase, nodes, results, agent, conn>>

Sent ==
  /\ phase = "send" /\ todo = <<>>
  /\ phase' = "collect"
  /\ UNCHANGED <<now, checked, todo, nows, testing, nodes, tasks, results, agent, conn>>

Collect ==
  /\ phase = "collect" /\ results # <<>>
  /\ nodes' = nodes \cup {Head(results)}
  /\ results' = Tail(results)
  /\ UNCHANGED <<now, checked, todo, nows, testing, phase, tasks, agent, conn>>

Collected ==
  /\ phase = "collect" /\ results = <<>>
  /\ phase' = IF nodes = {} THEN "idle" ELSE "post"
  /\ UNCHANGED <<now, checked, todo, nows, testing, nodes, tasks, results, agent, conn>>

\* When the post fails, the results it held are lost.
Post ==
  /\ phase = "post"
  /\ \/ checked' = [p \in DOMAIN checked |-> IF \E n \in nodes : n.peer = p THEN now ELSE checked[p]]
     \/ UNCHANGED checked
  /\ nodes' = {}
  /\ phase' = "idle"
  /\ UNCHANGED <<now, todo, nows, testing, tasks, results, agent, conn>>

-----------------------------------------------------------------------------
(* TestAgent::run and test.                                                *)

\* Mutant of Freed: the connections are left.
FreedNone(a) == conn
Freed(a) == [p \in DOMAIN conn |-> IF conn[p] = a THEN Nobody ELSE conn[p]]

Take(a) ==
  /\ agent[a].at = "idle" /\ tasks # <<>>
  /\ agent' = [agent EXCEPT ![a] = [@ EXCEPT !.at = "begin", !.peer = Head(tasks).peer,
                                              !.sent = Head(tasks).sent, !.attempt = 1]]
  /\ tasks' = Tail(tasks)
  /\ UNCHANGED <<now, checked, todo, nows, testing, phase, nodes, results, conn>>

\* After a failure the agent tries again, unless it has often enough.
Ended(a, res) ==
  [agent EXCEPT ![a].at = IF res = "ok" \/ agent[a].attempt >= Attempts THEN "report" ELSE "begin",
                ![a].attempt = IF res = "ok" \/ @ >= Attempts THEN @ ELSE @ + 1,
                ![a].res = res]

\* The agent's connections of before are removed; a peer that is connected cannot be tested.
Begin(a) ==
  /\ agent[a].at = "begin"
  /\ LET p == agent[a].peer IN
       IF Freed(a)[p] # Nobody
       THEN conn' = Freed(a) /\ agent' = Ended(a, "connected")
       ELSE /\ conn' = [Freed(a) EXCEPT ![p] = a]
            /\ agent' = [agent EXCEPT ![a].at = "testing", ![a].since = now]
  /\ UNCHANGED <<now, checked, todo, nows, testing, phase, nodes, tasks, results>>

\* The test ends, well or not, and the connections are removed ...
Finish(a) ==
  /\ agent[a].at = "testing"
  /\ \E res \in {"ok", "bad"} : agent' = Ended(a, res)
  /\ conn' = Freed(a)
  /\ UNCHANGED <<now, checked, todo, nows, testing, phase, nodes, tasks, results>>

\* ... or it takes too long, and they are not.
TimeOut(a) ==
  /\ agent[a].at = "testing" /\ now >= agent[a].since + Patience
  /\ agent' = Ended(a, "timeout")
  /\ UNCHANGED <<now, checked, todo, nows, testing, phase, nodes, tasks, results, conn>>

\* The agent waits in send when the channel is full.
Report(a) ==
  /\ agent[a].at = "report" /\ Len(results) < Cap
  /\ results' = Append(results, [peer |-> agent[a].peer, res |-> agent[a].res])
  /\ agent' = [agent EXCEPT ![a] = [Idle EXCEPT !.res = agent[a].res]]
  /\ UNCHANGED <<now, checked, todo, nows, testing, phase, nodes, tasks, conn>>

Next ==
  \/ Tick \/ Fetch \/ Skip \/ Send \/ Sent \/ Collect \/ Collected \/ Post
  \/ \E a \in Agent : Take(a) \/ Begin(a) \/ Finish(a) \/ TimeOut(a) \/ Report(a)

Spec == Init /\ [][Next]_vars

-----------------------------------------------------------------------------
\* The channels hold at most their capacity, and an agent tries at most its attempts.
TypeOK ==
  /\ Len(tasks) <= Cap /\ Len(results) <= Cap
  /\ \A a \in Agent : /\ agent[a].attempt \in 0..Attempts
                      /\ agent[a].at \in {"idle", "begin", "testing", "report"}
  /\ \A p \in DOMAIN conn : conn[p] \in Agent \cup {Nobody}

\* Two agents have the same peer in hand only when they were given it a window apart - when
\* the first has been at it for longer than currently_testing remembers.
\* (main.rs: main_loop_cycle, TestAgent::run)
SentApart ==
  \A a, b \in Agent :
    (a # b /\ agent[a].peer = agent[b].peer /\ agent[a].peer # Nobody) =>
      agent[a].sent + Window <= agent[b].sent \/ agent[b].sent + Window <= agent[a].sent

\* A connection is there for a test, or its agent's last test was given up.
\* (main.rs: TestAgent::run; cjdns.rs: remove_conns)
ConnectionsUsed ==
  \A p \in DOMAIN conn :
    conn[p] # Nobody =>
      LET a == agent[conn[p]] IN (a.at = "testing" /\ a.peer = p) \/ a.res = "timeout"
=============================================================================
