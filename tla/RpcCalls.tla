------------------------------ MODULE RpcCalls ------------------------------
(***************************************************************************)
(* Reading the chain (cjdns-eth-rpc): a call goes to one of the RPC        *)
(* servers taken for alive, sometimes to one taken for dead, and is        *)
(* repeated at another.  The marks are atomics, shared by the calls of all *)
(* threads: between counting the servers of a type and picking one of      *)
(* them, another call may change a mark.  ethrpc.rs (read_eth) and         *)
(* ethwalletrpc.rs (do_eth) run the same loop over the same marks.         *)
(***************************************************************************)
EXTENDS Naturals, Sequences, FiniteSets, SequencesExt

CONSTANTS Rpcs,     \* the servers, in the order of the configuration
          Call,     \* the calls under way at once
          MaxTries  \* EthRpcConfig.rpc_max_tries

VARIABLES dead,   \* RpcInfo.is_dead of each server
          at,     \* where a call is
          tries,  \* its attempts
          type,   \* whether it is after a dead server
          second, \* whether that is its second choice
          count,  \* the servers of that type it counted
          server, \* the server it asks
          raced   \* whether a mark changed under its selection

vars == <<dead, at, tries, type, second, count, server, raced>>

\* The places of the servers marked d, and the one that comes after n others.
OfType(marks, d) == { i \in DOMAIN Rpcs : marks[Rpcs[i]] = d }
Nth(places, n) == CHOOSE i \in places : Cardinality({ k \in places : k < i }) = n
None == "none"

Init ==
  /\ dead = [r \in ToSet(Rpcs) |-> FALSE]
  /\ at = [c \in Call |-> "idle"]
  /\ tries = [c \in Call |-> 0]
  /\ type = [c \in Call |-> FALSE] /\ second = [c \in Call |-> FALSE]
  /\ count = [c \in Call |-> 0] /\ server = [c \in Call |-> None]
  /\ raced = [c \in Call |-> FALSE]

\* A call begins, or tries again: by chance it prefers the dead.
Attempt(c) ==
  /\ at[c] \in {"idle", "again"}
  /\ at' = [at EXCEPT ![c] = "count"]
  /\ tries' = [tries EXCEPT ![c] = IF at[c] = "idle" THEN 1 ELSE @ + 1]
  /\ \E d \in BOOLEAN : type' = [type EXCEPT ![c] = d]
  /\ second' = [second EXCEPT ![c] = FALSE]
  /\ server' = [server EXCEPT ![c] = None]
  /\ raced' = [raced EXCEPT ![c] = FALSE]
  /\ UNCHANGED <<dead, count>>

\* No server of the type: the other type is tried, then none is available.
CountType(c) ==
  /\ at[c] = "count"
  /\ LET n == Cardinality(OfType(dead, type[c])) IN
       /\ count' = [count EXCEPT ![c] = n]
       /\ at' = [at EXCEPT ![c] = IF n > 0 THEN "pick" ELSE IF second[c] THEN "none" ELSE "count"]
       /\ second' = [second EXCEPT ![c] = @ \/ n = 0]
       /\ type' = [type EXCEPT ![c] = IF n = 0 THEN ~@ ELSE @]
  /\ UNCHANGED <<dead, tries, server, raced>>

\* Mutant of Drawn: the range of the random choice includes its end.
DrawnToEnd(c) == 0..count[c]
Drawn(c) == 0..count[c] - 1

\* The servers of the type are gone through again; the unwrap panics when the choice is not
\* among them any more.
Pick(c) ==
  /\ at[c] = "pick"
  /\ \E choice \in Drawn(c) :
       IF choice < Cardinality(OfType(dead, type[c]))
       THEN /\ server' = [server EXCEPT ![c] = Rpcs[Nth(OfType(dead, type[c]), choice)]]
            /\ at' = [at EXCEPT ![c] = "asked"]
       ELSE at' = [at EXCEPT ![c] = "panic"] /\ UNCHANGED server
  /\ UNCHANGED <<dead, tries, type, second, count, raced>>

\* A mark set while others select races with them.
Mark(c, d) ==
  /\ dead' = [dead EXCEPT ![server[c]] = d]
  /\ raced' = [k \in Call |->
               \/ raced[k]
               \/ dead[server[c]] # d /\ (at[k] = "pick" \/ (at[k] = "count" /\ second[k]))]

Answered(c) ==
  /\ at[c] = "asked"
  /\ Mark(c, FALSE)
  /\ at' = [at EXCEPT ![c] = "idle"]
  /\ UNCHANGED <<tries, type, second, count, server>>

\* An error worth another try marks the server, unless there have been too many.
Failed(c) ==
  /\ at[c] = "asked"
  /\ IF tries[c] > MaxTries
     THEN at' = [at EXCEPT ![c] = "idle"] /\ UNCHANGED <<dead, raced>>
     ELSE at' = [at EXCEPT ![c] = "again"] /\ Mark(c, TRUE)
  /\ UNCHANGED <<tries, type, second, count, server>>

\* An error of the caller's ends the call; ten seconds without an answer mark nobody.
Refused(c) ==
  /\ at[c] = "asked"
  /\ at' = [at EXCEPT ![c] = "idle"]
  /\ UNCHANGED <<dead, tries, type, second, count, server, raced>>

TimedOut(c) ==
  /\ at[c] = "asked"
  /\ at' = [at EXCEPT ![c] = IF tries[c] > MaxTries THEN "idle" ELSE "again"]
  /\ UNCHANGED <<dead, tries, type, second, count, server, raced>>

Next ==
  \E c \in Call :
    Attempt(c) \/ CountType(c) \/ Pick(c) \/ Answered(c) \/ Failed(c) \/ Refused(c) \/ TimedOut(c)

Spec == Init /\ [][Next]_vars

-----------------------------------------------------------------------------
\* The steps of a call, and its attempts, which rpc_max_tries bounds.
TypeOK ==
  /\ at \in [Call -> {"idle", "count", "pick", "asked", "again", "none", "panic"}]
  /\ tries \in [Call -> 0..MaxTries + 1]

\* A call finds no server, or panics, only when another call changed a mark while this one
\* selected: alone, it always finds one.  (ethrpc.rs: rpc, rpc_of_type)
ShortageIsRace ==
  \A c \in Call : at[c] \in {"none", "panic"} => raced[c]
=============================================================================
