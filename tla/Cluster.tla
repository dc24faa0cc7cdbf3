------------------------------- MODULE Cluster -------------------------------
(***************************************************************************)
(* How the raft configuration follows the serf cluster: the event handler  *)
(* of discovery/membership.go on every node, which calls Join and Leave of *)
(* distributed/distributed.go.  Every node gets every event, once, in the  *)
(* order of its own channel; only the raft leader can act on it.           *)
(*                                                                         *)
(* Serf and raft are external.  Serf delivers an event for each change to  *)
(* all members.  Raft changes its configuration on the leader only, while  *)
(* a majority of the servers is up, and refuses a configuration in which   *)
(* an address occurs twice or no server is left.                           *)
(***************************************************************************)
EXTENDS Naturals, Sequences, FiniteSets

CONSTANTS
    Node,           \* node names, which are also raft server IDs
    Addresses(_),   \* the addresses a node may come up with
    Bootstrap,      \* the node that bootstraps the cluster
    LocalAddr,      \* its listener's address, which is not its rpc_addr
    NoAddr,         \* "not a member"
    NoNode,         \* "no leader"
    MaxChanges,     \* bound: changes of the serf membership
    MaxElections    \* bound: elections after the first

ASSUME ClusterAssumption ==
    /\ IsFiniteSet(Node)
    /\ Bootstrap \in Node
    /\ NoNode \notin Node
    /\ NoAddr # LocalAddr /\ \A n \in Node : NoAddr \notin Addresses(n)
    /\ MaxChanges \in Nat /\ MaxElections \in Nat

VARIABLES
    up,         \* nodes whose process runs
    serf,       \* the address of each live serf member
    events,     \* Membership.events of each node
    handler,    \* what the eventHandler of each node is doing
    config,     \* the address of each server of the raft configuration
    leader,     \* the raft leader
    changes, elections      \* how often the bounded actions were taken

vars == <<up, serf, events, handler, config, leader, changes, elections>>

Addr == (UNION {Addresses(n) : n \in Node}) \cup {LocalAddr}
Event == [type : {"join", "leave"}, name : Node, addr : Addr]

Idle == [pc |-> "idle", name |-> Bootstrap, addr |-> NoAddr, removals |-> 0]

Members == {n \in Node : serf[n] # NoAddr}
Servers == {n \in Node : config[n] # NoAddr}

Init ==
    /\ up = {Bootstrap}
    /\ serf \in {[n \in Node |-> IF n = Bootstrap THEN a ELSE NoAddr] :
                    a \in Addresses(Bootstrap)}
    /\ events = [n \in Node |-> <<>>]
    /\ handler = [n \in Node |-> Idle]
    /\ config = [n \in Node |-> IF n = Bootstrap THEN LocalAddr ELSE NoAddr]
    /\ leader = Bootstrap
    /\ changes = 0
    /\ elections = 0

-----------------------------------------------------------------------------
(* Serf: a node starts and joins; it and the members hear of each other. *)
Start(n, a) ==
    /\ n \notin up
    /\ serf[n] = NoAddr
    /\ \A m \in up : a \in Addresses(m) => serf[m] \notin {a, NoAddr}   \* a is free
    /\ changes < MaxChanges
    /\ changes' = changes + 1
    /\ up' = up \cup {n}
    /\ serf' = [serf EXCEPT ![n] = a]
    /\ LET join(m) == [type |-> "join", name |-> m, addr |-> serf'[m]]
       IN  \E others \in {s \in [1 .. Cardinality(Members) -> Members] :
                             \A i, j \in DOMAIN s : s[i] = s[j] => i = j} :
              events' = [m \in Node |->
                  IF m = n THEN <<join(n)>> \o [i \in DOMAIN others |-> join(others[i])]
                  ELSE IF m \in Members THEN Append(events[m], join(n))
                  ELSE events[m]]
    /\ UNCHANGED <<handler, config, leader, elections>>

(* Membership.Leave, the first step of a shutdown: all members are told. *)
Leave(n) ==
    /\ n \in Members
    /\ changes < MaxChanges
    /\ changes' = changes + 1
    /\ serf' = [serf EXCEPT ![n] = NoAddr]
    /\ events' = [m \in Node |->
          IF m \in Members THEN Append(events[m], [type |-> "leave", name |-> n, addr |-> serf[n]])
          ELSE events[m]]
    /\ UNCHANGED <<up, handler, config, leader, elections>>

(* The process of a node that has left ends, and its raft with it. *)
Stop(n) ==
    /\ n \in up
    /\ n \notin Members
    /\ up' = up \ {n}
    /\ events' = [events EXCEPT ![n] = <<>>]
    /\ handler' = [handler EXCEPT ![n] = Idle]
    /\ leader' = IF leader = n THEN NoNode ELSE leader
    /\ UNCHANGED <<serf, config, changes, elections>>

(* The process dies; serf finds out and tells the other members. *)
Fail(n) ==
    /\ n \in up
    /\ n \in Members
    /\ changes < MaxChanges
    /\ changes' = changes + 1
    /\ up' = up \ {n}
    /\ serf' = [serf EXCEPT ![n] = NoAddr]
    /\ events' = [m \in Node |->
          IF m = n THEN <<>>
          ELSE IF m \in Members
               THEN Append(events[m], [type |-> "leave", name |-> n, addr |-> serf[n]])
               ELSE events[m]]
    /\ handler' = [handler EXCEPT ![n] = Idle]
    /\ leader' = IF leader = n THEN NoNode ELSE leader
    /\ UNCHANGED <<config, elections>>

-----------------------------------------------------------------------------
(* Raft: majorities, elections and steps down. *)
Majority(S) == 2 * Cardinality(S \cap up) > Cardinality(S)

Elect(n) ==
    /\ leader = NoNode
    /\ n \in up \cap Servers
    /\ Majority(Servers)
    /\ elections < MaxElections
    /\ elections' = elections + 1
    /\ leader' = n
    /\ UNCHANGED <<up, serf, events, handler, config, changes>>

StepDown ==
    /\ leader # NoNode
    /\ elections < MaxElections \/ ~Majority(Servers)
    /\ leader' = NoNode
    /\ UNCHANGED <<up, serf, events, handler, config, changes, elections>>

(* A configuration change that raft commits, or refuses. *)
CanChange(n) == n \in up /\ leader = n /\ Majority(Servers)

Valid(c) ==
    /\ \E n \in Node : c[n] # NoAddr
    /\ \A n, m \in Node : c[n] # NoAddr /\ c[n] = c[m] => n = m

-----------------------------------------------------------------------------
Become(n, pc, removals) == [handler[n] EXCEPT !.pc = pc, !.removals = removals]

(* A faulty eventHandler without the case for members that left or failed. *)
TakeJoinsOnly(n) ==
    /\ n \in up
    /\ handler[n].pc = "idle"
    /\ events[n] # <<>>
    /\ events' = [events EXCEPT ![n] = Tail(@)]
    /\ LET e == Head(events[n])
       IN  handler' = IF e.name = n \/ e.type = "leave" THEN handler
                      ELSE [handler EXCEPT ![n] = [pc |-> e.type, name |-> e.name,
                                                   addr |-> e.addr, removals |-> 0]]
    /\ UNCHANGED <<up, serf, config, leader, changes, elections>>

(* A faulty eventHandler that looks for its own name in joins only. *)
TakeLocalLeave(n) ==
    /\ n \in up
    /\ handler[n].pc = "idle"
    /\ events[n] # <<>>
    /\ events' = [events EXCEPT ![n] = Tail(@)]
    /\ LET e == Head(events[n])
       IN  handler' = IF e.name = n /\ e.type = "join" THEN handler
                      ELSE [handler EXCEPT ![n] = [pc |-> e.type, name |-> e.name,
                                                   addr |-> e.addr, removals |-> 0]]
    /\ UNCHANGED <<up, serf, config, leader, changes, elections>>

(* eventHandler takes an event, and skips it if it is about its own node. *)
Take(n) ==
    /\ n \in up
    /\ handler[n].pc = "idle"
    /\ events[n] # <<>>
    /\ events' = [events EXCEPT ![n] = Tail(@)]
    /\ LET e == Head(events[n])
       IN  handler' = IF e.name = n THEN handler
                      ELSE [handler EXCEPT ![n] = [pc |-> e.type, name |-> e.name,
                                                   addr |-> e.addr, removals |-> 0]]
    /\ UNCHANGED <<up, serf, config, leader, changes, elections>>

(* A faulty Join that takes a server with the ID or the address for the same. *)
JoinReadsEither(n) ==
    /\ handler[n].pc = "join"
    /\ LET id      == handler[n].name
           addr    == handler[n].addr
       IN  handler' = [handler EXCEPT ![n] =
              IF \E m \in Servers : m = id \/ config[m] = addr THEN Idle
              ELSE Become(n, "add", 0)]
    /\ UNCHANGED <<up, serf, events, config, leader, changes, elections>>

(***************************************************************************)
(* Join reads the configuration.  It has nothing to do when the server is  *)
(* there with this address; otherwise it will call RemoveServer once for   *)
(* each server with the ID or the address, and then AddVoter.              *)
(***************************************************************************)
JoinReads(n) ==
    /\ handler[n].pc = "join"
    /\ LET id      == handler[n].name
           addr    == handler[n].addr
           matches == {m \in Servers : m = id \/ config[m] = addr}
       IN  handler' = [handler EXCEPT ![n] =
              IF config[id] = addr THEN Idle
              ELSE IF matches # {} THEN Become(n, "remove", Cardinality(matches))
              ELSE Become(n, "add", 0)]
    /\ UNCHANGED <<up, serf, events, config, leader, changes, elections>>

(* A faulty Join that goes round the loop once too often. *)
JoinRemovesPast(n) ==
    /\ handler[n].pc = "remove"
    /\ CanChange(n)
    /\ config' = [config EXCEPT ![handler[n].name] = NoAddr]
    /\ handler' = [handler EXCEPT ![n] = Become(n, "remove", handler[n].removals - 1)]
    /\ UNCHANGED <<up, serf, events, leader, changes, elections>>

(***************************************************************************)
(* RemoveServer(id) in Join: id is the joining node's, whichever server    *)
(* was found.                                                              *)
(***************************************************************************)
JoinRemoves(n) ==
    /\ handler[n].pc = "remove"
    /\ CanChange(n)
    /\ LET c == [config EXCEPT ![handler[n].name] = NoAddr]
           k == handler[n].removals - 1
       IN  /\ config' = IF Valid(c) THEN c ELSE config
           /\ handler' = [handler EXCEPT ![n] =
                 IF ~Valid(c) THEN Idle
                 ELSE IF k = 0 THEN Become(n, "add", 0)
                 ELSE Become(n, "remove", k)]
    /\ UNCHANGED <<up, serf, events, leader, changes, elections>>

JoinAdds(n) ==
    /\ handler[n].pc = "add"
    /\ CanChange(n)
    /\ LET c == [config EXCEPT ![handler[n].name] = handler[n].addr]
       IN  config' = IF Valid(c) THEN c ELSE config
    /\ handler' = [handler EXCEPT ![n] = Idle]
    /\ UNCHANGED <<up, serf, events, leader, changes, elections>>

LeaveRemoves(n) ==
    /\ handler[n].pc = "leave"
    /\ CanChange(n)
    /\ LET c == [config EXCEPT ![handler[n].name] = NoAddr]
       IN  config' = IF Valid(c) THEN c ELSE config
    /\ handler' = [handler EXCEPT ![n] = Idle]
    /\ UNCHANGED <<up, serf, events, leader, changes, elections>>

(* On any other node than the leader the call fails; the event is lost. *)
NotLeader(n) ==
    /\ handler[n].pc \in {"remove", "add", "leave"}
    /\ leader # n
    /\ handler' = [handler EXCEPT ![n] = Idle]
    /\ UNCHANGED <<up, serf, events, config, leader, changes, elections>>

Handle(n) ==
    Take(n) \/ JoinReads(n) \/ JoinRemoves(n) \/ JoinAdds(n) \/ LeaveRemoves(n) \/ NotLeader(n)

Next ==
    \/ \E n \in Node : (\E a \in Addresses(n) : Start(n, a)) \/ Leave(n) \/ Stop(n) \/ Fail(n)
    \/ \E n \in Node : Elect(n)
    \/ StepDown
    \/ \E n \in Node : Handle(n)

(***************************************************************************)
(* A running event handler goes on, a node that has left does end, and a   *)
(* leader without a majority steps down when its lease expires.            *)
(***************************************************************************)
Fairness ==
    /\ \A n \in Node : WF_vars(Handle(n)) /\ WF_vars(Stop(n))
    /\ WF_vars(StepDown /\ ~Majority(Servers))

Spec == Init /\ [][Next]_vars /\ Fairness

-----------------------------------------------------------------------------
(* Every variable holds a value of its kind. *)
TypeOK ==
    /\ up \subseteq Node
    /\ serf \in [Node -> Addr \cup {NoAddr}]
    /\ events \in [Node -> Seq(Event)]
    /\ handler \in [Node -> [pc : {"idle", "join", "remove", "add", "leave"}, name : Node,
                             addr : Addr \cup {NoAddr}, removals : Nat]]
    /\ config \in [Node -> Addr \cup {NoAddr}]
    /\ leader \in Node \cup {NoNode}
    /\ changes \in 0 .. MaxChanges /\ elections \in 0 .. MaxElections

(* No leader removes itself: it skips the events about its own node, and no
   sequence of joins and leaves makes it call RemoveServer for itself. *)
LeaderIsServer == leader # NoNode => leader \in Servers

(* While one node leads, the raft configuration comes to agree with the serf
   members and their addresses once these stop changing.  (The leader's own
   entry keeps the address it bootstrapped with.) *)
Converges ==
    [](leader = Bootstrap) => <>[](\A n \in Node \ {Bootstrap} : config[n] = serf[n])

(* A server with the joining node's ID or address "may need to be removed from
   the config first", so that the join is not refused: when the leader has
   handled a join and still leads, the configuration has that server. *)
JoinSucceeds ==
    [][\A n \in Node :
          /\ handler[n].pc \in {"join", "remove", "add"}
          /\ handler'[n].pc = "idle"
          /\ leader = n /\ leader' = n
          => config'[handler[n].name] = handler[n].addr]_vars
=============================================================================
