---------------------------- MODULE ClusterProofs ----------------------------
(***************************************************************************)
(* Proofs about module Cluster, for every finite set of nodes and every    *)
(* number of membership changes and elections: no leader removes itself,   *)
(* and joins take effect as long as no two nodes use the same address.     *)
(***************************************************************************)
EXTENDS Cluster, FiniteSetTheorems, TLAPS

(* What cluster_shared gives up: an address belongs to one node. *)
NoSharedAddresses ==
    /\ \A n, m \in Node : n # m => Addresses(n) \cap Addresses(m) = {}
    /\ \A n \in Node : LocalAddr \notin Addresses(n)

Known == {e \in Event : e.addr \in Addresses(e.name)}

(* A node is configured with one of its addresses or, if it bootstrapped the
   cluster, with its listener's. *)
ConfigOK(c) ==
    /\ c \in [Node -> Addr \cup {NoAddr}]
    /\ \A n \in Node :
          \/ c[n] = NoAddr
          \/ c[n] \in Addresses(n)
          \/ n = Bootstrap /\ c[n] = LocalAddr

(* A handler that is busy is so with another node than its own. *)
HandlerOK(n) ==
    /\ DOMAIN handler[n] = {"pc", "name", "addr", "removals"}
    /\ handler[n].pc # "idle" =>
          /\ handler[n].name \in Node \ {n}
          /\ handler[n].addr \in Addresses(handler[n].name)

(* The inductive invariant. *)
CInv ==
    /\ \A n \in Node : serf[n] \in Addresses(n) \cup {NoAddr}
    /\ serf \in [Node -> Addr \cup {NoAddr}]
    /\ events \in [Node -> Seq(Known)]
    /\ DOMAIN handler = Node /\ \A n \in Node : HandlerOK(n)
    /\ ConfigOK(config)
    /\ leader \in Node \cup {NoNode}
    /\ LeaderIsServer

-----------------------------------------------------------------------------
(* The address of the listener is an address. *)
LEMMA LocalIsAddr == LocalAddr \in Addr
  BY DEF Addr

USE ClusterAssumption

(* An address of a node is an address, and not NoAddr. *)
LEMMA AddressIsAddr ==
  ASSUME NEW n \in Node, NEW a \in Addresses(n)
  PROVE  a \in Addr /\ a # NoAddr
<1>1. Addresses(n) \in {Addresses(m) : m \in Node}
  OBVIOUS
<1>2. QED
  BY <1>1 DEF Addr

(* The concatenation of two sequences. *)
LEMMA ConcatType ==
  ASSUME NEW S, NEW s \in Seq(S), NEW t \in Seq(S)
  PROVE  s \o t \in Seq(S)
  OBVIOUS

(* The invariant holds of a cluster that was just bootstrapped. *)
LEMMA InitInv == Init => CInv
<1> SUFFICES ASSUME Init PROVE CInv
  OBVIOUS
<1>1. PICK a \in Addresses(Bootstrap) :
         serf = [n \in Node |-> IF n = Bootstrap THEN a ELSE NoAddr]
  BY DEF Init
<1>2. a \in Addr /\ LocalAddr \in Addr
  <2>1. a \in Addr
    BY AddressIsAddr
  <2>2. LocalAddr \in Addr
    BY LocalIsAddr
  <2>3. QED
    BY <2>1, <2>2
<1>3. (\A n \in Node : serf[n] \in Addresses(n) \cup {NoAddr})
      /\ serf \in [Node -> Addr \cup {NoAddr}]
  BY <1>1, <1>2
<1>4. events \in [Node -> Seq(Known)]
  BY DEF Init
<1>5. DOMAIN handler = Node /\ \A n \in Node : HandlerOK(n)
  BY DEF Init, HandlerOK, Idle
<1>6. ConfigOK(config)
  BY <1>2 DEF Init, ConfigOK
<1>7. leader \in Node \cup {NoNode} /\ LeaderIsServer
  BY DEF Init, LeaderIsServer, Servers
<1>8. QED
  BY <1>3, <1>4, <1>5, <1>6, <1>7 DEF CInv

(* What serf tells a member about a node. *)
LEMMA EventKnown ==
  ASSUME NEW n \in Node, NEW a \in Addresses(n), NEW t \in {"join", "leave"}
  PROVE  [type |-> t, name |-> n, addr |-> a] \in Known
  BY DEF Known, Event, Addr

(* The members are finitely many. *)
LEMMA MembersCount == Cardinality(Members) \in Nat
  BY FS_Subset, FS_CardinalityType DEF Members

(* A node starts. *)
LEMMA StartInv ==
  ASSUME CInv, NEW n \in Node, NEW a \in Addresses(n), Start(n, a)
  PROVE  CInv'
<1> DEFINE join(m) == [type |-> "join", name |-> m, addr |-> serf'[m]]
<1>1. serf' = [serf EXCEPT ![n] = a] /\ UNCHANGED <<handler, config, leader>>
  BY DEF Start
<1>2. (\A m \in Node : serf'[m] \in Addresses(m) \cup {NoAddr})
      /\ serf' \in [Node -> Addr \cup {NoAddr}]
  BY <1>1 DEF CInv, Addr
<1>3. \A m \in Members \cup {n} : join(m) \in Known
  <2>1. \A m \in Members \cup {n} : m \in Node /\ serf'[m] \in Addresses(m)
    BY <1>1 DEF CInv, Members
  <2>2. QED
    BY <2>1, EventKnown
<1>4. events' \in [Node -> Seq(Known)]
  <2>1. PICK others \in [1 .. Cardinality(Members) -> Members] :
           events' = [m \in Node |->
               IF m = n THEN <<join(n)>> \o [i \in DOMAIN others |-> join(others[i])]
               ELSE IF m \in Members THEN Append(events[m], join(n))
               ELSE events[m]]
    BY DEF Start
  <2>2. [i \in DOMAIN others |-> join(others[i])] \in Seq(Known)
    BY <1>3, MembersCount
  <2>3. <<join(n)>> \o [i \in DOMAIN others |-> join(others[i])] \in Seq(Known)
    <3>1. <<join(n)>> \in Seq(Known)
      BY <1>3
    <3> HIDE DEF join
    <3>2. QED
      BY <2>2, <3>1, ConcatType
  <2>4. \A m \in Node : Append(events[m], join(n)) \in Seq(Known) /\ events[m] \in Seq(Known)
    BY <1>3 DEF CInv
  <2> HIDE DEF join
  <2>5. QED
    BY <2>1, <2>3, <2>4
<1>5. QED
  BY <1>1, <1>2, <1>4 DEF CInv, HandlerOK, ConfigOK, LeaderIsServer, Servers
(* An idle handler. *)
LEMMA IdleOK == DOMAIN Idle = {"pc", "name", "addr", "removals"} /\ Idle.pc = "idle"
  BY DEF Idle

(* A node leaves, fails or stops: its events and its handler may be gone. *)
LEMMA GoneInv ==
  ASSUME CInv, NEW n \in Node, Leave(n) \/ Stop(n) \/ Fail(n)
  PROVE  CInv'
<1>1. UNCHANGED config /\ leader' \in {leader, NoNode}
  BY DEF Leave, Stop, Fail
<1>2. (\A m \in Node : serf'[m] \in Addresses(m) \cup {NoAddr})
      /\ serf' \in [Node -> Addr \cup {NoAddr}]
  BY DEF CInv, Leave, Stop, Fail
<1>3. \A m \in Node : handler'[m] \in {handler[m], Idle}
  BY DEF CInv, Leave, Stop, Fail
<1>4. DOMAIN handler' = Node /\ \A m \in Node : HandlerOK(m)'
  <2>1. DOMAIN handler' = Node
    BY DEF CInv, Leave, Stop, Fail
  <2>2. ASSUME NEW m \in Node PROVE HandlerOK(m)'
    <3>1. CASE handler'[m] = handler[m]
      BY <3>1 DEF CInv, HandlerOK
    <3>2. CASE handler'[m] = Idle
      BY <3>2, IdleOK DEF HandlerOK
    <3>3. QED
      BY <1>3, <3>1, <3>2
  <2>3. QED
    BY <2>1, <2>2
<1>5. events' \in [Node -> Seq(Known)]
  <2>1. <<>> \in Seq(Known) /\ \A m \in Node : events[m] \in Seq(Known)
    BY DEF CInv
  <2>2. CASE Stop(n)
    BY <2>1, <2>2 DEF CInv, Stop
  <2>3. CASE Leave(n) \/ Fail(n)
    <3> DEFINE e == [type |-> "leave", name |-> n, addr |-> serf[n]]
    <3>1. e \in Known
      <4>1. serf[n] \in Addresses(n)
        BY <2>3 DEF CInv, Leave, Fail, Members
      <4>2. QED
        BY <4>1, EventKnown
    <3> HIDE DEF e
    <3>2. \A m \in Node : Append(events[m], e) \in Seq(Known)
      BY <2>1, <3>1
    <3>3. QED
      BY <2>1, <2>3, <3>2 DEF Leave, Fail, e
  <2>4. QED
    BY <2>2, <2>3
<1>6. QED
  BY <1>1, <1>2, <1>4, <1>5 DEF CInv, ConfigOK, LeaderIsServer, Servers

(* Raft elects a server, or a leader steps down. *)
LEMMA ElectInv ==
  ASSUME CInv, (\E n \in Node : Elect(n)) \/ StepDown
  PROVE  CInv'
<1>1. UNCHANGED <<serf, events, handler, config>>
  BY DEF Elect, StepDown
<1>2. leader' \in Node \cup {NoNode} /\ LeaderIsServer'
  BY <1>1 DEF Elect, StepDown, LeaderIsServer, Servers
<1>3. QED
  BY <1>1, <1>2 DEF CInv, HandlerOK, ConfigOK

(* The handler of node n turns into one that is idle or busy with another
   node; the rest of the state, but the events, stays. *)
LEMMA HandlerStep ==
  ASSUME CInv, NEW n \in Node, NEW h, handler' = [handler EXCEPT ![n] = h],
         DOMAIN h = {"pc", "name", "addr", "removals"},
         h.pc # "idle" => h.name \in Node \ {n} /\ h.addr \in Addresses(h.name)
  PROVE  DOMAIN handler' = Node /\ \A m \in Node : HandlerOK(m)'
<1>1. DOMAIN handler' = Node /\ handler'[n] = h /\ \A m \in Node \ {n} : handler'[m] = handler[m]
  BY DEF CInv
<1>2. QED
  BY <1>1 DEF CInv, HandlerOK

(* eventHandler takes an event. *)
LEMMA TakeInv ==
  ASSUME CInv, NEW n \in Node, Take(n)
  PROVE  CInv'
<1> DEFINE e == Head(events[n])
           h == [pc |-> e.type, name |-> e.name, addr |-> e.addr, removals |-> 0]
<1>1. UNCHANGED <<serf, config, leader>> /\ events[n] # <<>> /\ events[n] \in Seq(Known)
  BY DEF CInv, Take
<1>2. e \in Known
  BY <1>1
<1>3. e.name \in Node /\ e.addr \in Addresses(e.name)
  BY <1>2 DEF Known, Event
<1>4. events' \in [Node -> Seq(Known)]
  <2>1. Tail(events[n]) \in Seq(Known)
    BY <1>1
  <2>2. QED
    BY <2>1 DEF CInv, Take
<1>5. DOMAIN handler' = Node /\ \A m \in Node : HandlerOK(m)'
  <2>1. CASE e.name = n
    BY <2>1 DEF CInv, HandlerOK, Take
  <2>2. CASE e.name # n
    <3>1. handler' = [handler EXCEPT ![n] = h]
      BY <2>2 DEF Take
    <3>2. h.name \in Node \ {n} /\ h.addr \in Addresses(h.name)
      BY <1>3, <2>2
    <3>3. DOMAIN h = {"pc", "name", "addr", "removals"}
      OBVIOUS
    <3> HIDE DEF h
    <3>4. QED
      BY <3>1, <3>2, <3>3, HandlerStep
  <2>3. QED
    BY <2>1, <2>2
<1>6. QED
  BY <1>1, <1>4, <1>5 DEF CInv, ConfigOK, LeaderIsServer, Servers

(* What Become keeps of a handler. *)
LEMMA BecomeKeeps ==
  ASSUME CInv, NEW n \in Node, NEW pc, NEW k, handler[n].pc # "idle"
  PROVE  /\ DOMAIN Become(n, pc, k) = {"pc", "name", "addr", "removals"}
         /\ Become(n, pc, k).pc = pc
         /\ Become(n, pc, k).name \in Node \ {n}
         /\ Become(n, pc, k).addr \in Addresses(Become(n, pc, k).name)
  BY DEF CInv, HandlerOK, Become

(* Join reads the configuration. *)
LEMMA JoinReadsInv ==
  ASSUME CInv, NEW n \in Node, JoinReads(n)
  PROVE  CInv'
<1>1. UNCHANGED <<serf, events, config, leader>> /\ handler[n].pc # "idle"
  BY DEF JoinReads
<1>2. PICK h : /\ handler' = [handler EXCEPT ![n] = h]
               /\ h = Idle \/ \E pc, k : h = Become(n, pc, k)
  BY DEF JoinReads
<1>3. DOMAIN handler' = Node /\ \A m \in Node : HandlerOK(m)'
  <2>1. CASE h = Idle
    BY <1>2, <2>1, HandlerStep, IdleOK
  <2>2. ASSUME NEW pc, NEW k, h = Become(n, pc, k)
        PROVE  DOMAIN handler' = Node /\ \A m \in Node : HandlerOK(m)'
    <3>1. DOMAIN h = {"pc", "name", "addr", "removals"} /\ h.name \in Node \ {n}
          /\ h.addr \in Addresses(h.name)
      BY <1>1, <2>2, BecomeKeeps
    <3>2. QED
      BY <1>2, <3>1, HandlerStep
  <2>3. QED
    BY <1>2, <2>1, <2>2
<1>4. QED
  BY <1>1, <1>3 DEF CInv, ConfigOK, LeaderIsServer, Servers

(* Raft changes the entry of the node the handler is busy with. *)
LEMMA ChangeInv ==
  ASSUME CInv, NEW n \in Node,
         JoinRemoves(n) \/ JoinAdds(n) \/ LeaveRemoves(n) \/ NotLeader(n)
  PROVE  CInv'
<1>1. UNCHANGED <<serf, events, leader>> /\ handler[n].pc # "idle"
  BY DEF JoinRemoves, JoinAdds, LeaveRemoves, NotLeader
<1>2. PICK h : /\ handler' = [handler EXCEPT ![n] = h]
               /\ h = Idle \/ \E pc, k : h = Become(n, pc, k)
  BY DEF JoinRemoves, JoinAdds, LeaveRemoves, NotLeader
<1>3. DOMAIN handler' = Node /\ \A m \in Node : HandlerOK(m)'
  <2>1. CASE h = Idle
    BY <1>2, <2>1, HandlerStep, IdleOK
  <2>2. ASSUME NEW pc, NEW k, h = Become(n, pc, k)
        PROVE  DOMAIN handler' = Node /\ \A m \in Node : HandlerOK(m)'
    <3>1. DOMAIN h = {"pc", "name", "addr", "removals"} /\ h.name \in Node \ {n}
          /\ h.addr \in Addresses(h.name)
      BY <1>1, <2>2, BecomeKeeps
    <3>2. QED
      BY <1>2, <3>1, HandlerStep
  <2>3. QED
    BY <1>2, <2>1, <2>2
<1>4. handler[n].name \in Node \ {n} /\ handler[n].addr \in Addresses(handler[n].name)
  BY <1>1 DEF CInv, HandlerOK
<1>5. \/ config' = config
      \/ leader = n /\ \E a \in {NoAddr, handler[n].addr} :
            config' = [config EXCEPT ![handler[n].name] = a]
  BY DEF JoinRemoves, JoinAdds, LeaveRemoves, NotLeader, CanChange
<1>6. ConfigOK(config)' /\ LeaderIsServer'
  <2>1. CASE config' = config
    BY <1>1, <2>1 DEF CInv, ConfigOK, LeaderIsServer, Servers
  <2>2. ASSUME leader = n, NEW a \in {NoAddr, handler[n].addr},
               config' = [config EXCEPT ![handler[n].name] = a]
        PROVE  ConfigOK(config)' /\ LeaderIsServer'
    <3>1. a = NoAddr \/ (a \in Addresses(handler[n].name) /\ a \in Addr)
      BY <1>4, AddressIsAddr
    <3>2. ConfigOK(config)'
      BY <1>4, <2>2, <3>1 DEF CInv, ConfigOK
    <3>3. config'[n] = config[n]
      BY <1>4, <2>2 DEF CInv, ConfigOK
    <3>4. QED
      BY <1>1, <2>2, <3>2, <3>3 DEF CInv, LeaderIsServer, Servers
  <2>3. QED
    BY <1>5, <2>1, <2>2
<1>7. QED
  BY <1>1, <1>3, <1>6 DEF CInv

(* Every step keeps the invariant. *)
LEMMA StepInv == CInv /\ [Next]_vars => CInv'
<1> SUFFICES ASSUME CInv, [Next]_vars PROVE CInv'
  OBVIOUS
<1>1. CASE \E n \in Node :
              (\E a \in Addresses(n) : Start(n, a)) \/ Leave(n) \/ Stop(n) \/ Fail(n)
  BY <1>1, StartInv, GoneInv
<1>2. CASE (\E n \in Node : Elect(n)) \/ StepDown
  BY <1>2, ElectInv
<1>3. CASE \E n \in Node : Handle(n)
  BY <1>3, TakeInv, JoinReadsInv, ChangeInv DEF Handle
<1>4. CASE UNCHANGED vars
  BY <1>4 DEF vars, CInv, HandlerOK, ConfigOK, LeaderIsServer, Servers
<1>5. QED
  BY <1>1, <1>2, <1>3, <1>4 DEF Next

(* The invariant holds always. *)
THEOREM ClusterInvariance == Spec => []CInv
  BY InitInv, StepInv, PTL DEF Spec

(* No sequence of joins, leaves, failures and elections makes a leader call
   RemoveServer for itself, for every finite set of nodes. *)
THEOREM LeaderIsServerAlways == Spec => []LeaderIsServer
<1>1. CInv => LeaderIsServer
  BY DEF CInv
<1>2. QED
  BY <1>1, ClusterInvariance, PTL
-----------------------------------------------------------------------------
(* If no address is shared, raft refuses none of the leader's changes: the
   leader itself remains, and no address occurs twice. *)
LEMMA ChangeIsValid ==
  ASSUME CInv, NoSharedAddresses, NEW n \in Node, leader = n, handler[n].pc # "idle",
         NEW a \in {NoAddr, handler[n].addr}
  PROVE  Valid([config EXCEPT ![handler[n].name] = a])
<1> DEFINE c == [config EXCEPT ![handler[n].name] = a]
<1>1. handler[n].name \in Node \ {n} /\ handler[n].addr \in Addresses(handler[n].name)
  BY DEF CInv, HandlerOK
<1>2. c[n] = config[n] /\ config[n] # NoAddr
  BY <1>1 DEF CInv, ConfigOK, LeaderIsServer, Servers
<1>3. \A m \in Node : c[m] = NoAddr \/ c[m] \in Addresses(m) \/ (m = Bootstrap /\ c[m] = LocalAddr)
  BY <1>1 DEF CInv, ConfigOK
<1> HIDE DEF c
<1>4. \A l, m \in Node : c[l] # NoAddr /\ c[l] = c[m] => l = m
  BY <1>3 DEF NoSharedAddresses
<1>5. Valid(c)
  BY <1>2, <1>4 DEF Valid
<1>6. QED
  BY <1>5 DEF c

(* How the leader's handler ends a join. *)
LEMMA JoinEnds ==
  ASSUME CInv, NoSharedAddresses, NEW n \in Node,
         JoinReads(n) \/ JoinRemoves(n) \/ JoinAdds(n),
         leader = n, handler'[n].pc = "idle"
  PROVE  config'[handler[n].name] = handler[n].addr
<1>1. handler[n].pc # "idle" /\ handler[n].name \in Node /\ DOMAIN handler = Node
  BY DEF CInv, HandlerOK, JoinReads, JoinRemoves, JoinAdds
<1>2. \A pc, k : Become(n, pc, k).pc = pc
  BY <1>1, BecomeKeeps
<1>3. CASE JoinReads(n)
  BY <1>1, <1>2, <1>3 DEF JoinReads
<1>4. CASE JoinRemoves(n)
  <2>1. Valid([config EXCEPT ![handler[n].name] = NoAddr])
    BY <1>1, ChangeIsValid
  <2>2. QED
    BY <1>1, <1>2, <1>4, <2>1 DEF JoinRemoves
<1>5. CASE JoinAdds(n)
  <2>1. Valid([config EXCEPT ![handler[n].name] = handler[n].addr])
    BY <1>1, ChangeIsValid
  <2>2. QED
    BY <1>1, <1>5, <2>1 DEF JoinAdds, CInv, ConfigOK
<1>6. QED
  BY <1>3, <1>4, <1>5

(* Only its own steps end what a handler does, while its node leads. *)
LEMMA JoinStep ==
  ASSUME CInv, NoSharedAddresses, [Next]_vars, NEW n \in Node,
         handler[n].pc \in {"join", "remove", "add"}, handler'[n].pc = "idle",
         leader = n, leader' = n
  PROVE  config'[handler[n].name] = handler[n].addr
<1>1. handler'[n] # handler[n] /\ n # NoNode /\ DOMAIN handler = Node
  BY DEF CInv
<1>2. ASSUME NEW m \in Node,
             (\E a \in Addresses(m) : Start(m, a)) \/ Leave(m) \/ Stop(m) \/ Fail(m)
      PROVE  FALSE
  BY <1>1, <1>2 DEF Start, Leave, Stop, Fail
<1>3. ASSUME (\E m \in Node : Elect(m)) \/ StepDown PROVE FALSE
  BY <1>1, <1>3 DEF Elect, StepDown
<1>4. ASSUME NEW m \in Node, Handle(m), m # n PROVE FALSE
  <2>1. handler' = handler \/ \E h : handler' = [handler EXCEPT ![m] = h]
    BY <1>4 DEF Handle, Take, JoinReads, JoinRemoves, JoinAdds, LeaveRemoves, NotLeader
  <2>2. QED
    BY <1>1, <1>4, <2>1
<1>5. CASE Handle(n)
  <2>1. JoinReads(n) \/ JoinRemoves(n) \/ JoinAdds(n)
    BY <1>5 DEF Handle, Take, LeaveRemoves, NotLeader
  <2>2. QED
    BY <2>1, JoinEnds
<1>6. CASE UNCHANGED vars
  BY <1>1, <1>6 DEF vars
<1>7. QED
  BY <1>2, <1>3, <1>4, <1>5, <1>6 DEF Next

(* As long as an address belongs to one node, a join that the leader handles
   takes effect, for every finite set of nodes; the run cluster_shared shows
   that the condition is needed. *)
THEOREM JoinSucceedsUnshared ==
  ASSUME NoSharedAddresses
  PROVE  Spec => JoinSucceeds
<1>1. CInv /\ [Next]_vars =>
         [\A n \in Node :
             /\ handler[n].pc \in {"join", "remove", "add"}
             /\ handler'[n].pc = "idle"
             /\ leader = n /\ leader' = n
             => config'[handler[n].name] = handler[n].addr]_vars
  BY JoinStep
<1>2. QED
  BY <1>1, ClusterInvariance, PTL DEF Spec, JoinSucceeds
-----------------------------------------------------------------------------
(* A handler has its type, and a call of Join that removes servers has at least
   one left to remove. *)
Typed(h) ==
    /\ h \in [pc : {"idle", "join", "remove", "add", "leave"}, name : Node,
              addr : Addr \cup {NoAddr}, removals : Nat]
    /\ h.pc = "remove" => h.removals > 0

(* What the invariant leaves out of the types. *)
Counted ==
    /\ up \subseteq Node
    /\ DOMAIN handler = Node /\ handler = [n \in Node |-> handler[n]]
    /\ \A n \in Node : Typed(handler[n])
    /\ changes \in 0 .. MaxChanges /\ elections \in 0 .. MaxElections

(* An idle handler has its type. *)
LEMMA IdleTyped == Typed(Idle)
  BY DEF Typed, Idle

(* Where Join goes on, after it has read the configuration or removed a server. *)
LEMMA BecomeTyped ==
  ASSUME NEW n \in Node, Typed(handler[n]), NEW pc \in {"remove", "add"},
         NEW k \in Nat, pc = "remove" => k > 0
  PROVE  Typed(Become(n, pc, k))
  BY DEF Typed, Become

(* The servers Join finds are finitely many. *)
LEMMA SomeServers ==
  ASSUME NEW S \in SUBSET Node, S # {}
  PROVE  Cardinality(S) \in Nat /\ Cardinality(S) > 0
<1>1. IsFiniteSet(S) /\ Cardinality(S) \in Nat
  BY FS_Subset, FS_CardinalityType
<1>2. Cardinality(S) # 0
  BY <1>1, FS_EmptySet
<1>3. QED
  BY <1>1, <1>2

(* A handler that turns into one of its type. *)
LEMMA HandlerTyped ==
  ASSUME Counted, NEW n \in Node, NEW h, Typed(h), handler' = [handler EXCEPT ![n] = h]
  PROVE  /\ DOMAIN handler' = Node /\ handler' = [m \in Node |-> handler'[m]]
         /\ \A m \in Node : Typed(handler'[m])
<1>1. /\ DOMAIN handler' = Node /\ handler' = [m \in Node |-> handler'[m]] /\ handler'[n] = h
      /\ \A m \in Node \ {n} : handler'[m] = handler[m]
  BY DEF Counted
<1>2. QED
  BY <1>1 DEF Counted

(* Join reads the configuration. *)
LEMMA JoinReadsTyped ==
  ASSUME Counted, NEW n \in Node, JoinReads(n)
  PROVE  \E h : Typed(h) /\ handler' = [handler EXCEPT ![n] = h]
<1> DEFINE matches == {m \in Servers : m = handler[n].name \/ config[m] = handler[n].addr}
           k == Cardinality(matches)
<1>1. Typed(handler[n])
  BY DEF Counted
<1>2. matches # {} => k \in Nat /\ k > 0
  <2>1. matches \in SUBSET Node
    BY DEF Servers
  <2>2. QED
    BY <2>1, SomeServers
<1>3. matches # {} => Typed(Become(n, "remove", k))
  BY <1>1, <1>2, BecomeTyped
<1>4. Typed(Become(n, "add", 0))
  BY <1>1, BecomeTyped
<1>5. \E h \in {Idle, Become(n, "add", 0)} \cup
             (IF matches # {} THEN {Become(n, "remove", k)} ELSE {}) :
         handler' = [handler EXCEPT ![n] = h]
  BY DEF JoinReads
<1>6. QED
  BY <1>3, <1>4, <1>5, IdleTyped

(* Raft removes or adds a server, or refuses to. *)
LEMMA ChangeTyped ==
  ASSUME Counted, NEW n \in Node,
         JoinRemoves(n) \/ JoinAdds(n) \/ LeaveRemoves(n) \/ NotLeader(n)
  PROVE  \E h : Typed(h) /\ handler' = [handler EXCEPT ![n] = h]
<1>1. Typed(handler[n])
  BY DEF Counted
<1>2. CASE JoinRemoves(n)
  <2> DEFINE k == handler[n].removals - 1
  <2>1. k \in Nat
    BY <1>1, <1>2 DEF Typed, JoinRemoves
  <2>2. Typed(Become(n, "add", 0)) /\ (k # 0 => Typed(Become(n, "remove", k)))
    <3>1. Typed(Become(n, "add", 0))
      BY <1>1, BecomeTyped
    <3>2. ASSUME k # 0 PROVE Typed(Become(n, "remove", k))
      <4> HIDE DEF k
      <4>1. k > 0
        BY <2>1, <3>2
      <4>2. QED
        BY <1>1, <2>1, <4>1, BecomeTyped
    <3>3. QED
      BY <3>1, <3>2
  <2>3. \/ handler' = [handler EXCEPT ![n] = Idle]
        \/ handler' = [handler EXCEPT ![n] = Become(n, "add", 0)]
        \/ k # 0 /\ handler' = [handler EXCEPT ![n] = Become(n, "remove", k)]
    BY <1>2 DEF JoinRemoves
  <2>4. QED
    BY <2>2, <2>3, IdleTyped
<1>3. CASE JoinAdds(n) \/ LeaveRemoves(n) \/ NotLeader(n)
  <2>1. handler' = [handler EXCEPT ![n] = Idle]
    BY <1>3 DEF JoinAdds, LeaveRemoves, NotLeader
  <2>2. QED
    BY <2>1, IdleTyped
<1>4. QED
  BY <1>2, <1>3

(* eventHandler takes an event. *)
LEMMA TakeTyped ==
  ASSUME CInv, Counted, NEW n \in Node, Take(n)
  PROVE  handler' = handler \/ \E h : Typed(h) /\ handler' = [handler EXCEPT ![n] = h]
<1> DEFINE e == Head(events[n])
           h == [pc |-> e.type, name |-> e.name, addr |-> e.addr, removals |-> 0]
<1>1. e \in Known
  BY DEF CInv, Take
<1>2. Typed(h)
  <2>1. e.type \in {"join", "leave"} /\ e.name \in Node /\ e.addr \in Addr
    BY <1>1 DEF Known, Event
  <2> HIDE DEF e
  <2>2. QED
    BY <2>1 DEF Typed
<1>3. handler' = handler \/ handler' = [handler EXCEPT ![n] = h]
  BY DEF Take
<1> HIDE DEF h
<1>4. QED
  BY <1>2, <1>3

(* Every step keeps the types. *)
LEMMA StepCounted == CInv /\ Counted /\ [Next]_vars => Counted'
<1> SUFFICES ASSUME CInv, Counted, [Next]_vars PROVE Counted'
  OBVIOUS
<1> DEFINE Handlers == /\ DOMAIN handler' = Node /\ handler' = [m \in Node |-> handler'[m]]
                       /\ \A m \in Node : Typed(handler'[m])
<1>1. handler' = handler => Handlers
  BY DEF Counted
<1>2. ASSUME NEW n \in Node, NEW a \in Addresses(n), Start(n, a) PROVE Counted'
  BY <1>1, <1>2 DEF Counted, Start
<1>3. ASSUME NEW n \in Node, Leave(n) PROVE Counted'
  BY <1>1, <1>3 DEF Counted, Leave
<1>4. ASSUME NEW n \in Node, Stop(n) \/ Fail(n) PROVE Counted'
  <2>1. handler' = [handler EXCEPT ![n] = Idle]
    BY <1>4 DEF Stop, Fail
  <2>2. Handlers
    BY <2>1, HandlerTyped, IdleTyped
  <2> HIDE DEF Handlers
  <2>3. up' \subseteq Node /\ changes' \in 0 .. MaxChanges /\ elections' \in 0 .. MaxElections
    BY <1>4 DEF Counted, Stop, Fail
  <2>4. QED
    BY <2>2, <2>3 DEF Counted, Handlers
<1>5. ASSUME NEW n \in Node, Elect(n) PROVE Counted'
  BY <1>1, <1>5 DEF Counted, Elect
<1>6. CASE StepDown
  BY <1>1, <1>6 DEF Counted, StepDown
<1>7. ASSUME NEW n \in Node, Handle(n) PROVE Counted'
  <2>1. handler' = handler \/ \E h : Typed(h) /\ handler' = [handler EXCEPT ![n] = h]
    BY <1>7, TakeTyped, JoinReadsTyped, ChangeTyped DEF Handle
  <2>2. Handlers
    BY <1>1, <2>1, HandlerTyped
  <2>3. UNCHANGED <<up, changes, elections>>
    BY <1>7 DEF Handle, Take, JoinReads, JoinRemoves, JoinAdds, LeaveRemoves, NotLeader
  <2>4. QED
    BY <2>2, <2>3 DEF Counted
<1>8. CASE UNCHANGED vars
  BY <1>1, <1>8 DEF Counted, vars
<1>9. QED
  BY <1>2, <1>3, <1>4, <1>5, <1>6, <1>7, <1>8 DEF Next

(* The members, the events, what each handler is doing and raft's configuration
   keep their types: Join never has fewer than no servers left to remove. *)
THEOREM ClusterTypes == Spec => []TypeOK
<1>1. Init => Counted
  BY IdleTyped DEF Init, Counted
<1>2. CInv /\ Counted => TypeOK
  <2> SUFFICES ASSUME CInv, Counted PROVE TypeOK
    OBVIOUS
  <2>1. handler \in [Node -> [pc : {"idle", "join", "remove", "add", "leave"}, name : Node,
                              addr : Addr \cup {NoAddr}, removals : Nat]]
    BY DEF Counted, Typed
  <2>2. events \in [Node -> Seq(Event)]
    <3>1. Known \subseteq Event
      BY DEF Known
    <3>2. QED
      BY <3>1 DEF CInv
  <2>3. QED
    BY <2>1, <2>2 DEF CInv, Counted, ConfigOK, TypeOK
<1>3. QED
  BY <1>1, <1>2, StepCounted, ClusterInvariance, PTL DEF Spec
=============================================================================
