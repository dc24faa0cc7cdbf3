----------------------------- MODULE AgentProofs -----------------------------
(***************************************************************************)
(* Proofs about module Agent: the shutdown is orderly for every set of     *)
(* callers and of clients.                                                 *)
(***************************************************************************)
EXTENDS Agent, TLAPS

(* No request the server knows is under way. *)
Drained == \A x \in Client : request[x] # "waited"

(* What runs while New is at each of its steps. *)
Setup ==
    /\ setup = "mux" => open = {}
    /\ setup = "log" => open = {"mux"}
    /\ setup \in {"leader", "server"} => open = {"mux", "log"}
    /\ setup = "membership" => open = {"mux", "log", "server"}
    /\ setup \notin {"up", "dead"} =>
          /\ ~shutdown
          /\ \A c \in Caller : pc[c] = "out"
          /\ MuxRun \notin serving
          /\ ServerRun \in serving => "server" \in open
    /\ setup = "dead" =>
          /\ open = {} /\ serving = {} /\ mu = NoCaller
          /\ \A c \in Caller : pc[c] = "out"

(* The caller inside Shutdown is the one that holds the mutex, and what runs
   is told by where it is. *)
Inside ==
    /\ \A g \in serving : pc[g] = "out"
    /\ \A c \in Caller : pc[c] \in {"leave", "stop", "wait", "close"} <=> mu = c
    /\ \A c \in Caller : pc[c] \in {"leave", "stop", "wait", "close"} =>
          setup = "up" /\ shutdown /\ closes = 0
    /\ \A c \in Caller :
          /\ pc[c] = "leave" => open = Part
          /\ pc[c] = "stop" => open = {"mux", "log", "server"}
          /\ pc[c] = "wait" => open = {"mux", "log"}
          /\ pc[c] = "close" => open = {"log"} /\ Drained

(* What runs while nobody is inside Shutdown. *)
Outside ==
    /\ setup = "up" /\ ~shutdown => open = Part
    /\ ~shutdown => closes = 0 /\ \A c \in Caller : result[c] # "nil"
    /\ shutdown /\ mu = NoCaller => failed \/ open = {}
    /\ setup = "up" /\ open = {} => Drained
    /\ setup = "up" /\ "log" \notin open => open = {}

(* The inductive invariant. *)
AInv == TypeOK /\ Setup /\ Inside /\ Outside /\ NilMeansDown

-----------------------------------------------------------------------------
USE AgentAssumption DEF Caller, Part

(* The invariant holds before New does anything. *)
LEMMA InitInv == Init => AInv
<1> SUFFICES ASSUME Init PROVE AInv
  OBVIOUS
<1>1. TypeOK
  <2>1. setup \in Part /\ open \subseteq Part /\ serving \subseteq {ServerRun, MuxRun}
    BY DEF Init
  <2>2. shutdown \in BOOLEAN /\ failed \in BOOLEAN
    BY DEF Init
  <2>3. mu \in Caller \cup {NoCaller} /\ closes \in 0 .. 1
    BY DEF Init
  <2>4. pc \in [Caller -> {"out", "lock", "leave", "stop", "wait", "close"}]
    BY DEF Init
  <2>5. result \in [Caller -> {"none", "nil", "error"}]
    BY DEF Init
  <2>6. request \in [Client -> {"none", "waited", "taken"}]
    BY DEF Init
  <2>7. QED
    BY <2>1, <2>2, <2>3, <2>4, <2>5, <2>6 DEF TypeOK
<1>2. Setup
  BY DEF Init, Setup
<1>3. Inside
  BY DEF Init, Inside
<1>4. Outside /\ NilMeansDown
  BY DEF Init, Outside, NilMeansDown
<1>5. QED
  BY <1>1, <1>2, <1>3, <1>4 DEF AInv

(* The steps of New. *)
LEMMA NewInv == AInv /\ New => AInv'
<1> SUFFICES ASSUME AInv, New PROVE AInv'
  OBVIOUS
<1> USE DEF AInv, TypeOK, Setup, Inside, Outside, NilMeansDown, Drained
<1>1. CASE setupMux
  BY <1>1 DEF setupMux
<1>2. CASE setupLog
  BY <1>2 DEF setupLog
<1>3. CASE WaitForLeader
  BY <1>3 DEF WaitForLeader
<1>4. CASE setupServer
  BY <1>4 DEF setupServer
<1>5. CASE setupMembership
  BY <1>5 DEF setupMembership
<1>6. CASE SetupFails
  BY <1>6 DEF SetupFails
<1>7. QED
  BY <1>1, <1>2, <1>3, <1>4, <1>5, <1>6 DEF New

(* Serve returns, or a user calls: one more caller waits for the mutex. *)
LEMMA CallInv ==
  ASSUME AInv,
         \/ \E g \in {ServerRun, MuxRun} : ServeReturns(g)
         \/ \E u \in User : Call(u)
  PROVE  AInv'
<1> USE DEF AInv, TypeOK, Setup, Inside, Outside, NilMeansDown, Drained
<1>1. ASSUME NEW g \in {ServerRun, MuxRun}, ServeReturns(g) PROVE AInv'
  BY <1>1 DEF ServeReturns
<1>2. ASSUME NEW u \in User, Call(u) PROVE AInv'
  BY <1>2 DEF Call
<1>3. QED
  BY <1>1, <1>2

(* Requests begin only while the server accepts them. *)
LEMMA RequestInv ==
  ASSUME AInv,
         \/ \E x \in Client, kind \in {"waited", "taken"} : Request(x, kind)
         \/ \E x \in Client : Answer(x) \/ Fault(x)
  PROVE  AInv'
<1> USE DEF AInv, TypeOK, Setup, Inside, Outside, NilMeansDown, Drained
<1>1. ASSUME NEW x \in Client, NEW kind \in {"waited", "taken"}, Request(x, kind)
      PROVE  AInv'
  BY <1>1 DEF Request
<1>2. ASSUME NEW x \in Client, Answer(x) PROVE AInv'
  BY <1>2 DEF Answer
<1>3. ASSUME NEW x \in Client, Fault(x) PROVE AInv'
  BY <1>3 DEF Fault
<1>4. QED
  BY <1>1, <1>2, <1>3

(* The steps of Shutdown. *)
LEMMA ShutdownInv ==
  ASSUME AInv, NEW c \in Caller, Shutdown(c)
  PROVE  AInv'
<1> USE DEF AInv, TypeOK, Setup, Inside, Outside, NilMeansDown, Drained
<1>1. CASE Lock(c)
  BY <1>1 DEF Lock, Return, teardown
<1>2. CASE leave(c)
  BY <1>2 DEF leave
<1>3. CASE leaveFails(c)
  BY <1>3 DEF leaveFails, Return
<1>4. CASE stop(c)
  BY <1>4 DEF stop
<1>5. CASE stopped(c)
  BY <1>5 DEF stopped
<1>6. CASE close(c)
  BY <1>6 DEF close, Return
<1>7. CASE closeFails(c)
  BY <1>7 DEF closeFails, Return
<1>8. QED
  BY <1>1, <1>2, <1>3, <1>4, <1>5, <1>6, <1>7 DEF Shutdown

(* Every step keeps the invariant. *)
LEMMA StepInv == AInv /\ [Next]_vars => AInv'
<1> SUFFICES ASSUME AInv, [Next]_vars PROVE AInv'
  OBVIOUS
<1>1. CASE New
  BY <1>1, NewInv
<1>2. CASE \/ \E g \in {ServerRun, MuxRun} : ServeReturns(g)
           \/ \E u \in User : Call(u)
  BY <1>2, CallInv
<1>3. CASE \/ \E x \in Client, kind \in {"waited", "taken"} : Request(x, kind)
           \/ \E x \in Client : Answer(x) \/ Fault(x)
  BY <1>3, RequestInv
<1>4. CASE \E c \in Caller : Shutdown(c)
  BY <1>4, ShutdownInv
<1>5. CASE UNCHANGED vars
  BY <1>5 DEF vars, AInv, TypeOK, Setup, Inside, Outside, NilMeansDown, Drained
<1>6. QED
  BY <1>1, <1>2, <1>3, <1>4, <1>5 DEF Next

(* The invariant that ties the parts that run to the one caller inside
   Shutdown holds always, for every set of callers and of clients. *)
THEOREM AgentInvariance == Spec => []AInv
  BY InitInv, StepInv, PTL DEF Spec

(* Shutdown is idempotent, for every number of callers: whoever gets nil from
   it finds everything down, unless an earlier call failed. *)
THEOREM NilMeansDownAlways == Spec => []NilMeansDown
<1>1. AInv => NilMeansDown
  BY DEF AInv
<1>2. QED
  BY <1>1, AgentInvariance, PTL

(* Shutdown closes the log last, after every request the server knows, for
   every number of callers and of clients. *)
THEOREM LogOutlivesUsersAlways == Spec => []LogOutlivesUsers
<1>1. AInv => LogOutlivesUsers
  BY DEF AInv, Outside, LogOutlivesUsers, Drained
<1>2. QED
  BY <1>1, AgentInvariance, PTL

(* The agent's parts, the callers of Shutdown and the requests keep their
   types, for every number of callers and of clients. *)
THEOREM AgentTypes == Spec => []TypeOK
<1>1. AInv => TypeOK
  BY DEF AInv
<1>2. QED
  BY <1>1, AgentInvariance, PTL
=============================================================================
