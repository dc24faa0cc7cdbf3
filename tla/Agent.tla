-------------------------------- MODULE Agent --------------------------------
(***************************************************************************)
(* The life of an agent (internal/agent/agent.go): New brings up the mux,  *)
(* the distributed log, the server and the membership in this order;       *)
(* Shutdown takes them down under shutdownMu.  Shutdown is called by users *)
(* of the agent, by the goroutine that runs the server and by the one that *)
(* runs the mux, when their Serve returns an error.                        *)
(*                                                                         *)
(* The services themselves are external: each may fail to come up, Leave   *)
(* and Close may return an error, and a Serve may end with one.            *)
(***************************************************************************)
EXTENDS Naturals, FiniteSets

CONSTANTS
    User,               \* callers of Shutdown outside the agent
    Client,             \* connections of the clients of the server
    ServerRun, MuxRun,  \* the goroutines of setupServer and serve
    NoCaller,           \* shutdownMu is free
    Bootstrap           \* Config.Bootstrap

ASSUME AgentAssumption ==
    /\ ServerRun # MuxRun
    /\ {ServerRun, MuxRun} \cap User = {}
    /\ NoCaller \notin User \cup {ServerRun, MuxRun}
    /\ Bootstrap \in BOOLEAN

VARIABLES
    setup,      \* the next step of New, or how it ended
    open,       \* the parts of the agent that run
    serving,    \* the goroutines that are inside Serve
    shutdown,   \* Agent.shutdown
    mu,         \* the holder of shutdownMu
    pc,         \* where each caller is in Shutdown
    result,     \* what the last finished Shutdown of each caller returned
    closes,     \* calls of Log.Close
    failed,     \* a step of Shutdown returned an error
    request     \* the request on each connection: "waited" for by
                \* server.Shutdown, or on a connection "taken" over by h2c

vars == <<setup, open, serving, shutdown, mu, pc, result, closes, failed, request>>

Caller == User \cup {ServerRun, MuxRun}
Part == {"mux", "log", "server", "membership"}
teardown == <<open, closes, failed>>

Init ==
    /\ setup = "mux"
    /\ open = {}
    /\ serving = {}
    /\ shutdown = FALSE
    /\ mu = NoCaller
    /\ pc = [c \in Caller |-> "out"]
    /\ result = [c \in Caller |-> "none"]
    /\ closes = 0
    /\ failed = FALSE
    /\ request = [x \in Client |-> "none"]

-----------------------------------------------------------------------------
(* New, one step for each setup function.  An error ends New; nothing that
   is up by then is taken down. *)
SetupFails ==
    /\ setup \in Part
    /\ setup' = "failed"
    /\ UNCHANGED <<open, serving, shutdown, mu, pc, result, closes, failed, request>>

setupMux ==
    /\ setup = "mux"
    /\ setup' = "log"
    /\ open' = open \cup {"mux"}
    /\ UNCHANGED <<serving, shutdown, mu, pc, result, closes, failed, request>>

(* NewLog succeeds; a bootstrapping node then waits for a leader... *)
setupLog ==
    /\ setup = "log"
    /\ setup' = IF Bootstrap THEN "leader" ELSE "server"
    /\ open' = open \cup {"log"}
    /\ UNCHANGED <<serving, shutdown, mu, pc, result, closes, failed, request>>

(* ... until a tick finds one or the timeout is over. *)
WaitForLeader ==
    /\ setup = "leader"
    /\ setup' \in {"server", "failed"}
    /\ UNCHANGED <<open, serving, shutdown, mu, pc, result, closes, failed, request>>

setupServer ==
    /\ setup = "server"
    /\ setup' = "membership"
    /\ open' = open \cup {"server"}
    /\ serving' = serving \cup {ServerRun}
    /\ UNCHANGED <<shutdown, mu, pc, result, closes, failed, request>>

(* The last step; New starts serve and returns the agent. *)
setupMembership ==
    /\ setup = "membership"
    /\ setup' = "up"
    /\ open' = open \cup {"membership"}
    /\ serving' = serving \cup {MuxRun}
    /\ UNCHANGED <<shutdown, mu, pc, result, closes, failed, request>>

-----------------------------------------------------------------------------
(* Faulty goroutines that end without a call of Shutdown. *)
ServeReturnsQuiet(g) ==
    /\ g \in serving
    /\ g = ServerRun => "server" \notin open \/ (setup = "up" /\ MuxRun \notin serving)
    /\ serving' = serving \ {g}
    /\ UNCHANGED <<setup, open, shutdown, mu, pc, result, closes, failed, request>>

(***************************************************************************)
(* The listener of the mux is closed by server.Shutdown; then, or because  *)
(* it breaks, mux.Serve returns.  The server's Serve returns when the      *)
(* server or the mux is down.  Both goroutines then call Shutdown.         *)
(***************************************************************************)
ServeReturns(g) ==
    /\ g \in serving
    /\ g = ServerRun => "server" \notin open \/ (setup = "up" /\ MuxRun \notin serving)
    /\ serving' = serving \ {g}
    /\ pc' = [pc EXCEPT ![g] = "lock"]
    /\ UNCHANGED <<setup, open, shutdown, mu, result, closes, failed, request>>

(* A user who got the agent from New calls Shutdown, any number of times. *)
Call(u) ==
    /\ setup = "up"
    /\ pc[u] = "out"
    /\ pc' = [pc EXCEPT ![u] = "lock"]
    /\ UNCHANGED <<setup, open, serving, shutdown, mu, result, closes, failed, request>>

-----------------------------------------------------------------------------
(***************************************************************************)
(* A client's request, while the mux and the server accept connections.    *)
(* The server knows the requests on HTTP/1.1 connections.  A connection    *)
(* with HTTP/2, as http.NewH2Client makes it, is hijacked by h2c, and the  *)
(* server forgets it.                                                      *)
(***************************************************************************)
Request(x, kind) ==
    /\ serving = {ServerRun, MuxRun} /\ "server" \in open
    /\ request[x] = "none"
    /\ request' = [request EXCEPT ![x] = kind]
    /\ UNCHANGED <<setup, open, serving, shutdown, mu, pc, result, closes, failed>>

(* The request ends; a stream does so when its client wants to. *)
Answer(x) ==
    /\ request[x] # "none"
    /\ request' = [request EXCEPT ![x] = "none"]
    /\ UNCHANGED <<setup, open, serving, shutdown, mu, pc, result, closes, failed>>

(* A request that reads the closed log reads memory that is no longer mapped:
   the process ends. *)
Fault(x) ==
    /\ request[x] # "none"
    /\ setup = "up" /\ "log" \notin open
    /\ setup' = "dead"
    /\ open' = {} /\ serving' = {} /\ mu' = NoCaller
    /\ pc' = [c \in Caller |-> "out"]
    /\ request' = [y \in Client |-> "none"]
    /\ UNCHANGED <<shutdown, result, closes, failed>>

-----------------------------------------------------------------------------
Return(c, r) ==
    /\ mu' = NoCaller
    /\ pc' = [pc EXCEPT ![c] = "out"]
    /\ result' = [result EXCEPT ![c] = r]

(* A faulty Shutdown that does not look at the flag. *)
LockAgain(c) ==
    /\ pc[c] = "lock"
    /\ mu = NoCaller
    /\ mu' = c /\ shutdown' = TRUE
    /\ pc' = [pc EXCEPT ![c] = "leave"]
    /\ UNCHANGED <<setup, serving, result, teardown, request>>

(* A faulty Shutdown that holds the mutex only while it tests the flag. *)
LockShort(c) ==
    /\ pc[c] = "lock"
    /\ mu = NoCaller
    /\ shutdown' = TRUE
    /\ IF shutdown THEN Return(c, "nil")
       ELSE pc' = [pc EXCEPT ![c] = "leave"] /\ UNCHANGED <<mu, result>>
    /\ UNCHANGED <<setup, serving, teardown, request>>

(* Lock; a second Shutdown returns at once, the first goes on. *)
Lock(c) ==
    /\ pc[c] = "lock"
    /\ mu = NoCaller
    /\ shutdown' = TRUE
    /\ IF shutdown THEN Return(c, "nil")
       ELSE mu' = c /\ pc' = [pc EXCEPT ![c] = "leave"] /\ UNCHANGED result
    /\ UNCHANGED <<setup, serving, teardown, request>>

leave(c) ==
    /\ pc[c] = "leave"
    /\ open' = open \ {"membership"}
    /\ pc' = [pc EXCEPT ![c] = "stop"]
    /\ UNCHANGED <<setup, serving, shutdown, mu, result, closes, failed, request>>

(* An error of Leave ends Shutdown: the steps after it are not taken. *)
leaveFails(c) ==
    /\ pc[c] = "leave"
    /\ failed' = TRUE
    /\ Return(c, "error")
    /\ UNCHANGED <<setup, open, serving, shutdown, closes, request>>

(* server.Shutdown closes the listener ... *)
stop(c) ==
    /\ pc[c] = "stop"
    /\ open' = open \ {"server"}
    /\ pc' = [pc EXCEPT ![c] = "wait"]
    /\ UNCHANGED <<setup, serving, shutdown, mu, result, closes, failed, request>>

(* A faulty Shutdown that closes the server and waits for no request. *)
stoppedAtOnce(c) ==
    /\ pc[c] = "wait"
    /\ open' = open \ {"mux"}
    /\ pc' = [pc EXCEPT ![c] = "close"]
    /\ UNCHANGED <<setup, serving, shutdown, mu, result, closes, failed, request>>

(* ... and waits, without a time limit, for the requests it knows.  mux.Close
   follows; the errors of both are dropped. *)
stopped(c) ==
    /\ pc[c] = "wait"
    /\ \A x \in Client : request[x] # "waited"
    /\ open' = open \ {"mux"}
    /\ pc' = [pc EXCEPT ![c] = "close"]
    /\ UNCHANGED <<setup, serving, shutdown, mu, result, closes, failed, request>>

(* A faulty last step that returns with the mutex still locked. *)
closeLocked(c) ==
    /\ pc[c] = "close"
    /\ closes' = closes + 1
    /\ open' = open \ {"log"}
    /\ pc' = [pc EXCEPT ![c] = "out"]
    /\ result' = [result EXCEPT ![c] = "nil"]
    /\ UNCHANGED <<setup, serving, shutdown, mu, failed, request>>

(* Log.Close shuts raft down and closes the local log... *)
close(c) ==
    /\ pc[c] = "close"
    /\ closes' = closes + 1
    /\ open' = open \ {"log"}
    /\ Return(c, "nil")
    /\ UNCHANGED <<setup, serving, shutdown, failed, request>>

(* ... or returns the error of one of the two. *)
closeFails(c) ==
    /\ pc[c] = "close"
    /\ closes' = closes + 1
    /\ failed' = TRUE
    /\ Return(c, "error")
    /\ UNCHANGED <<setup, open, serving, shutdown, request>>

Shutdown(c) ==
    \/ Lock(c)
    \/ leave(c) \/ leaveFails(c)
    \/ stop(c) \/ stopped(c)
    \/ close(c) \/ closeFails(c)

New ==
    setupMux \/ setupLog \/ WaitForLeader \/ setupServer \/ setupMembership \/ SetupFails

Next ==
    \/ New
    \/ \E g \in {ServerRun, MuxRun} : ServeReturns(g)
    \/ \E u \in User : Call(u)
    \/ \E x \in Client, kind \in {"waited", "taken"} : Request(x, kind)
    \/ \E x \in Client : Answer(x) \/ Fault(x)
    \/ \E c \in Caller : Shutdown(c)

(***************************************************************************)
(* Calls of Shutdown go on, and get the mutex in turn: sync.Mutex hands it *)
(* to the longest waiter when that has starved.  A Serve whose listener is *)
(* closed returns.                                                         *)
(***************************************************************************)
Fairness ==
    /\ \A c \in Caller : SF_vars(Shutdown(c))
    /\ WF_vars("server" \notin open /\ ServeReturns(MuxRun))
    /\ WF_vars(ServeReturns(ServerRun))

Spec == Init /\ [][Next]_vars /\ Fairness

-----------------------------------------------------------------------------
(* Every variable holds a value of its kind. *)
TypeOK ==
    /\ setup \in Part \cup {"leader", "up", "failed", "dead"}
    /\ open \subseteq Part
    /\ serving \subseteq {ServerRun, MuxRun}
    /\ shutdown \in BOOLEAN
    /\ mu \in Caller \cup {NoCaller}
    /\ pc \in [Caller -> {"out", "lock", "leave", "stop", "wait", "close"}]
    /\ result \in [Caller -> {"none", "nil", "error"}]
    /\ closes \in 0 .. 1
    /\ failed \in BOOLEAN
    /\ request \in [Client -> {"none", "waited", "taken"}]

(* Shutdown is idempotent for any number of concurrent callers: whoever gets
   nil from it finds everything down, unless an earlier call failed. *)
NilMeansDown ==
    \A c \in Caller : result[c] = "nil" => open = {} \/ failed

(* The log is closed only after the membership and the server are down and
   the requests the server knows have ended.  Requests on the connections
   that h2c took over may still read it. *)
LogOutlivesUsers ==
    setup = "up" /\ "log" \notin open =>
        open = {} /\ \A x \in Client : request[x] # "waited"

(* Streams end some time. *)
RequestsEnd == []<>(\A x \in Client : request[x] # "waited")

(* A Shutdown that meets no error, and no stream over HTTP/1.1 that goes on
   for ever, ends both goroutines, and the calls of Shutdown these make
   themselves return. *)
ShutdownEnds ==
    RequestsEnd =>
        (shutdown ~> (failed \/ (serving = {} /\ pc[ServerRun] = "out" /\ pc[MuxRun] = "out")))

(* A mux or server that breaks takes the whole agent down with it. *)
BrokenMuxEnds ==
    RequestsEnd => ((setup = "up" /\ MuxRun \notin serving) ~> (failed \/ open = {}))
=============================================================================
