------------------------------ MODULE Replicator ------------------------------
(***************************************************************************)
(* internal/log/replicator: for each server that joins, a goroutine copies *)
(* the server's log, from offset 0 on, into the local server.  A second    *)
(* goroutine receives the records and hands them over through a channel.   *)
(*                                                                         *)
(* A loop is one call of replicate with its channels; its number is that   *)
(* of the Join that started it.  Remote servers, the stream from them and  *)
(* the local server are external.                                          *)
(***************************************************************************)
EXTENDS Naturals, Sequences, FiniteSets

CONSTANTS
    Server,     \* names of the servers that may join
    NoLoop,     \* no loop: the name is not in r.servers
    BufferCap,  \* capacity of the records channel (16 in the code)
    MaxLoops,   \* bound: calls of Join that start a loop
    MaxRecords  \* bound: records a server's log reaches

ASSUME ReplicatorAssumption ==
    /\ BufferCap \in Nat \ {0}
    /\ MaxLoops \in Nat
    /\ MaxRecords \in Nat
    /\ NoLoop \notin Nat

VARIABLES
    servers,    \* r.servers: the leave channel, as a loop, of each name
    closed,     \* r.closed, and the close channel is closed
    loops,      \* the loops started so far
    remote,     \* length of the log of each server
    local       \* the records produced to the local server: <<loop, offset>>

vars == <<servers, closed, loops, remote, local>>

Loop == DOMAIN loops

Init ==
    /\ servers = [s \in Server |-> NoLoop]
    /\ closed = FALSE
    /\ loops = <<>>
    /\ remote = [s \in Server |-> 0]
    /\ local = <<>>

-----------------------------------------------------------------------------
(* A faulty Join that does not look for a loop of the same name. *)
JoinTwice(s) ==
    /\ ~closed
    /\ Len(loops) < MaxLoops
    /\ servers' = [servers EXCEPT ![s] = Len(loops) + 1]
    /\ loops' = Append(loops, [name |-> s, left |-> FALSE, pc |-> "connect", record |-> 0,
                               receiver |-> "off", received |-> 0, records |-> <<>>])
    /\ UNCHANGED <<closed, remote, local>>

(* Join starts a loop unless the replicator is closed or the name is known. *)
Join(s) ==
    /\ ~closed
    /\ servers[s] = NoLoop
    /\ Len(loops) < MaxLoops
    /\ servers' = [servers EXCEPT ![s] = Len(loops) + 1]
    /\ loops' = Append(loops, [name |-> s, left |-> FALSE, pc |-> "connect", record |-> 0,
                               receiver |-> "off", received |-> 0, records |-> <<>>])
    /\ UNCHANGED <<closed, remote, local>>

(* Leave closes the leave channel and forgets the name. *)
Leave(s) ==
    /\ servers[s] # NoLoop
    /\ loops' = [loops EXCEPT ![servers[s]].left = TRUE]
    /\ servers' = [servers EXCEPT ![s] = NoLoop]
    /\ UNCHANGED <<closed, remote, local>>

Close ==
    /\ ~closed
    /\ closed' = TRUE
    /\ UNCHANGED <<servers, loops, remote, local>>

-----------------------------------------------------------------------------
(* replicate opens the stream and starts the receiver, or gives up. *)
Connect(l) ==
    /\ loops[l].pc = "connect"
    /\ loops' = [loops EXCEPT ![l].pc = "select", ![l].receiver = "receive"]
    /\ UNCHANGED <<servers, closed, remote, local>>

ConnectFails(l) ==
    /\ loops[l].pc = "connect"
    /\ loops' = [loops EXCEPT ![l].pc = "done"]
    /\ UNCHANGED <<servers, closed, remote, local>>

(* A faulty receiver that takes the record it gets for a failed Receive too. *)
ReceivePastEnd(l) ==
    /\ loops[l].receiver = "receive"
    /\ loops[l].received <= remote[loops[l].name]
    /\ loops' = [loops EXCEPT ![l].receiver = "send", ![l].received = @ + 1]
    /\ UNCHANGED <<servers, closed, remote, local>>

(* The receiver takes the next record off the stream... *)
Receive(l) ==
    /\ loops[l].receiver = "receive"
    /\ loops[l].received < remote[loops[l].name]
    /\ loops' = [loops EXCEPT ![l].receiver = "send", ![l].received = @ + 1]
    /\ UNCHANGED <<servers, closed, remote, local>>

(* ... and sends it on the channel, which blocks while the channel is full. *)
Send(l) ==
    /\ loops[l].receiver = "send"
    /\ Len(loops[l].records) < BufferCap
    /\ loops' = [loops EXCEPT ![l].receiver = "receive",
                              ![l].records = Append(@, loops[l].received - 1)]
    /\ UNCHANGED <<servers, closed, remote, local>>

(* The stream ends: stream.Receive returns false.  The loop is not told. *)
StreamEnds(l) ==
    /\ loops[l].receiver = "receive"
    /\ loops' = [loops EXCEPT ![l].receiver = "off"]
    /\ UNCHANGED <<servers, closed, remote, local>>

(* A faulty select that does not watch the close channel. *)
SelectLeaveOnly(l) ==
    /\ loops[l].pc = "select"
    /\ loops[l].left
    /\ loops' = [loops EXCEPT ![l].pc = "done"]
    /\ UNCHANGED <<servers, closed, remote, local>>

(* The select returns: the close or the leave channel is closed. *)
SelectReturns(l) ==
    /\ loops[l].pc = "select"
    /\ closed \/ loops[l].left
    /\ loops' = [loops EXCEPT ![l].pc = "done"]
    /\ UNCHANGED <<servers, closed, remote, local>>

(* The select takes a record, even when one of the other two is ready. *)
SelectRecord(l) ==
    /\ loops[l].pc = "select"
    /\ loops[l].records # <<>>
    /\ loops' = [loops EXCEPT ![l].pc = "produce", ![l].record = Head(loops[l].records),
                              ![l].records = Tail(@)]
    /\ UNCHANGED <<servers, closed, remote, local>>

(* A faulty loop that goes on with the next record after an error. *)
ProduceFailsGoesOn(l) ==
    /\ loops[l].pc = "produce"
    /\ loops' = [loops EXCEPT ![l].pc = "select", ![l].record = 0]
    /\ UNCHANGED <<servers, closed, remote, local>>

(* The local server's Produce succeeds, or fails and ends the loop. *)
Produce(l) ==
    /\ loops[l].pc = "produce"
    /\ local' = Append(local, <<l, loops[l].record>>)
    /\ loops' = [loops EXCEPT ![l].pc = "select", ![l].record = 0]
    /\ UNCHANGED <<servers, closed, remote>>

ProduceFails(l) ==
    /\ loops[l].pc = "produce"
    /\ loops' = [loops EXCEPT ![l].pc = "done", ![l].record = 0]
    /\ UNCHANGED <<servers, closed, remote, local>>

(* A record is appended to the log of a server. *)
Grow(s) ==
    /\ remote[s] < MaxRecords
    /\ remote' = [remote EXCEPT ![s] = @ + 1]
    /\ UNCHANGED <<servers, closed, loops, local>>

-----------------------------------------------------------------------------
Next ==
    \/ \E s \in Server : Join(s) \/ Leave(s) \/ Grow(s)
    \/ Close
    \/ \E l \in Loop :
          \/ Connect(l) \/ ConnectFails(l)
          \/ Receive(l) \/ Send(l) \/ StreamEnds(l)
          \/ SelectReturns(l) \/ SelectRecord(l)
          \/ Produce(l) \/ ProduceFails(l)

(***************************************************************************)
(* Calls to the servers return, and a select picks at random among the     *)
(* ready cases, so that a closed channel is picked in the end even if      *)
(* records keep coming: strong fairness.                                   *)
(***************************************************************************)
LoopFairness(l) ==
    /\ WF_vars(l \in Loop /\ (Connect(l) \/ ConnectFails(l)))
    /\ WF_vars(l \in Loop /\ (SelectReturns(l) \/ SelectRecord(l)))
    /\ SF_vars(l \in Loop /\ SelectReturns(l))
    /\ WF_vars(l \in Loop /\ (Produce(l) \/ ProduceFails(l)))

Fairness == \A l \in 1 .. MaxLoops : LoopFairness(l)

Spec == Init /\ [][Next]_vars /\ Fairness

-----------------------------------------------------------------------------
Running(l) == loops[l].pc # "done"

(* Every variable holds a value of its kind. *)
TypeOK ==
    /\ servers \in [Server -> Nat \cup {NoLoop}]
    /\ closed \in BOOLEAN
    /\ loops \in Seq([name : Server, left : BOOLEAN,
                      pc : {"connect", "select", "produce", "done"}, record : Nat,
                      receiver : {"off", "receive", "send"}, received : 0 .. MaxRecords,
                      records : Seq(Nat)])
    /\ remote \in [Server -> 0 .. MaxRecords]
    /\ local \in Seq(Nat \X Nat)

(* The records of a loop reach the local server in the order of the remote
   log, without a gap or a repetition, from offset 0 on: neither the channel
   between the goroutines nor an error in Produce loses one in between. *)
CopiesPrefix ==
    \A i \in DOMAIN local :
        LET l == local[i][1]
            o == local[i][2]
        IN  /\ \A j \in DOMAIN local : local[j] = local[i] => j = i
            /\ o > 0 => \E j \in DOMAIN local : j < i /\ local[j] = <<l, o - 1>>

(* Joins and leaves in any order: of the loops started for one name, at most
   one has not been told to leave, and it is the one r.servers knows. *)
OneLoopPerName ==
    \A l \in Loop : ~loops[l].left <=> servers[loops[l].name] = l

(* Close, and Leave, end the loops they are meant for, also while records
   keep arriving or a call to the local server is under way. *)
LoopsEnd ==
    \A l \in 1 .. MaxLoops :
        (l \in Loop /\ (closed \/ loops[l].left)) ~> (l \in Loop /\ ~Running(l))
=============================================================================
