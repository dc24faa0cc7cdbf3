-------------------------------- MODULE Server --------------------------------
(***************************************************************************)
(* The streams of the log API (internal/server/log.go) on one node, over   *)
(* the distributed log (Append, apply and Read of distributed.go) and the  *)
(* state machine raft applies commands to (Apply of fsm.go).               *)
(*                                                                         *)
(* A producer numbers its records, expects one answer for each, and when   *)
(* its stream ends opens another to send again what was not answered.  A   *)
(* record is known by its producer and its number.  A unary Produce is a   *)
(* stream that ends after one answer, a unary Consume one that ends after  *)
(* one record.                                                             *)
(***************************************************************************)
EXTENDS Naturals, Sequences

CONSTANTS
    Producer,   \* clients of ProduceStream
    Consumer,   \* clients of ConsumeStream
    MaxMsgs,    \* bound: records a producer has to send
    MaxLog      \* bound: records in the log

ASSUME ServerAssumption == MaxMsgs \in Nat /\ MaxLog \in Nat \ {0}

VARIABLES
    log,    \* the node's log: the records applied, in order of their offset
    late,   \* records whose Append failed and that may yet be committed
    prod,   \* per producer: where its stream is, the number of the record it
            \* handles, that record's offset, and the answers the client has
            \* (the locals of a loop or stream that is over are reset)
    cons    \* per consumer: where its stream is, the offset it started from,
            \* the one it is at, the record it read, and what the client has

vars == <<log, late, prod, cons>>

Sent == Producer \X (1 .. MaxMsgs)
Offset == 0 .. MaxLog - 1
NoRecord == <<>>

Init ==
    /\ log = <<>>
    /\ late = {}
    /\ prod = [p \in Producer |-> [pc |-> "receive", msg |-> 1, off |-> 0, acks |-> <<>>]]
    /\ cons \in [Consumer -> {[pc |-> "read", start |-> s, off |-> s, rec |-> NoRecord,
                               got |-> <<>>] : s \in Offset}]

-----------------------------------------------------------------------------
(* A faulty Receive that does not notice the end of the stream. *)
ReceivePastEnd(p) ==
    /\ prod[p].pc = "receive"
    /\ prod' = [prod EXCEPT ![p].pc = "produce"]
    /\ UNCHANGED <<log, late, cons>>

Receive(p) ==
    /\ prod[p].pc = "receive"
    /\ prod[p].msg <= MaxMsgs
    /\ prod' = [prod EXCEPT ![p].pc = "produce"]
    /\ UNCHANGED <<log, late, cons>>

(* The client closes the stream, or the connection fails. *)
ReceiveEnds(p) ==
    /\ prod[p].pc = "receive"
    /\ prod' = [prod EXCEPT ![p].pc = "returned", ![p].msg = 1]
    /\ UNCHANGED <<log, late, cons>>

(* A faulty Produce that answers with the number of records. *)
ProduceCounts(p) ==
    /\ prod[p].pc = "produce"
    /\ Len(log) < MaxLog
    /\ log' = Append(log, <<p, prod[p].msg>>)
    /\ prod' = [prod EXCEPT ![p].pc = "send", ![p].off = Len(log')]
    /\ UNCHANGED <<late, cons>>

(* The command is committed; Apply appends the record and returns its offset. *)
Produce(p) ==
    /\ prod[p].pc = "produce"
    /\ Len(log) < MaxLog
    /\ log' = Append(log, <<p, prod[p].msg>>)
    /\ prod' = [prod EXCEPT ![p].pc = "send", ![p].off = Len(log)]
    /\ UNCHANGED <<late, cons>>

(* A faulty stream that goes on with the next record when one fails. *)
ProduceFailsGoesOn(p) ==
    /\ prod[p].pc = "produce"
    /\ prod' = [prod EXCEPT ![p].pc = "receive", ![p].msg = @ + 1]
    /\ late' \in {late, late \cup {<<p, prod[p].msg>>}}
    /\ UNCHANGED <<log, cons>>

(***************************************************************************)
(* The command fails and the stream ends with an internal error.  When the *)
(* node has lost its leadership meanwhile, the command may be in the raft  *)
(* log of the next leader and be committed all the same.                   *)
(***************************************************************************)
ProduceFails(p) ==
    /\ prod[p].pc = "produce"
    /\ prod' = [prod EXCEPT ![p].pc = "returned", ![p].msg = 1]
    /\ late' \in {late, late \cup {<<p, prod[p].msg>>}}
    /\ UNCHANGED <<log, cons>>

LateCommit ==
    /\ Len(log) < MaxLog
    /\ \E r \in late :
          /\ log' = Append(log, r)
          /\ late' = late \ {r}
    /\ UNCHANGED <<prod, cons>>

(* The answer is sent; the client gets it. *)
SendOffset(p) ==
    /\ prod[p].pc = "send"
    /\ prod[p].msg = Len(prod[p].acks) + 1
    /\ prod' = [prod EXCEPT ![p].pc = "receive", ![p].msg = @ + 1, ![p].off = 0,
                            ![p].acks = Append(@, prod[p].off)]
    /\ UNCHANGED <<log, late, cons>>

(***************************************************************************)
(* The connection is broken.  Send may find out, and ends the stream; or   *)
(* it does not, and the stream goes on with a record that was sent before. *)
(***************************************************************************)
SendUnheard(p) ==
    /\ prod[p].pc = "send"
    /\ \/ prod' = [prod EXCEPT ![p].pc = "returned", ![p].msg = 1, ![p].off = 0]
       \/ prod' = [prod EXCEPT ![p].pc = "receive", ![p].msg = @ + 1, ![p].off = 0]
    /\ UNCHANGED <<log, late, cons>>

(* The client opens another stream and sends what was not answered. *)
Retry(p) ==
    /\ prod[p].pc = "returned"
    /\ Len(prod[p].acks) < MaxMsgs
    /\ prod' = [prod EXCEPT ![p].pc = "receive", ![p].msg = Len(prod[p].acks) + 1]
    /\ UNCHANGED <<log, late, cons>>

-----------------------------------------------------------------------------
(* A faulty Consume that does not serve the newest record. *)
ConsumeNotNewest(c) ==
    /\ cons[c].pc = "read"
    /\ cons[c].off + 1 < Len(log)
    /\ cons' = [cons EXCEPT ![c].pc = "send", ![c].rec = log[cons[c].off + 1]]
    /\ UNCHANGED <<log, late, prod>>

(***************************************************************************)
(* Consume, in the loop of ConsumeStream.  When the offset is out of range *)
(* the loop just tries again.                                              *)
(***************************************************************************)
Consume(c) ==
    /\ cons[c].pc = "read"
    /\ cons[c].off < Len(log)
    /\ cons' = [cons EXCEPT ![c].pc = "send", ![c].rec = log[cons[c].off + 1]]
    /\ UNCHANGED <<log, late, prod>>

(* A faulty loop that does not advance. *)
SendRecordAgain(c) ==
    /\ cons[c].pc = "send"
    /\ cons' = [cons EXCEPT ![c].pc = "read", ![c].rec = NoRecord,
                            ![c].got = Append(@, cons[c].rec)]
    /\ UNCHANGED <<log, late, prod>>

(* The record is sent and the offset advances. *)
SendRecord(c) ==
    /\ cons[c].pc = "send"
    /\ cons' = [cons EXCEPT ![c].pc = "read", ![c].off = @ + 1,
                            ![c].rec = NoRecord, ![c].got = Append(@, cons[c].rec)]
    /\ UNCHANGED <<log, late, prod>>

(* The context is done, Read fails, or Send does. *)
ConsumeEnds(c) ==
    /\ cons[c].pc \in {"read", "send"}
    /\ cons' = [cons EXCEPT ![c].pc = "returned", ![c].off = 0, ![c].rec = NoRecord]
    /\ UNCHANGED <<log, late, prod>>

(* The client opens another stream after the last record it has. *)
Resume(c) ==
    /\ cons[c].pc = "returned"
    /\ cons' = [cons EXCEPT ![c].pc = "read", ![c].off = cons[c].start + Len(cons[c].got)]
    /\ UNCHANGED <<log, late, prod>>

-----------------------------------------------------------------------------
Next ==
    \/ \E p \in Producer :
          \/ Receive(p) \/ ReceiveEnds(p) \/ Produce(p) \/ ProduceFails(p)
          \/ SendOffset(p) \/ SendUnheard(p) \/ Retry(p)
    \/ LateCommit
    \/ \E c \in Consumer :
          Consume(c) \/ SendRecord(c) \/ ConsumeEnds(c) \/ Resume(c)

(* The goroutine of a stream is scheduled for ever, and so loops on. *)
Fairness == \A c \in Consumer : WF_vars(Consume(c)) /\ WF_vars(SendRecord(c))

Spec == Init /\ [][Next]_vars /\ Fairness

-----------------------------------------------------------------------------
(* Every variable holds a value of its kind. *)
TypeOK ==
    /\ log \in Seq(Sent)
    /\ late \subseteq Sent
    /\ prod \in [Producer -> [pc : {"receive", "produce", "send", "returned"},
                              msg : 1 .. MaxMsgs + 1, off : Offset, acks : Seq(Offset)]]
    /\ cons \in [Consumer -> [pc : {"read", "send", "returned"}, start : Offset,
                              off : 0 .. MaxLog, rec : Sent \cup {NoRecord}, got : Seq(Sent)]]

(* The offset ProduceStream answers with is that of the record it answers,
   whichever producers append at the same time and whatever was retried. *)
AnsweredIsStored ==
    \A p \in Producer : \A n \in 1 .. Len(prod[p].acks) :
        /\ prod[p].acks[n] < Len(log)
        /\ log[prod[p].acks[n] + 1] = <<p, n>>

(* The records of a producer first enter the log in the order it sent them:
   neither failed commands that commit late nor retries bring record n + 1
   in before record n. *)
FirstInOrder ==
    \A i \in 1 .. Len(log) :
        LET p == log[i][1]
            n == log[i][2]
        IN  n > 1 => \E j \in 1 .. i - 1 : log[j] = <<p, n - 1>>

(* ConsumeStream, over any number of broken and resumed streams, gives the
   client the records from its start offset on, none missing, none twice. *)
ConsumedInOrder ==
    \A c \in Consumer : \A n \in 1 .. Len(cons[c].got) :
        /\ cons[c].start + n <= Len(log)
        /\ cons[c].got[n] = log[cons[c].start + n]

(* A consumer that polls receives every record of its range in the end,
   unless its stream ends. *)
AllDelivered ==
    \A c \in Consumer, o \in Offset :
        (cons[c].start <= o /\ o < Len(log)) ~>
            (cons[c].start + Len(cons[c].got) > o \/ cons[c].pc = "returned")
=============================================================================
