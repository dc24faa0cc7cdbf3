--------------------------- MODULE ReplicatorProofs ---------------------------
(***************************************************************************)
(* Proofs about module Replicator, for every number of servers, loops and  *)
(* records and every capacity of the channel.                              *)
(***************************************************************************)
EXTENDS Replicator, TLAPS

LoopType == [name : Server, left : BOOLEAN,
             pc : {"connect", "select", "produce", "done"}, record : Nat,
             receiver : {"off", "receive", "send"}, received : 0 .. MaxRecords,
             records : Seq(Nat)]

InLocal(l, o) == \E i \in DOMAIN local : local[i] = <<l, o>>

(* Records the loop, and the receiver, hold outside the channel. *)
Held(s) == IF s.pc = "produce" THEN 1 ELSE 0
InHand(s) == IF s.receiver = "send" THEN 1 ELSE 0

(* Loop l, in state s, has produced the offsets below n, and the next ones are
   on their way: with the loop, in the channel and with the receiver. *)
Flow(l, s, n) ==
    /\ \A o \in Nat : InLocal(l, o) <=> o < n
    /\ s.pc = "connect" => s.receiver = "off"
    /\ s.receiver = "send" => s.received > 0
    /\ s.pc # "done" =>
          /\ s.pc = "produce" => s.record = n
          /\ \A i \in DOMAIN s.records : s.records[i] = n + Held(s) + i - 1
          /\ s.received = n + Held(s) + Len(s.records) + InHand(s)

(* r.servers names loops of the right server. *)
Named ==
    \A s \in Server : servers[s] # NoLoop => servers[s] \in Loop /\ loops[servers[s]].name = s

(* The inductive invariant. *)
RInv ==
    /\ TypeOK
    /\ OneLoopPerName
    /\ Named
    /\ \A i \in DOMAIN local : local[i][1] \in Loop
    /\ \A l \in Loop : \E n \in Nat : Flow(l, loops[l], n)
    /\ CopiesPrefix
-----------------------------------------------------------------------------
USE ReplicatorAssumption

(* The parts of the invariant that all steps need. *)
LEMMA Types ==
  ASSUME RInv
  PROVE  /\ loops \in Seq(LoopType) /\ Len(loops) \in Nat /\ Loop = 1 .. Len(loops)
         /\ \A l \in Loop : loops[l] \in LoopType
         /\ servers \in [Server -> Nat \cup {NoLoop}]
         /\ remote \in [Server -> 0 .. MaxRecords]
         /\ local \in Seq(Nat \X Nat)
<1>1. loops \in Seq(LoopType)
  BY DEF RInv, TypeOK, LoopType
<1>2. Len(loops) \in Nat /\ Loop = 1 .. Len(loops) /\ \A l \in Loop : loops[l] \in LoopType
  BY <1>1 DEF Loop
<1>3. QED
  BY <1>1, <1>2 DEF RInv, TypeOK

(* A step of one loop that produces nothing. *)
LEMMA LoopStep ==
  ASSUME RInv, NEW l \in Loop, NEW s \in LoopType, loops' = [loops EXCEPT ![l] = s],
         s.name = loops[l].name, s.left = loops[l].left,
         UNCHANGED <<servers, closed, remote, local>>,
         \A n \in Nat : Flow(l, loops[l], n) => Flow(l, s, n)
  PROVE  RInv'
<1>1. /\ loops' \in Seq(LoopType) /\ Loop' = Loop /\ loops'[l] = s
      /\ \A m \in Loop \ {l} : loops'[m] = loops[m]
  BY Types DEF Loop
<1>2. \A m \in Loop : loops'[m].name = loops[m].name /\ loops'[m].left = loops[m].left
  BY <1>1
<1>3. TypeOK'
  BY <1>1 DEF RInv, TypeOK, LoopType
<1>4. OneLoopPerName' /\ Named'
  BY <1>1, <1>2 DEF RInv, OneLoopPerName, Named
<1>5. \A i \in DOMAIN local' : local'[i][1] \in Loop'
  BY <1>1 DEF RInv
<1>6. ASSUME NEW m \in Loop PROVE \E n \in Nat : Flow(m, loops[m], n)'
  <2>1. PICK n \in Nat : Flow(m, loops[m], n)
    BY DEF RInv
  <2>2. Flow(m, loops'[m], n)
    BY <1>1, <2>1
  <2>3. QED
    BY <2>2, SMTT(30) DEF Flow, InLocal
<1>7. CopiesPrefix'
  BY DEF RInv, CopiesPrefix
<1>8. QED
  BY <1>1, <1>3, <1>4, <1>5, <1>6, <1>7 DEF RInv

(* The stream is opened. *)
LEMMA ConnectInv ==
  ASSUME RInv, NEW l \in Loop, Connect(l)
  PROVE  RInv'
<1> DEFINE s == [loops[l] EXCEPT !.pc = "select", !.receiver = "receive"]
<1>1. loops[l] \in LoopType
  BY Types
<1>2. loops' = [loops EXCEPT ![l] = s] /\ UNCHANGED <<servers, closed, remote, local>>
  BY Types DEF Connect
<1>3. s \in LoopType
  BY <1>1 DEF LoopType
<1>4. /\ s.name = loops[l].name /\ s.left = loops[l].left
      /\ s.pc = "select" /\ s.receiver = "receive"
      /\ s.record = loops[l].record /\ s.records = loops[l].records /\ s.received = loops[l].received
  BY <1>1 DEF LoopType
<1> HIDE DEF s
<1>5. ASSUME NEW n \in Nat, Flow(l, loops[l], n) PROVE Flow(l, s, n)
  BY <1>1, <1>3, <1>4, <1>5 DEF Flow, Held, InHand, LoopType, Connect
<1>6. QED
  BY <1>2, <1>3, <1>4, <1>5, LoopStep

(* It is not. *)
LEMMA ConnectFailsInv ==
  ASSUME RInv, NEW l \in Loop, ConnectFails(l)
  PROVE  RInv'
<1> DEFINE s == [loops[l] EXCEPT !.pc = "done"]
<1>1. loops[l] \in LoopType
  BY Types
<1>2. loops' = [loops EXCEPT ![l] = s] /\ UNCHANGED <<servers, closed, remote, local>>
  BY Types DEF ConnectFails
<1>3. s \in LoopType
  BY <1>1 DEF LoopType
<1>4. /\ s.name = loops[l].name /\ s.left = loops[l].left
      /\ s.pc = "done" /\ s.receiver = loops[l].receiver
      /\ s.record = loops[l].record /\ s.records = loops[l].records /\ s.received = loops[l].received
  BY <1>1 DEF LoopType
<1> HIDE DEF s
<1>5. ASSUME NEW n \in Nat, Flow(l, loops[l], n) PROVE Flow(l, s, n)
  BY <1>1, <1>3, <1>4, <1>5 DEF Flow, Held, InHand, LoopType, ConnectFails
<1>6. QED
  BY <1>2, <1>3, <1>4, <1>5, LoopStep

(* The receiver takes a record off the stream. *)
LEMMA ReceiveInv ==
  ASSUME RInv, NEW l \in Loop, Receive(l)
  PROVE  RInv'
<1> DEFINE s == [loops[l] EXCEPT !.receiver = "send", !.received = @ + 1]
<1>1. loops[l] \in LoopType
  BY Types
<1>2. loops' = [loops EXCEPT ![l] = s] /\ UNCHANGED <<servers, closed, remote, local>>
  BY Types DEF Receive
<1>3. s \in LoopType
  <2>1. remote[loops[l].name] \in 0 .. MaxRecords
    BY <1>1, Types DEF LoopType
  <2>2. loops[l].received + 1 \in 0 .. MaxRecords
    BY <1>1, <2>1 DEF LoopType, Receive
  <2>3. QED
    BY <1>1, <2>2 DEF LoopType
<1>4. /\ s.name = loops[l].name /\ s.left = loops[l].left
      /\ s.pc = loops[l].pc /\ s.receiver = "send" /\ s.received = loops[l].received + 1
      /\ s.record = loops[l].record /\ s.records = loops[l].records
  BY <1>1 DEF LoopType
<1> HIDE DEF s
<1>5. ASSUME NEW n \in Nat, Flow(l, loops[l], n) PROVE Flow(l, s, n)
  BY <1>1, <1>3, <1>4, <1>5, SMTT(30) DEF Flow, Held, InHand, LoopType, Receive
<1>6. QED
  BY <1>2, <1>3, <1>4, <1>5, LoopStep

(* The stream ends. *)
LEMMA StreamEndsInv ==
  ASSUME RInv, NEW l \in Loop, StreamEnds(l)
  PROVE  RInv'
<1> DEFINE s == [loops[l] EXCEPT !.receiver = "off"]
<1>1. loops[l] \in LoopType
  BY Types
<1>2. loops' = [loops EXCEPT ![l] = s] /\ UNCHANGED <<servers, closed, remote, local>>
  BY Types DEF StreamEnds
<1>3. s \in LoopType
  BY <1>1 DEF LoopType
<1>4. /\ s.name = loops[l].name /\ s.left = loops[l].left
      /\ s.pc = loops[l].pc /\ s.receiver = "off"
      /\ s.record = loops[l].record /\ s.records = loops[l].records /\ s.received = loops[l].received
  BY <1>1 DEF LoopType
<1> HIDE DEF s
<1>5. ASSUME NEW n \in Nat, Flow(l, loops[l], n) PROVE Flow(l, s, n)
  BY <1>1, <1>3, <1>4, <1>5 DEF Flow, Held, InHand, LoopType, StreamEnds
<1>6. QED
  BY <1>2, <1>3, <1>4, <1>5, LoopStep

(* The loop is told to end. *)
LEMMA SelectReturnsInv ==
  ASSUME RInv, NEW l \in Loop, SelectReturns(l)
  PROVE  RInv'
<1> DEFINE s == [loops[l] EXCEPT !.pc = "done"]
<1>1. loops[l] \in LoopType
  BY Types
<1>2. loops' = [loops EXCEPT ![l] = s] /\ UNCHANGED <<servers, closed, remote, local>>
  BY Types DEF SelectReturns
<1>3. s \in LoopType
  BY <1>1 DEF LoopType
<1>4. /\ s.name = loops[l].name /\ s.left = loops[l].left
      /\ s.pc = "done" /\ s.receiver = loops[l].receiver
      /\ s.record = loops[l].record /\ s.records = loops[l].records /\ s.received = loops[l].received
  BY <1>1 DEF LoopType
<1> HIDE DEF s
<1>5. ASSUME NEW n \in Nat, Flow(l, loops[l], n) PROVE Flow(l, s, n)
  BY <1>1, <1>3, <1>4, <1>5 DEF Flow, Held, InHand, LoopType, SelectReturns
<1>6. QED
  BY <1>2, <1>3, <1>4, <1>5, LoopStep

(* The local server fails, and the loop ends. *)
LEMMA ProduceFailsInv ==
  ASSUME RInv, NEW l \in Loop, ProduceFails(l)
  PROVE  RInv'
<1> DEFINE s == [loops[l] EXCEPT !.pc = "done", !.record = 0]
<1>1. loops[l] \in LoopType
  BY Types
<1>2. loops' = [loops EXCEPT ![l] = s] /\ UNCHANGED <<servers, closed, remote, local>>
  BY Types DEF ProduceFails
<1>3. s \in LoopType
  BY <1>1 DEF LoopType
<1>4. /\ s.name = loops[l].name /\ s.left = loops[l].left
      /\ s.pc = "done" /\ s.receiver = loops[l].receiver /\ s.received = loops[l].received
  BY <1>1 DEF LoopType
<1> HIDE DEF s
<1>5. ASSUME NEW n \in Nat, Flow(l, loops[l], n) PROVE Flow(l, s, n)
  BY <1>1, <1>3, <1>4, <1>5 DEF Flow, Held, InHand, LoopType, ProduceFails
<1>6. QED
  BY <1>2, <1>3, <1>4, <1>5, LoopStep
(* The receiver puts its record at the end of the channel. *)
LEMMA SendInv ==
  ASSUME RInv, NEW l \in Loop, Send(l)
  PROVE  RInv'
<1> DEFINE s == [loops[l] EXCEPT !.receiver = "receive",
                                 !.records = Append(@, loops[l].received - 1)]
<1>1. loops[l] \in LoopType /\ loops[l].receiver = "send"
  BY Types DEF Send
<1>2. loops' = [loops EXCEPT ![l] = s] /\ UNCHANGED <<servers, closed, remote, local>>
  BY Types DEF Send
<1>3. loops[l].received - 1 \in Nat
  <2>1. loops[l].received > 0
    BY <1>1 DEF RInv, Flow
  <2>2. QED
    BY <1>1, <2>1 DEF LoopType
<1>4. s \in LoopType
  <2>1. Append(loops[l].records, loops[l].received - 1) \in Seq(Nat)
    BY <1>1, <1>3 DEF LoopType
  <2>2. QED
    BY <1>1, <2>1 DEF LoopType
<1>5. /\ s.name = loops[l].name /\ s.left = loops[l].left
      /\ s.pc = loops[l].pc /\ s.receiver = "receive" /\ s.received = loops[l].received
      /\ s.record = loops[l].record
      /\ s.records = Append(loops[l].records, loops[l].received - 1)
  BY <1>1 DEF LoopType
<1> HIDE DEF s
<1>6. ASSUME NEW n \in Nat, Flow(l, loops[l], n) PROVE Flow(l, s, n)
  <2>1. /\ loops[l].records \in Seq(Nat) /\ Len(loops[l].records) \in Nat
        /\ loops[l].received \in Nat /\ Held(loops[l]) \in Nat /\ Held(s) = Held(loops[l])
    BY <1>1, <1>5 DEF LoopType, Held
  <2>2. ASSUME s.pc # "done"
        PROVE  /\ \A i \in DOMAIN s.records : s.records[i] = n + Held(s) + i - 1
               /\ s.received = n + Held(s) + Len(s.records) + InHand(s)
    <3>1. /\ \A i \in DOMAIN loops[l].records : loops[l].records[i] = n + Held(s) + i - 1
          /\ loops[l].received = n + Held(s) + Len(loops[l].records) + 1
      BY <1>1, <1>5, <1>6, <2>1, <2>2 DEF Flow, InHand
    <3>2. Len(s.records) = Len(loops[l].records) + 1
      BY <1>3, <1>5, <2>1
    <3>3. ASSUME NEW i \in DOMAIN s.records PROVE s.records[i] = n + Held(s) + i - 1
      <4>1. CASE i = Len(loops[l].records) + 1
        <5>1. s.records[i] = loops[l].received - 1
          BY <1>3, <1>5, <2>1, <4>1
        <5>2. QED
          BY <2>1, <3>1, <4>1, <5>1, SMTT(30)
      <4>2. CASE i # Len(loops[l].records) + 1
        <5>1. i \in DOMAIN loops[l].records /\ s.records[i] = loops[l].records[i]
          BY <1>3, <1>5, <2>1, <3>3, <4>2
        <5>2. QED
          BY <3>1, <5>1
      <4>3. QED
        BY <4>1, <4>2
    <3>4. s.received = n + Held(s) + Len(s.records) + InHand(s)
      BY <1>5, <2>1, <3>1, <3>2 DEF InHand
    <3>5. QED
      BY <3>3, <3>4
  <2>3. QED
    BY <1>1, <1>5, <1>6, <2>2 DEF Flow
<1>7. QED
  BY <1>2, <1>4, <1>5, <1>6, LoopStep

(* The loop takes the first record off the channel. *)
LEMMA SelectRecordInv ==
  ASSUME RInv, NEW l \in Loop, SelectRecord(l)
  PROVE  RInv'
<1> DEFINE s == [loops[l] EXCEPT !.pc = "produce", !.record = Head(loops[l].records),
                                 !.records = Tail(@)]
<1>1. loops[l] \in LoopType /\ loops[l].pc = "select" /\ loops[l].records # <<>>
  BY Types DEF SelectRecord
<1>2. loops' = [loops EXCEPT ![l] = s] /\ UNCHANGED <<servers, closed, remote, local>>
  BY Types DEF SelectRecord
<1>3. /\ loops[l].records \in Seq(Nat) /\ Len(loops[l].records) \in Nat \ {0}
      /\ loops[l].received \in Nat
  BY <1>1 DEF LoopType
<1>4. s \in LoopType
  <2>1. Head(loops[l].records) \in Nat /\ Tail(loops[l].records) \in Seq(Nat)
    BY <1>1, <1>3
  <2>2. QED
    BY <1>1, <2>1 DEF LoopType
<1>5. /\ s.name = loops[l].name /\ s.left = loops[l].left
      /\ s.pc = "produce" /\ s.receiver = loops[l].receiver /\ s.received = loops[l].received
      /\ s.record = Head(loops[l].records) /\ s.records = Tail(loops[l].records)
  BY <1>1 DEF LoopType
<1> HIDE DEF s
<1>6. ASSUME NEW n \in Nat, Flow(l, loops[l], n) PROVE Flow(l, s, n)
  <2>1. /\ \A i \in DOMAIN loops[l].records : loops[l].records[i] = n + i - 1
        /\ loops[l].received = n + Len(loops[l].records) + InHand(loops[l])
    BY <1>1, <1>3, <1>6 DEF Flow, Held, InHand
  <2>2. Held(s) = 1 /\ InHand(s) = InHand(loops[l]) /\ InHand(s) \in Nat
    BY <1>5 DEF Held, InHand
  <2>3. /\ Head(loops[l].records) = loops[l].records[1] /\ 1 \in DOMAIN loops[l].records
        /\ Len(s.records) = Len(loops[l].records) - 1
        /\ \A i \in DOMAIN s.records : /\ i \in Nat
                                       /\ i + 1 \in DOMAIN loops[l].records
                                       /\ s.records[i] = loops[l].records[i + 1]
    BY <1>3, <1>5, SMTT(30)
  <2>4. s.record = n
    BY <1>5, <2>1, <2>3
  <2>5. ASSUME NEW i \in DOMAIN s.records PROVE s.records[i] = n + Held(s) + i - 1
    <3>1. i \in Nat /\ s.records[i] = n + (i + 1) - 1
      BY <2>1, <2>3
    <3>2. n + (i + 1) - 1 = n + 1 + i - 1
      BY <3>1
    <3>3. QED
      BY <2>2, <3>1, <3>2
  <2>6. s.received = n + Held(s) + Len(s.records) + InHand(s)
    <3>1. \A k \in Nat, h \in Nat : n + k + h = n + 1 + (k - 1) + h
      OBVIOUS
    <3>2. n + Len(loops[l].records) + InHand(s)
              = n + 1 + (Len(loops[l].records) - 1) + InHand(s)
      BY <1>3, <2>2, <3>1
    <3>3. QED
      BY <1>5, <2>1, <2>2, <2>3, <3>2
  <2>7. QED
    BY <1>1, <1>5, <1>6, <2>4, <2>5, <2>6 DEF Flow
<1>7. QED
  BY <1>2, <1>4, <1>5, <1>6, LoopStep
(* The record the loop holds is the next one of its server's log. *)
LEMMA ProduceInv ==
  ASSUME RInv, NEW l \in Loop, Produce(l)
  PROVE  RInv'
<1> DEFINE s == [loops[l] EXCEPT !.pc = "select", !.record = 0]
<1>1. loops[l] \in LoopType /\ loops[l].pc = "produce"
  BY Types DEF Produce
<1>2. loops' = [loops EXCEPT ![l] = s] /\ UNCHANGED <<servers, closed, remote>>
  BY Types DEF Produce
<1>3. s \in LoopType
  BY <1>1 DEF LoopType
<1>4. /\ s.name = loops[l].name /\ s.left = loops[l].left
      /\ s.pc = "select" /\ s.receiver = loops[l].receiver
      /\ s.records = loops[l].records /\ s.received = loops[l].received
  BY <1>1 DEF LoopType
<1> HIDE DEF s
<1>5. PICK n \in Nat : Flow(l, loops[l], n)
  BY DEF RInv
<1>6. l \in Nat /\ local' = Append(local, <<l, n>>)
  BY <1>1, <1>5, Types DEF Produce, Flow
<1> DEFINE new == Len(local) + 1
<1>6a. local' \in Seq(Nat \X Nat)
  BY <1>6, Types
<1>7. /\ DOMAIN local' = DOMAIN local \cup {new} /\ local'[new] = <<l, n>>
      /\ \A i \in DOMAIN local : i \in Nat /\ i < new /\ local'[i] = local[i]
  <2>1. local \in Seq(Nat \X Nat) /\ Len(local) \in Nat /\ <<l, n>> \in Nat \X Nat
    BY <1>6, Types
  <2>2. DOMAIN local = 1 .. Len(local) /\ DOMAIN local' = 1 .. new /\ local'[new] = <<l, n>>
    BY <1>6, <2>1
  <2>3. \A i \in DOMAIN local : local'[i] = local[i]
    BY <1>6, <2>1
  <2>4. QED
    BY <2>1, <2>2, <2>3
<1> HIDE DEF new
<1>8. \A i \in DOMAIN local : local[i] # <<l, n>>
  BY <1>5 DEF Flow, InLocal
<1>9. /\ loops' \in Seq(LoopType) /\ Loop' = Loop /\ loops'[l] = s
      /\ \A m \in Loop \ {l} : loops'[m] = loops[m]
  BY <1>2, <1>3, Types DEF Loop
<1>10. TypeOK'
  BY <1>2, <1>6a, <1>9 DEF RInv, TypeOK, LoopType
<1>11. OneLoopPerName' /\ Named'
  <2>1. \A m \in Loop : loops'[m].name = loops[m].name /\ loops'[m].left = loops[m].left
    BY <1>4, <1>9
  <2>2. QED
    BY <1>2, <1>9, <2>1 DEF RInv, OneLoopPerName, Named
<1>12. \A i \in DOMAIN local' : local'[i][1] \in Loop'
  BY <1>7, <1>9 DEF RInv
<1>13. ASSUME NEW m, NEW o
       PROVE  InLocal(m, o)' <=> InLocal(m, o) \/ <<m, o>> = <<l, n>>
  BY <1>7 DEF InLocal
<1>14. ASSUME NEW m \in Loop PROVE \E k \in Nat : Flow(m, loops[m], k)'
  <2>1. CASE m = l
    <3>1. \A o \in Nat : InLocal(l, o)' <=> o < n + 1
      <4>1. ASSUME NEW o \in Nat PROVE InLocal(l, o)' <=> o < n + 1
        <5>1. InLocal(l, o) <=> o < n
          BY <1>5 DEF Flow
        <5>2. InLocal(l, o)' <=> InLocal(l, o) \/ o = n
          BY <1>13
        <5>3. QED
          BY <5>1, <5>2
      <4>2. QED
        BY <4>1
    <3>2. /\ \A i \in DOMAIN s.records : s.records[i] = n + 1 + i - 1
          /\ s.received = n + 1 + Len(s.records) + InHand(s)
          /\ s.receiver = "send" => s.received > 0
      BY <1>1, <1>4, <1>5 DEF Flow, Held, InHand
    <3>3. Held(s) = 0 /\ InHand(s) \in Nat /\ s.records \in Seq(Nat) /\ Len(s.records) \in Nat
      BY <1>3, <1>4 DEF Held, InHand, LoopType
    <3>4. /\ \A i \in DOMAIN s.records : s.records[i] = (n + 1) + Held(s) + i - 1
          /\ s.received = (n + 1) + Held(s) + Len(s.records) + InHand(s)
      BY <3>2, <3>3
    <3>5. Flow(l, loops[l], n + 1)'
      BY <1>4, <1>9, <3>1, <3>2, <3>4 DEF Flow, Held, InHand
    <3>6. QED
      BY <2>1, <3>5
  <2>2. CASE m # l
    <3>1. PICK k \in Nat : Flow(m, loops[m], k)
      BY DEF RInv
    <3>2. \A o \in Nat : InLocal(m, o)' <=> InLocal(m, o)
      BY <1>13, <2>2
    <3>3. Flow(m, loops[m], k)'
      BY <1>9, <2>2, <3>1, <3>2 DEF Flow
    <3>4. QED
      BY <3>3
  <2>3. QED
    BY <2>1, <2>2
<1>15. CopiesPrefix'
  <2>1. ASSUME NEW i \in DOMAIN local', NEW j \in DOMAIN local', local'[j] = local'[i]
        PROVE  j = i
    BY <1>7, <1>8, <2>1 DEF RInv, CopiesPrefix
  <2>2. ASSUME NEW i \in DOMAIN local', local'[i][2] > 0
        PROVE  \E j \in DOMAIN local' : j < i /\ local'[j] = <<local'[i][1], local'[i][2] - 1>>
    <3>1. CASE i \in DOMAIN local
      <4>1. PICK j \in DOMAIN local : j < i /\ local[j] = <<local[i][1], local[i][2] - 1>>
        BY <1>7, <2>2, <3>1 DEF RInv, CopiesPrefix
      <4>2. QED
        BY <1>7, <3>1, <4>1
    <3>2. CASE i = new
      <4>1. n > 0 /\ n - 1 \in Nat /\ n - 1 < n
        BY <1>7, <2>2, <3>2
      <4>2. PICK j \in DOMAIN local : local[j] = <<l, n - 1>>
        BY <1>5, <4>1 DEF Flow, InLocal
      <4>3. j < i /\ j \in DOMAIN local' /\ local'[j] = <<l, n - 1>>
        BY <1>7, <3>2, <4>2
      <4>4. QED
        BY <1>7, <3>2, <4>3
    <3>3. QED
      BY <1>7, <3>1, <3>2
  <2>3. QED
    BY <2>1, <2>2 DEF CopiesPrefix
<1>16. QED
  BY <1>9, <1>10, <1>11, <1>12, <1>14, <1>15 DEF RInv
(* A new loop has produced nothing, and no record of local bears its number. *)
LEMMA JoinInv ==
  ASSUME RInv, NEW s \in Server, Join(s)
  PROVE  RInv'
<1>0. PICK new \in Nat : new = Len(loops) + 1
  BY Types
<1> DEFINE r == [name |-> s, left |-> FALSE, pc |-> "connect", record |-> 0,
                 receiver |-> "off", received |-> 0, records |-> <<>>]
<1>1. /\ loops' = Append(loops, r) /\ servers[s] = NoLoop
      /\ servers' = [servers EXCEPT ![s] = new] /\ UNCHANGED <<closed, remote, local>>
  BY <1>0 DEF Join
<1>2. r \in LoopType
  BY DEF LoopType
<1>3. /\ r.name = s /\ r.left = FALSE /\ r.pc = "connect" /\ r.receiver = "off"
      /\ r.received = 0 /\ r.records = <<>>
  OBVIOUS
<1> HIDE DEF r
<1>4. loops' \in Seq(LoopType)
  BY <1>1, <1>2, Types
<1>5. /\ Loop' = Loop \cup {new} /\ loops'[new] = r /\ new \notin Loop /\ new \in Nat
      /\ \A l \in Loop : loops'[l] = loops[l] /\ l \in Nat
  <2>1. loops \in Seq(LoopType) /\ Len(loops) \in Nat /\ Loop = 1 .. Len(loops)
    BY Types
  <2>2. Loop' = 1 .. new /\ loops'[new] = r
    BY <1>0, <1>1, <1>2, <2>1 DEF Loop
  <2>3. \A l \in Loop : loops'[l] = loops[l]
    BY <1>1, <1>2, <2>1
  <2>4. QED
    BY <1>0, <2>1, <2>2, <2>3
<1>6. servers \in [Server -> Nat \cup {NoLoop}] /\ servers'[s] = new
  BY <1>1, Types
<1>7. TypeOK'
  <2>1. servers' \in [Server -> Nat \cup {NoLoop}]
    BY <1>1, <1>5, <1>6
  <2>2. QED
    BY <1>1, <1>4, <2>1 DEF RInv, TypeOK, LoopType
<1>8. OneLoopPerName'
  <2>1. ASSUME NEW l \in Loop PROVE ~loops'[l].left <=> servers'[loops'[l].name] = l
    <3>1. loops[l] \in LoopType /\ loops[l].name \in Server
      BY Types DEF LoopType
    <3>2. ~loops[l].left <=> servers[loops[l].name] = l
      BY DEF RInv, OneLoopPerName
    <3>3. l # NoLoop /\ l # new
      BY <1>5
    <3>4. QED
      BY <1>1, <1>5, <1>6, <3>1, <3>2, <3>3
  <2>2. QED
    BY <1>3, <1>5, <1>6, <2>1 DEF OneLoopPerName
<1>9. Named'
  BY <1>1, <1>3, <1>5, <1>6, ZenonT(60) DEF RInv, Named
<1>10. \A i \in DOMAIN local' : local'[i][1] \in Loop'
  BY <1>1, <1>5 DEF RInv
<1>11. ASSUME NEW l \in Loop PROVE \E n \in Nat : Flow(l, loops[l], n)'
  <2>1. PICK n \in Nat : Flow(l, loops[l], n)
    BY DEF RInv
  <2>2. QED
    BY <1>1, <1>5, <2>1, ZenonT(60) DEF Flow, InLocal
<1>12. Flow(new, loops[new], 0)'
  <2>1. \A o \in Nat : ~InLocal(new, o)'
    BY <1>1, <1>5 DEF RInv, InLocal
  <2>2. \A o \in Nat : ~(o < 0)
    OBVIOUS
  <2>3. Held(r) = 0 /\ InHand(r) = 0 /\ Len(r.records) = 0 /\ DOMAIN r.records = {}
    BY <1>3 DEF Held, InHand
  <2>4. QED
    BY <1>3, <1>5, <2>1, <2>2, <2>3 DEF Flow
<1>13. CopiesPrefix'
  BY <1>1 DEF RInv, CopiesPrefix
<1>14. QED
  BY <1>5, <1>7, <1>8, <1>9, <1>10, <1>11, <1>12, <1>13 DEF RInv

(* The loop that is told to leave is the one r.servers names. *)
LEMMA LeaveInv ==
  ASSUME RInv, NEW s \in Server, Leave(s)
  PROVE  RInv'
<1> DEFINE k == servers[s]
<1> DEFINE r == [loops[k] EXCEPT !.left = TRUE]
<1>1. k \in Loop /\ k # NoLoop /\ loops[k].name = s /\ loops[k] \in LoopType
  BY Types DEF RInv, Named, Leave
<1>2. /\ loops' = [loops EXCEPT ![k] = r] /\ servers' = [servers EXCEPT ![s] = NoLoop]
      /\ UNCHANGED <<closed, remote, local>>
  BY DEF Leave
<1>3. r \in LoopType
  BY <1>1 DEF LoopType
<1>4. /\ r.name = loops[k].name /\ r.left = TRUE /\ r.pc = loops[k].pc
      /\ r.receiver = loops[k].receiver /\ r.record = loops[k].record
      /\ r.records = loops[k].records /\ r.received = loops[k].received
  BY <1>1 DEF LoopType
<1> HIDE DEF r
<1>5. /\ loops' \in Seq(LoopType) /\ Loop' = Loop /\ loops'[k] = r
      /\ \A l \in Loop \ {k} : loops'[l] = loops[l]
  BY <1>1, <1>2, <1>3, Types DEF Loop
<1>6. /\ servers \in [Server -> Nat \cup {NoLoop}] /\ servers'[s] = NoLoop
      /\ \A x \in Server \ {s} : servers'[x] = servers[x]
  BY <1>2, Types
<1>7. TypeOK'
  <2>1. servers' \in [Server -> Nat \cup {NoLoop}]
    BY <1>2, <1>6
  <2>2. QED
    BY <1>2, <1>5, <2>1 DEF RInv, TypeOK, LoopType
<1>8. OneLoopPerName'
  <2>1. ASSUME NEW l \in Loop PROVE ~loops'[l].left <=> servers'[loops'[l].name] = l
    <3>1. loops[l].name \in Server /\ l # NoLoop
      <4>1. loops[l] \in LoopType /\ l \in Nat
        BY Types
      <4>2. QED
        BY <4>1 DEF LoopType
    <3>2. ~loops[l].left <=> servers[loops[l].name] = l
      BY DEF RInv, OneLoopPerName
    <3>3. QED
      BY <1>1, <1>4, <1>5, <1>6, <3>1, <3>2
  <2>2. QED
    BY <1>5, <2>1 DEF OneLoopPerName
<1>9. Named'
  BY <1>1, <1>4, <1>5, <1>6 DEF RInv, Named
<1>10. \A i \in DOMAIN local' : local'[i][1] \in Loop'
  BY <1>2, <1>5 DEF RInv
<1>11. ASSUME NEW l \in Loop PROVE \E n \in Nat : Flow(l, loops[l], n)'
  <2>1. PICK n \in Nat : Flow(l, loops[l], n)
    BY DEF RInv
  <2>2. /\ loops'[l].pc = loops[l].pc /\ loops'[l].receiver = loops[l].receiver
        /\ loops'[l].record = loops[l].record /\ loops'[l].records = loops[l].records
        /\ loops'[l].received = loops[l].received
    BY <1>4, <1>5
  <2>3. Flow(l, loops'[l], n)
    BY <2>1, <2>2 DEF Flow, Held, InHand
  <2>4. QED
    BY <1>2, <2>3 DEF Flow, InLocal
<1>12. CopiesPrefix'
  BY <1>2 DEF RInv, CopiesPrefix
<1>13. QED
  BY <1>5, <1>7, <1>8, <1>9, <1>10, <1>11, <1>12 DEF RInv
(* Nothing is replicated at first. *)
LEMMA InitInv ==
  Init => RInv
<1> SUFFICES ASSUME Init PROVE RInv
  OBVIOUS
<1>1. DOMAIN loops = {} /\ DOMAIN local = {}
  BY DEF Init
<1>2. TypeOK
  <2>1. loops \in Seq(LoopType) /\ local \in Seq(Nat \X Nat)
    BY DEF Init
  <2>2. servers \in [Server -> Nat \cup {NoLoop}]
    BY DEF Init
  <2>3. closed \in BOOLEAN
    BY DEF Init
  <2>4. remote \in [Server -> 0 .. MaxRecords]
    BY DEF Init
  <2>5. QED
    BY <2>1, <2>2, <2>3, <2>4 DEF TypeOK, LoopType
<1>3. QED
  BY <1>1, <1>2 DEF Init, RInv, OneLoopPerName, Named, Loop, CopiesPrefix

(* Close and the growth of a server's log leave what RInv relates alone. *)
LEMMA FrameInv ==
  ASSUME RInv, UNCHANGED <<servers, loops, local>>,
         closed' \in BOOLEAN, remote' \in [Server -> 0 .. MaxRecords]
  PROVE  RInv'
<1>1. TypeOK'
  BY DEF RInv, TypeOK
<1>2. OneLoopPerName' /\ Named' /\ CopiesPrefix' /\ \A i \in DOMAIN local' : local'[i][1] \in Loop'
  BY DEF RInv, OneLoopPerName, Named, CopiesPrefix, Loop
<1>3. ASSUME NEW l \in Loop PROVE \E n \in Nat : Flow(l, loops[l], n)'
  <2>1. PICK n \in Nat : Flow(l, loops[l], n)
    BY DEF RInv
  <2>2. QED
    BY <2>1 DEF Flow, InLocal
<1>4. QED
  BY <1>1, <1>2, <1>3 DEF RInv, Loop

(* Every step keeps the invariant. *)
LEMMA StepInv ==
  ASSUME RInv, [Next]_vars
  PROVE  RInv'
<1>1. CASE UNCHANGED vars
  BY <1>1, FrameInv DEF vars, RInv, TypeOK
<1>2. CASE Close
  BY <1>2, FrameInv DEF Close, RInv, TypeOK
<1>3. ASSUME NEW s \in Server, Grow(s) PROVE RInv'
  <2>1. remote' \in [Server -> 0 .. MaxRecords]
    BY <1>3, Types DEF Grow
  <2>2. QED
    BY <1>3, <2>1, FrameInv DEF Grow, RInv, TypeOK
<1>4. ASSUME NEW s \in Server, Join(s) \/ Leave(s) PROVE RInv'
  BY <1>4, JoinInv, LeaveInv
<1>5. ASSUME NEW l \in Loop,
             \/ Connect(l) \/ ConnectFails(l)
             \/ Receive(l) \/ Send(l) \/ StreamEnds(l)
             \/ SelectReturns(l) \/ SelectRecord(l)
             \/ Produce(l) \/ ProduceFails(l)
      PROVE  RInv'
  BY <1>5, ConnectInv, ConnectFailsInv, ReceiveInv, SendInv, StreamEndsInv,
     SelectReturnsInv, SelectRecordInv, ProduceInv, ProduceFailsInv
<1>6. QED
  BY <1>1, <1>2, <1>3, <1>4, <1>5 DEF Next

(* What a loop has produced, what it holds, what is in its channel and what its
   receiver holds are, in every reachable state, consecutive offsets of its
   server's log. *)
THEOREM ReplicatorInvariance == Spec => []RInv
<1>1. Init => RInv
  BY InitInv
<1>2. RInv /\ [Next]_vars => RInv'
  BY StepInv
<1>3. QED
  BY <1>1, <1>2, PTL DEF Spec

(* The records of each loop reach the local server in order, each once and
   without a gap, whatever the capacity of the channel and however joins,
   leaves and failing calls interleave. *)
THEOREM CopiesPrefixAlways == Spec => []CopiesPrefix
<1>1. RInv => CopiesPrefix
  BY DEF RInv
<1>2. QED
  BY <1>1, ReplicatorInvariance, PTL

(* Of the loops started for a name only the one in r.servers has not been told
   to leave. *)
THEOREM OneLoopPerNameAlways == Spec => []OneLoopPerName
<1>1. RInv => OneLoopPerName
  BY DEF RInv
<1>2. QED
  BY <1>1, ReplicatorInvariance, PTL

(* The map of servers and the loops keep their types, whatever the capacity of
   the channel. *)
THEOREM ReplicatorTypes == Spec => []TypeOK
<1>1. RInv => TypeOK
  BY DEF RInv
<1>2. QED
  BY <1>1, ReplicatorInvariance, PTL
===============================================================================
