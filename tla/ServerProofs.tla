----------------------------- MODULE ServerProofs -----------------------------
(***************************************************************************)
(* Proofs about module Server: answers, the order of retried records and   *)
(* resumed streams, for every number of producers, consumers and records.  *)
(***************************************************************************)
EXTENDS Server, TLAPS

InLog(p, n) == \E j \in 1 .. Len(log) : log[j] = <<p, n>>

(* What the stream of a producer knows: the records before the one it handles
   are in the log, and the answers name their records. *)
ProducerOK(p) ==
    /\ prod[p].pc \in {"produce", "send"} => prod[p].msg <= MaxMsgs
    /\ prod[p].pc = "send" =>
          prod[p].off < Len(log) /\ log[prod[p].off + 1] = <<p, prod[p].msg>>
    /\ prod[p].msg > 1 => InLog(p, prod[p].msg - 1)
    /\ \A n \in 1 .. Len(prod[p].acks) :
          prod[p].acks[n] < Len(log) /\ log[prod[p].acks[n] + 1] = <<p, n>>

(* What the stream of a consumer knows: its offset follows what the client
   has, and the record it holds is the one there. *)
ConsumerOK(c) ==
    /\ cons[c].pc = "send" =>
          cons[c].off < Len(log) /\ cons[c].rec = log[cons[c].off + 1]
    /\ cons[c].pc \in {"read", "send"} => cons[c].off = cons[c].start + Len(cons[c].got)
    /\ \A n \in 1 .. Len(cons[c].got) :
          cons[c].start + n <= Len(log) /\ cons[c].got[n] = log[cons[c].start + n]

(* A record that may commit late is not the first to come. *)
LateOK == \A r \in late : r[2] > 1 => InLog(r[1], r[2] - 1)

(* The inductive invariant. *)
SInv ==
    /\ TypeOK /\ Len(log) <= MaxLog
    /\ \A p \in Producer : ProducerOK(p)
    /\ \A c \in Consumer : ConsumerOK(c)
    /\ LateOK
    /\ FirstInOrder
-----------------------------------------------------------------------------
USE ServerAssumption

(* Records that are in the log stay where they are. *)
Grows ==
    /\ Len(log) \in Nat /\ Len(log') \in Nat /\ Len(log) <= Len(log')
    /\ \A j \in 1 .. Len(log) : log'[j] = log[j]

ProducerType == [pc : {"receive", "produce", "send", "returned"},
                 msg : 1 .. MaxMsgs + 1, off : Offset, acks : Seq(Offset)]

ConsumerType == [pc : {"read", "send", "returned"}, start : Offset,
                 off : 0 .. MaxLog, rec : Sent \cup {NoRecord}, got : Seq(Sent)]

(* The type of a stream's state. *)
LEMMA StreamTypes ==
  ASSUME SInv
  PROVE  /\ log \in Seq(Sent) /\ late \subseteq Sent
         /\ Len(log) \in Nat /\ Len(log) <= MaxLog
         /\ prod \in [Producer -> ProducerType]
         /\ cons \in [Consumer -> ConsumerType]
  BY DEF SInv, TypeOK, ProducerType, ConsumerType

(* An action that leaves the log alone. *)
LEMMA SameLogGrows ==
  ASSUME SInv, log' = log
  PROVE  Grows
  BY StreamTypes DEF Grows

(* Apply appends a record. *)
LEMMA AppendGrows ==
  ASSUME SInv, NEW r \in Sent, log' = Append(log, r)
  PROVE  /\ Grows
         /\ log' \in Seq(Sent) /\ Len(log') = Len(log) + 1
         /\ log'[Len(log) + 1] = r
  BY StreamTypes DEF Grows

(* A stream that does not move keeps what it knows while the log grows. *)
LEMMA ProducerKept ==
  ASSUME SInv, Grows, NEW p \in Producer, prod'[p] = prod[p]
  PROVE  ProducerOK(p)'
<1>1. ProducerOK(p)
  BY DEF SInv
<1>2. /\ prod[p].off \in Nat /\ prod[p].msg \in Nat
      /\ Len(prod[p].acks) \in Nat
      /\ \A n \in 1 .. Len(prod[p].acks) : prod[p].acks[n] \in Nat
  BY StreamTypes, SMTT(30) DEF ProducerType, Offset
<1>3. \A n : InLog(p, n) => InLog(p, n)'
  BY DEF Grows, InLog
<1>4. prod[p].pc = "send" =>
         prod[p].off < Len(log') /\ log'[prod[p].off + 1] = <<p, prod[p].msg>>
  <2> HAVE prod[p].pc = "send"
  <2>1. prod[p].off < Len(log) /\ log[prod[p].off + 1] = <<p, prod[p].msg>>
    BY <1>1 DEF ProducerOK
  <2>2. prod[p].off + 1 \in 1 .. Len(log) /\ prod[p].off < Len(log')
    BY <1>2, <2>1, SMTT(30) DEF Grows
  <2>3. log'[prod[p].off + 1] = log[prod[p].off + 1]
    BY <2>2 DEF Grows
  <2>4. QED
    BY <2>1, <2>2, <2>3
<1>5. \A n \in 1 .. Len(prod[p].acks) :
         prod[p].acks[n] < Len(log') /\ log'[prod[p].acks[n] + 1] = <<p, n>>
  <2> TAKE n \in 1 .. Len(prod[p].acks)
  <2>1. prod[p].acks[n] < Len(log) /\ log[prod[p].acks[n] + 1] = <<p, n>>
    BY <1>1 DEF ProducerOK
  <2>2. prod[p].acks[n] + 1 \in 1 .. Len(log) /\ prod[p].acks[n] < Len(log')
    BY <1>2, <2>1, SMTT(30) DEF Grows
  <2>3. log'[prod[p].acks[n] + 1] = log[prod[p].acks[n] + 1]
    BY <2>2 DEF Grows
  <2>4. QED
    BY <2>1, <2>2, <2>3
<1>6. QED
  BY <1>1, <1>3, <1>4, <1>5 DEF ProducerOK

(* A consumer that does not move keeps its part of the invariant when the log grows. *)
LEMMA ConsumerKept ==
  ASSUME SInv, Grows, NEW c \in Consumer, cons'[c] = cons[c]
  PROVE  ConsumerOK(c)'
<1>1. ConsumerOK(c)
  BY DEF SInv
<1>2. cons[c].off \in Nat /\ cons[c].start \in Nat /\ Len(cons[c].got) \in Nat
  BY StreamTypes DEF ConsumerType, Offset
<1>3. cons[c].pc = "send" =>
         cons[c].off < Len(log') /\ cons[c].rec = log'[cons[c].off + 1]
  <2> HAVE cons[c].pc = "send"
  <2>1. cons[c].off < Len(log) /\ cons[c].rec = log[cons[c].off + 1]
    BY <1>1 DEF ConsumerOK
  <2>2. cons[c].off + 1 \in 1 .. Len(log) /\ cons[c].off < Len(log')
    BY <1>2, <2>1 DEF Grows
  <2>3. log'[cons[c].off + 1] = log[cons[c].off + 1]
    BY <2>2 DEF Grows
  <2>4. QED
    BY <2>1, <2>2, <2>3
<1>4. \A n \in 1 .. Len(cons[c].got) :
         cons[c].start + n <= Len(log') /\ cons[c].got[n] = log'[cons[c].start + n]
  <2> TAKE n \in 1 .. Len(cons[c].got)
  <2>1. cons[c].start + n <= Len(log) /\ cons[c].got[n] = log[cons[c].start + n]
    BY <1>1 DEF ConsumerOK
  <2>2. cons[c].start + n \in 1 .. Len(log) /\ cons[c].start + n <= Len(log')
    BY <1>2, <2>1, SMTT(30) DEF Grows
  <2>3. log'[cons[c].start + n] = log[cons[c].start + n]
    BY <2>2 DEF Grows
  <2>4. QED
    BY <2>1, <2>2, <2>3
<1>5. QED
  BY <1>1, <1>3, <1>4 DEF ConsumerOK

(* So do the records that may commit late. *)
LEMMA LateKept ==
  ASSUME SInv, Grows, late' \subseteq late
  PROVE  LateOK'
<1>1. \A p, n : InLog(p, n) => InLog(p, n)'
  BY DEF Grows, InLog
<1>2. QED
  BY <1>1 DEF SInv, LateOK
(* The order of the first occurrences, when the log does not change ... *)
LEMMA FirstKept ==
  ASSUME SInv, log' = log
  PROVE  FirstInOrder'
  BY DEF SInv, FirstInOrder

(* ... and when a record is appended whose predecessor is in the log. *)
LEMMA FirstAppended ==
  ASSUME SInv, NEW r \in Sent, log' = Append(log, r),
         r[2] > 1 => InLog(r[1], r[2] - 1)
  PROVE  FirstInOrder'
<1>1. Len(log) \in Nat /\ Len(log') = Len(log) + 1 /\ log'[Len(log) + 1] = r
      /\ \A j \in 1 .. Len(log) : log'[j] = log[j]
  BY StreamTypes, AppendGrows DEF Grows
<1>2. SUFFICES ASSUME NEW i \in 1 .. Len(log'), log'[i][2] > 1
               PROVE  \E j \in 1 .. i - 1 : log'[j] = <<log'[i][1], log'[i][2] - 1>>
  BY DEF FirstInOrder
<1>3. CASE i = Len(log) + 1
  BY <1>1, <1>2, <1>3 DEF InLog
<1>4. CASE i # Len(log) + 1
  <2>1. i \in 1 .. Len(log) /\ log'[i] = log[i]
    BY <1>1, <1>4
  <2>2. PICK j \in 1 .. i - 1 : log[j] = <<log[i][1], log[i][2] - 1>>
    BY <1>2, <2>1 DEF SInv, FirstInOrder
  <2>3. QED
    BY <1>1, <2>1, <2>2
<1>5. QED
  BY <1>3, <1>4

(* What ProducerOK says of a state s that the stream may be in next. *)
ProducerGood(p, s) ==
    /\ s.pc \in {"produce", "send"} => s.msg <= MaxMsgs
    /\ s.pc = "send" => s.off < Len(log) /\ log[s.off + 1] = <<p, s.msg>>
    /\ s.msg > 1 => InLog(p, s.msg - 1)
    /\ \A n \in 1 .. Len(s.acks) : s.acks[n] < Len(log) /\ log[s.acks[n] + 1] = <<p, n>>

(* A step of one producer's stream that keeps the log. *)
LEMMA ProducerStep ==
  ASSUME SInv, NEW p \in Producer, UNCHANGED <<log, cons>>,
         NEW s \in ProducerType, prod' = [prod EXCEPT ![p] = s],
         late' \subseteq Sent, LateOK', ProducerGood(p, s)
  PROVE  SInv'
<1>1. Grows /\ FirstInOrder'
  BY SameLogGrows, FirstKept
<1>2. \A q \in Producer : ProducerOK(q)'
  <2>1. prod'[p] = s /\ \A q \in Producer \ {p} : prod'[q] = prod[q]
    BY StreamTypes
  <2>2. ProducerOK(p)'
    BY <2>1 DEF ProducerOK, ProducerGood, InLog
  <2>3. QED
    BY <1>1, <2>1, <2>2, ProducerKept
<1>3. \A c \in Consumer : ConsumerOK(c)'
  BY <1>1, ConsumerKept
<1>4. TypeOK' /\ Len(log') <= MaxLog
  BY StreamTypes DEF TypeOK, ProducerType, ConsumerType
<1>5. QED
  BY <1>1, <1>2, <1>3, <1>4 DEF SInv

(* A step of one consumer's stream. *)
LEMMA ConsumerStep ==
  ASSUME SInv, NEW c \in Consumer, UNCHANGED <<log, late, prod>>,
         NEW s \in ConsumerType, cons' = [cons EXCEPT ![c] = s], ConsumerOK(c)'
  PROVE  SInv'
<1>1. Grows /\ FirstInOrder' /\ LateOK'
  BY SameLogGrows, FirstKept, LateKept
<1>2. \A p \in Producer : ProducerOK(p)'
  BY <1>1, ProducerKept
<1>3. \A d \in Consumer : ConsumerOK(d)'
  BY <1>1, ConsumerKept, StreamTypes
<1>4. TypeOK' /\ Len(log') <= MaxLog
  BY StreamTypes DEF TypeOK, ProducerType, ConsumerType
<1>5. QED
  BY <1>1, <1>2, <1>3, <1>4 DEF SInv
(* The stream receives its next record. *)
LEMMA ReceiveInv ==
  ASSUME SInv, NEW p \in Producer, Receive(p)
  PROVE  SInv'
<1> DEFINE s == [prod[p] EXCEPT !.pc = "produce"]
<1>1. prod[p] \in ProducerType /\ ProducerOK(p)
  BY StreamTypes DEF SInv
<1>2. prod' = [prod EXCEPT ![p] = s] /\ UNCHANGED <<log, cons>>
  BY StreamTypes DEF Receive
<1>3. s \in ProducerType
  BY <1>1, StreamTypes DEF ProducerType, ProducerOK, Offset, Receive
<1>4. s.pc = "produce" /\ s.msg = prod[p].msg /\ s.acks = prod[p].acks
  BY <1>1 DEF ProducerType
<1> HIDE DEF s
<1>5. ProducerGood(p, s)
  BY <1>1, <1>4 DEF ProducerType, ProducerOK, ProducerGood, Receive
<1>6. late' \subseteq Sent /\ LateOK'
  BY StreamTypes, <1>2, SameLogGrows, LateKept DEF Receive
<1>7. QED
  BY <1>2, <1>3, <1>5, <1>6, ProducerStep

(* The stream ends. *)
LEMMA ReceiveEndsInv ==
  ASSUME SInv, NEW p \in Producer, ReceiveEnds(p)
  PROVE  SInv'
<1> DEFINE s == [prod[p] EXCEPT !.pc = "returned", !.msg = 1]
<1>1. prod[p] \in ProducerType /\ ProducerOK(p)
  BY StreamTypes DEF SInv
<1>2. prod' = [prod EXCEPT ![p] = s] /\ UNCHANGED <<log, cons>>
  BY StreamTypes DEF ReceiveEnds
<1>3. s \in ProducerType
  <2>1. 1 \in 1 .. MaxMsgs + 1
    OBVIOUS
  <2>2. QED
    BY <1>1, <2>1 DEF ProducerType
<1>4. s.pc = "returned" /\ s.msg = 1 /\ s.acks = prod[p].acks
  BY <1>1 DEF ProducerType
<1> HIDE DEF s
<1>5. ProducerGood(p, s)
  BY <1>1, <1>4 DEF ProducerType, ProducerOK, ProducerGood, ReceiveEnds
<1>6. late' \subseteq Sent /\ LateOK'
  BY StreamTypes, <1>2, SameLogGrows, LateKept DEF ReceiveEnds
<1>7. QED
  BY <1>2, <1>3, <1>5, <1>6, ProducerStep

(* A command fails, and may commit late. *)
LEMMA ProduceFailsInv ==
  ASSUME SInv, NEW p \in Producer, ProduceFails(p)
  PROVE  SInv'
<1> DEFINE s == [prod[p] EXCEPT !.pc = "returned", !.msg = 1]
<1>1. prod[p] \in ProducerType /\ ProducerOK(p)
  BY StreamTypes DEF SInv
<1>2. prod' = [prod EXCEPT ![p] = s] /\ UNCHANGED <<log, cons>>
  BY StreamTypes DEF ProduceFails
<1>3. s \in ProducerType
  <2>1. 1 \in 1 .. MaxMsgs + 1
    OBVIOUS
  <2>2. QED
    BY <1>1, <2>1 DEF ProducerType
<1>4. s.pc = "returned" /\ s.msg = 1 /\ s.acks = prod[p].acks
  BY <1>1 DEF ProducerType
<1> HIDE DEF s
<1>5. ProducerGood(p, s)
  BY <1>1, <1>4 DEF ProducerType, ProducerOK, ProducerGood, ProduceFails
<1>6. late' \subseteq Sent /\ LateOK'
  <2>1. <<p, prod[p].msg>> \in Sent /\ (prod[p].msg > 1 => InLog(p, prod[p].msg - 1))
    BY <1>1 DEF ProducerType, ProducerOK, Sent, ProduceFails
  <2>2. LateOK /\ late \subseteq Sent /\ late' \subseteq late \cup {<<p, prod[p].msg>>}
    BY StreamTypes DEF SInv, ProduceFails
  <2>3. \A q, n : InLog(q, n)' <=> InLog(q, n)
    BY <1>2 DEF InLog
  <2>4. QED
    BY <2>1, <2>2, <2>3 DEF LateOK
<1>7. QED
  BY <1>2, <1>3, <1>5, <1>6, ProducerStep

(* The client gets the answer. *)
LEMMA SendOffsetInv ==
  ASSUME SInv, NEW p \in Producer, SendOffset(p)
  PROVE  SInv'
<1> DEFINE s == [prod[p] EXCEPT !.pc = "receive", !.msg = @ + 1, !.off = 0,
                                !.acks = Append(@, prod[p].off)]
<1>1. prod[p] \in ProducerType /\ ProducerOK(p)
  BY StreamTypes DEF SInv
<1>2. prod' = [prod EXCEPT ![p] = s] /\ UNCHANGED <<log, cons>>
  BY StreamTypes DEF SendOffset
<1>3. s \in ProducerType
  <2>1. 0 \in Offset /\ prod[p].off \in Offset /\ prod[p].acks \in Seq(Offset)
    BY <1>1 DEF ProducerType, Offset
  <2>2. prod[p].msg + 1 \in 1 .. MaxMsgs + 1
    BY <1>1 DEF ProducerType, ProducerOK, SendOffset
  <2>3. Append(prod[p].acks, prod[p].off) \in Seq(Offset)
    BY <2>1
  <2>4. QED
    BY <1>1, <2>1, <2>2, <2>3 DEF ProducerType
<1>4. /\ s.pc = "receive" /\ s.msg = prod[p].msg + 1
      /\ s.acks = Append(prod[p].acks, prod[p].off)
  BY <1>1 DEF ProducerType
<1> HIDE DEF s
<1>5. ProducerGood(p, s)
  <2>1. /\ prod[p].acks \in Seq(Offset) /\ Len(prod[p].acks) \in Nat
        /\ prod[p].off \in Nat /\ prod[p].msg = Len(prod[p].acks) + 1
    BY <1>1 DEF ProducerType, Offset, SendOffset
  <2>2. prod[p].off < Len(log) /\ log[prod[p].off + 1] = <<p, prod[p].msg>>
    BY <1>1 DEF ProducerOK, SendOffset
  <2>3. InLog(p, s.msg - 1)
    <3>1. prod[p].off + 1 \in 1 .. Len(log) /\ s.msg - 1 = prod[p].msg
      BY <1>4, <2>1, <2>2, StreamTypes
    <3>2. QED
      BY <2>2, <3>1 DEF InLog
  <2>4. ASSUME NEW n \in 1 .. Len(s.acks)
        PROVE  s.acks[n] < Len(log) /\ log[s.acks[n] + 1] = <<p, n>>
    <3>1. CASE n = Len(prod[p].acks) + 1
      <4>1. s.acks[n] = prod[p].off
        BY <1>4, <2>1, <3>1
      <4>2. QED
        BY <2>1, <2>2, <3>1, <4>1
    <3>2. CASE n # Len(prod[p].acks) + 1
      <4>1. n \in 1 .. Len(prod[p].acks) /\ s.acks[n] = prod[p].acks[n]
        BY <1>4, <2>1, <2>4, <3>2
      <4>2. QED
        BY <1>1, <4>1 DEF ProducerOK
    <3>3. QED
      BY <3>1, <3>2
  <2>5. QED
    BY <1>4, <2>3, <2>4 DEF ProducerGood
<1>6. late' \subseteq Sent /\ LateOK'
  BY StreamTypes, <1>2, SameLogGrows, LateKept DEF SendOffset
<1>7. QED
  BY <1>2, <1>3, <1>5, <1>6, ProducerStep

(* Another stream begins with the first record that was not answered. *)
LEMMA RetryInv ==
  ASSUME SInv, NEW p \in Producer, Retry(p)
  PROVE  SInv'
<1> DEFINE s == [prod[p] EXCEPT !.pc = "receive", !.msg = Len(prod[p].acks) + 1]
<1>1. prod[p] \in ProducerType /\ ProducerOK(p)
  BY StreamTypes DEF SInv
<1>2. prod' = [prod EXCEPT ![p] = s] /\ UNCHANGED <<log, cons>>
  BY StreamTypes DEF Retry
<1>3. s \in ProducerType
  <2>1. Len(prod[p].acks) + 1 \in 1 .. MaxMsgs + 1
    BY <1>1 DEF ProducerType, Retry
  <2>2. QED
    BY <1>1, <2>1 DEF ProducerType
<1>4. s.pc = "receive" /\ s.msg = Len(prod[p].acks) + 1 /\ s.acks = prod[p].acks
  BY <1>1 DEF ProducerType
<1> HIDE DEF s
<1>5. ProducerGood(p, s)
  <2>1. /\ Len(prod[p].acks) \in Nat
        /\ \A n \in 1 .. Len(prod[p].acks) : prod[p].acks[n] \in Nat
    BY <1>1 DEF ProducerType, Offset
  <2>2. Len(prod[p].acks) > 0 => InLog(p, Len(prod[p].acks))
    <3> SUFFICES ASSUME Len(prod[p].acks) > 0 PROVE InLog(p, Len(prod[p].acks))
      OBVIOUS
    <3> DEFINE n == Len(prod[p].acks)
    <3>1. n \in 1 .. Len(prod[p].acks)
      BY <2>1
    <3>2. prod[p].acks[n] < Len(log) /\ log[prod[p].acks[n] + 1] = <<p, n>>
      BY <1>1, <3>1 DEF ProducerOK
    <3>3. prod[p].acks[n] + 1 \in 1 .. Len(log)
      BY <2>1, <3>1, <3>2, StreamTypes
    <3>4. QED
      BY <3>2, <3>3 DEF InLog
  <2>3. QED
    BY <1>1, <1>4, <2>1, <2>2 DEF ProducerOK, ProducerGood
<1>6. late' \subseteq Sent /\ LateOK'
  BY StreamTypes, <1>2, SameLogGrows, LateKept DEF Retry
<1>7. QED
  BY <1>2, <1>3, <1>5, <1>6, ProducerStep
(* The answer is lost: the stream ends, or goes on with the next record. *)
LEMMA SendUnheardInv ==
  ASSUME SInv, NEW p \in Producer, SendUnheard(p)
  PROVE  SInv'
<1>1. prod[p] \in ProducerType /\ ProducerOK(p) /\ UNCHANGED <<log, cons>>
  BY StreamTypes DEF SInv, SendUnheard
<1>2. late' \subseteq Sent /\ LateOK'
  BY StreamTypes, <1>1, SameLogGrows, LateKept DEF SendUnheard
<1>3. 0 \in Offset /\ 1 \in 1 .. MaxMsgs + 1
  BY DEF Offset
<1>4. CASE prod' = [prod EXCEPT ![p].pc = "returned", ![p].msg = 1, ![p].off = 0]
  <2> DEFINE s == [prod[p] EXCEPT !.pc = "returned", !.msg = 1, !.off = 0]
  <2>1. prod' = [prod EXCEPT ![p] = s]
    BY <1>4, StreamTypes
  <2>2. s \in ProducerType
    BY <1>1, <1>3 DEF ProducerType
  <2>3. s.pc = "returned" /\ s.msg = 1 /\ s.acks = prod[p].acks
    BY <1>1 DEF ProducerType
  <2> HIDE DEF s
  <2>4. ProducerGood(p, s)
    BY <1>1, <2>3 DEF ProducerType, ProducerOK, ProducerGood
  <2>5. QED
    BY <1>1, <1>2, <2>1, <2>2, <2>4, ProducerStep
<1>5. CASE prod' = [prod EXCEPT ![p].pc = "receive", ![p].msg = @ + 1, ![p].off = 0]
  <2> DEFINE s == [prod[p] EXCEPT !.pc = "receive", !.msg = @ + 1, !.off = 0]
  <2>1. prod' = [prod EXCEPT ![p] = s]
    BY <1>5, StreamTypes
  <2>2. prod[p].msg + 1 \in 1 .. MaxMsgs + 1
    BY <1>1 DEF ProducerType, ProducerOK, SendUnheard
  <2>3. s \in ProducerType
    BY <1>1, <1>3, <2>2 DEF ProducerType
  <2>4. s.pc = "receive" /\ s.msg = prod[p].msg + 1 /\ s.acks = prod[p].acks
    BY <1>1 DEF ProducerType
  <2> HIDE DEF s
  <2>5. InLog(p, s.msg - 1)
    <3>1. /\ prod[p].off \in Nat /\ prod[p].msg \in Nat
          /\ prod[p].off < Len(log) /\ log[prod[p].off + 1] = <<p, prod[p].msg>>
      BY <1>1 DEF ProducerType, Offset, ProducerOK, SendUnheard
    <3>2. prod[p].off + 1 \in 1 .. Len(log) /\ s.msg - 1 = prod[p].msg
      BY <2>4, <3>1, StreamTypes, SMTT(30)
    <3>3. QED
      BY <3>1, <3>2 DEF InLog
  <2>6. ProducerGood(p, s)
    BY <1>1, <2>4, <2>5 DEF ProducerOK, ProducerGood
  <2>7. QED
    BY <1>1, <1>2, <2>1, <2>3, <2>6, ProducerStep
<1>6. QED
  BY <1>4, <1>5 DEF SendUnheard

(* Apply appends the record of a stream, and its offset is the answer. *)
LEMMA ProduceInv ==
  ASSUME SInv, NEW p \in Producer, Produce(p)
  PROVE  SInv'
<1> DEFINE r == <<p, prod[p].msg>>
<1>1. prod[p] \in ProducerType /\ ProducerOK(p)
  BY StreamTypes DEF SInv
<1>2. /\ prod[p].pc = "produce" /\ Len(log) < MaxLog /\ log' = Append(log, r)
      /\ prod' = [prod EXCEPT ![p].pc = "send", ![p].off = Len(log)]
      /\ UNCHANGED <<late, cons>>
  BY DEF Produce
<1>3. r \in Sent /\ (prod[p].msg > 1 => InLog(p, prod[p].msg - 1))
  BY <1>1, <1>2 DEF ProducerType, ProducerOK, Sent
<1>4. /\ Grows /\ log' \in Seq(Sent) /\ Len(log') = Len(log) + 1
      /\ log'[Len(log) + 1] = r
  BY <1>2, <1>3, AppendGrows
<1>5. FirstInOrder'
  BY <1>2, <1>3, FirstAppended
<1>6. LateOK' /\ \A c \in Consumer : ConsumerOK(c)'
  BY <1>2, <1>4, LateKept, ConsumerKept
<1>7. /\ prod'[p] = [prod[p] EXCEPT !.pc = "send", !.off = Len(log)]
      /\ \A q \in Producer \ {p} : prod'[q] = prod[q]
  BY <1>2, StreamTypes
<1>8. ProducerOK(p)'
  <2>1. /\ prod'[p].pc = "send" /\ prod'[p].msg = prod[p].msg /\ prod'[p].off = Len(log)
        /\ prod'[p].acks = prod[p].acks
    BY <1>1, <1>7 DEF ProducerType
  <2>2. prod'[p].msg > 1 => InLog(p, prod[p].msg - 1)'
    <3>1. \A n : InLog(p, n) => InLog(p, n)'
      BY <1>4 DEF InLog, Grows
    <3>2. QED
      BY <1>3, <2>1, <3>1
  <2>3. \A n \in 1 .. Len(prod[p].acks) :
           prod[p].acks[n] < Len(log') /\ log'[prod[p].acks[n] + 1] = <<p, n>>
    <3> TAKE n \in 1 .. Len(prod[p].acks)
    <3>1. prod[p].acks[n] < Len(log) /\ log[prod[p].acks[n] + 1] = <<p, n>>
      BY <1>1 DEF ProducerOK
    <3>2. prod[p].acks[n] \in Nat
      BY <1>1 DEF ProducerType, Offset
    <3>3. prod[p].acks[n] + 1 \in 1 .. Len(log)
      BY <3>1, <3>2, StreamTypes
    <3>4. QED
      BY <1>4, <3>1, <3>2, <3>3, SMTT(30) DEF Grows
  <2>4. prod[p].msg <= MaxMsgs
    BY <1>1, <1>2 DEF ProducerOK
  <2>5. Len(log) < Len(log')
    BY <1>4, StreamTypes
  <2>6. QED
    BY <1>4, <2>1, <2>2, <2>3, <2>4, <2>5 DEF ProducerOK
<1>9. \A q \in Producer : ProducerOK(q)'
  BY <1>4, <1>7, <1>8, ProducerKept
<1>10. TypeOK' /\ Len(log') <= MaxLog
  <2>1. Len(log) \in Offset
    BY <1>2, StreamTypes DEF Offset
  <2>2. prod' \in [Producer -> ProducerType]
    BY <1>1, <1>2, <2>1, StreamTypes DEF ProducerType
  <2>3. QED
    BY <1>2, <1>4, <2>2, StreamTypes DEF TypeOK, ProducerType, ConsumerType
<1>11. QED
  BY <1>5, <1>6, <1>9, <1>10 DEF SInv

(* A failed command commits after all. *)
LEMMA LateCommitInv ==
  ASSUME SInv, LateCommit
  PROVE  SInv'
<1>1. PICK r \in late : log' = Append(log, r) /\ late' = late \ {r}
  BY DEF LateCommit
<1>2. r \in Sent /\ Len(log) < MaxLog /\ UNCHANGED <<prod, cons>>
  BY StreamTypes DEF LateCommit
<1>3. Grows /\ log' \in Seq(Sent) /\ Len(log') = Len(log) + 1
  BY <1>1, <1>2, AppendGrows
<1>4. FirstInOrder'
  BY <1>1, <1>2, FirstAppended DEF SInv, LateOK
<1>5. LateOK'
  BY <1>1, <1>3, LateKept
<1>6. \A p \in Producer : ProducerOK(p)'
  BY <1>2, <1>3, ProducerKept
<1>7. \A c \in Consumer : ConsumerOK(c)'
  BY <1>2, <1>3, ConsumerKept
<1>8. TypeOK' /\ Len(log') <= MaxLog
  BY <1>1, <1>2, <1>3, StreamTypes DEF TypeOK, ProducerType, ConsumerType
<1>9. QED
  BY <1>4, <1>5, <1>6, <1>7, <1>8 DEF SInv
-----------------------------------------------------------------------------
(* Consume reads the record at the stream's offset. *)
LEMMA ConsumeInv ==
  ASSUME SInv, NEW c \in Consumer, Consume(c)
  PROVE  SInv'
<1> DEFINE s == [cons[c] EXCEPT !.pc = "send", !.rec = log[cons[c].off + 1]]
<1>1. cons[c] \in ConsumerType /\ ConsumerOK(c)
  BY StreamTypes DEF SInv
<1>2. cons' = [cons EXCEPT ![c] = s] /\ UNCHANGED <<log, late, prod>>
  BY StreamTypes DEF Consume
<1>3. log[cons[c].off + 1] \in Sent
  <2>1. cons[c].off + 1 \in 1 .. Len(log)
    BY <1>1, StreamTypes DEF ConsumerType, Consume
  <2>2. QED
    BY <2>1, StreamTypes
<1>4. s \in ConsumerType
  BY <1>1, <1>3 DEF ConsumerType
<1>5. ConsumerOK(c)'
  BY <1>1, <1>2, StreamTypes DEF ConsumerType, ConsumerOK, Consume
<1>6. QED
  BY <1>2, <1>4, <1>5, ConsumerStep

(* The client gets the record, and the offset advances. *)
LEMMA SendRecordInv ==
  ASSUME SInv, NEW c \in Consumer, SendRecord(c)
  PROVE  SInv'
<1> DEFINE s == [cons[c] EXCEPT !.pc = "read", !.off = @ + 1, !.rec = NoRecord,
                                !.got = Append(@, cons[c].rec)]
<1>1. cons[c] \in ConsumerType /\ ConsumerOK(c)
  BY StreamTypes DEF SInv
<1>2. cons' = [cons EXCEPT ![c] = s] /\ UNCHANGED <<log, late, prod>>
  BY StreamTypes DEF SendRecord
<1>3. /\ cons[c].off \in Nat /\ cons[c].start \in Nat /\ Len(cons[c].got) \in Nat
      /\ cons[c].off < Len(log) /\ cons[c].rec = log[cons[c].off + 1]
      /\ cons[c].off = cons[c].start + Len(cons[c].got)
      /\ cons[c].got \in Seq(Sent)
  BY <1>1 DEF ConsumerType, Offset, ConsumerOK, SendRecord
<1>4. cons[c].rec \in Sent
  <2>1. cons[c].off + 1 \in 1 .. Len(log)
    BY <1>3, StreamTypes
  <2>2. QED
    BY <1>3, <2>1, StreamTypes
<1>5. s \in ConsumerType
  <2>1. cons[c].off + 1 \in 0 .. MaxLog
    BY <1>3, StreamTypes
  <2>2. Append(cons[c].got, cons[c].rec) \in Seq(Sent)
    BY <1>3, <1>4
  <2>3. QED
    BY <1>1, <2>1, <2>2 DEF ConsumerType
<1>6. ConsumerOK(c)'
  <2>1. /\ cons'[c].pc = "read" /\ cons'[c].off = cons[c].off + 1
        /\ cons'[c].start = cons[c].start
        /\ cons'[c].got = Append(cons[c].got, cons[c].rec)
    BY <1>1, <1>2, StreamTypes DEF ConsumerType
  <2>2. Len(cons'[c].got) = Len(cons[c].got) + 1
    BY <1>3, <1>4, <2>1
  <2>3. ASSUME NEW n \in 1 .. Len(cons'[c].got)
        PROVE  cons[c].start + n <= Len(log) /\ cons'[c].got[n] = log[cons[c].start + n]
    <3>1. CASE n = Len(cons[c].got) + 1
      <4>1. cons'[c].got[n] = cons[c].rec
        BY <1>3, <1>4, <2>1, <3>1, SMTT(30)
      <4>2. cons[c].start + n = cons[c].off + 1
        BY <1>3, <3>1, SMTT(30)
      <4>3. QED
        BY <1>3, <4>1, <4>2, StreamTypes
    <3>2. CASE n # Len(cons[c].got) + 1
      <4>1. n \in 1 .. Len(cons[c].got)
        BY <1>3, <2>2, <2>3, <3>2
      <4>2. cons'[c].got[n] = cons[c].got[n]
        BY <1>3, <1>4, <2>1, <4>1
      <4>3. QED
        BY <1>1, <4>1, <4>2 DEF ConsumerOK
    <3>3. QED
      BY <3>1, <3>2
  <2>4. cons'[c].off = cons'[c].start + Len(cons'[c].got)
    BY <1>3, <2>1, <2>2
  <2>5. QED
    BY <1>2, <2>1, <2>3, <2>4 DEF ConsumerOK
<1>7. QED
  BY <1>2, <1>5, <1>6, ConsumerStep

(* The stream ends. *)
LEMMA ConsumeEndsInv ==
  ASSUME SInv, NEW c \in Consumer, ConsumeEnds(c)
  PROVE  SInv'
<1> DEFINE s == [cons[c] EXCEPT !.pc = "returned", !.off = 0, !.rec = NoRecord]
<1>1. cons[c] \in ConsumerType /\ ConsumerOK(c)
  BY StreamTypes DEF SInv
<1>2. cons' = [cons EXCEPT ![c] = s] /\ UNCHANGED <<log, late, prod>>
  BY StreamTypes DEF ConsumeEnds
<1>3. s \in ConsumerType
  <2>1. 0 \in 0 .. MaxLog
    OBVIOUS
  <2>2. QED
    BY <1>1, <2>1 DEF ConsumerType
<1>4. ConsumerOK(c)'
  <2>1. /\ cons'[c].pc = "returned" /\ cons'[c].start = cons[c].start
        /\ cons'[c].got = cons[c].got
    BY <1>1, <1>2, StreamTypes DEF ConsumerType
  <2>2. QED
    BY <1>1, <1>2, <2>1 DEF ConsumerOK
<1>5. QED
  BY <1>2, <1>3, <1>4, ConsumerStep

(* Another stream begins after the last record the client has. *)
LEMMA ResumeInv ==
  ASSUME SInv, NEW c \in Consumer, Resume(c)
  PROVE  SInv'
<1> DEFINE s == [cons[c] EXCEPT !.pc = "read", !.off = cons[c].start + Len(cons[c].got)]
<1>1. cons[c] \in ConsumerType /\ ConsumerOK(c)
  BY StreamTypes DEF SInv
<1>2. cons' = [cons EXCEPT ![c] = s] /\ UNCHANGED <<log, late, prod>>
  BY StreamTypes DEF Resume
<1>3. cons[c].start + Len(cons[c].got) \in 0 .. MaxLog
  <2>1. cons[c].start \in Nat /\ cons[c].start <= MaxLog /\ Len(cons[c].got) \in Nat
    BY <1>1 DEF ConsumerType, Offset
  <2>2. CASE Len(cons[c].got) = 0
    BY <2>1, <2>2
  <2>3. CASE Len(cons[c].got) # 0
    <3>1. cons[c].start + Len(cons[c].got) <= Len(log)
      BY <1>1, <2>1, <2>3 DEF ConsumerOK
    <3>2. QED
      BY <2>1, <3>1, StreamTypes
  <2>4. QED
    BY <2>2, <2>3
<1>4. s \in ConsumerType
  BY <1>1, <1>3 DEF ConsumerType
<1>5. ConsumerOK(c)'
  <2>1. /\ cons'[c].pc = "read" /\ cons'[c].start = cons[c].start
        /\ cons'[c].got = cons[c].got
        /\ cons'[c].off = cons[c].start + Len(cons[c].got)
    BY <1>1, <1>2, StreamTypes DEF ConsumerType
  <2>2. QED
    BY <1>1, <1>2, <2>1 DEF ConsumerOK
<1>6. QED
  BY <1>2, <1>4, <1>5, ConsumerStep

-----------------------------------------------------------------------------
(* The invariant holds of empty streams. *)
LEMMA InitInv == Init => SInv
<1> SUFFICES ASSUME Init PROVE SInv
  OBVIOUS
<1>1. log = <<>> /\ late = {} /\ Len(log) = 0 /\ 0 \in Offset
  BY DEF Init, Offset
<1>2. ASSUME NEW p \in Producer
      PROVE  prod[p] = [pc |-> "receive", msg |-> 1, off |-> 0, acks |-> <<>>]
  BY DEF Init
<1>3. ASSUME NEW c \in Consumer
      PROVE  \E o \in Offset : cons[c] = [pc |-> "read", start |-> o, off |-> o,
                                         rec |-> NoRecord, got |-> <<>>]
  BY DEF Init
<1>4. TypeOK
  <2>1. prod \in [Producer -> ProducerType]
    <3>1. [pc |-> "receive", msg |-> 1, off |-> 0, acks |-> <<>>] \in ProducerType
      BY <1>1 DEF ProducerType
    <3>2. QED
      BY <3>1 DEF Init
  <2>2. cons \in [Consumer -> ConsumerType]
    <3>1. \A o \in Offset : [pc |-> "read", start |-> o, off |-> o, rec |-> NoRecord,
                             got |-> <<>>] \in ConsumerType
      BY DEF ConsumerType, Offset
    <3>2. QED
      BY <3>1 DEF Init
  <2>3. log \in Seq(Sent)
    BY <1>1
  <2>4. QED
    BY <1>1, <2>1, <2>2, <2>3 DEF TypeOK, ProducerType, ConsumerType
<1>5. ASSUME NEW p \in Producer PROVE ProducerOK(p)
  <2>1. prod[p].pc = "receive" /\ prod[p].msg = 1 /\ Len(prod[p].acks) = 0
    BY <1>2
  <2>2. QED
    BY <2>1 DEF ProducerOK
<1>6. ASSUME NEW c \in Consumer PROVE ConsumerOK(c)
  <2>1. PICK o \in Offset : cons[c] = [pc |-> "read", start |-> o, off |-> o,
                                       rec |-> NoRecord, got |-> <<>>]
    BY <1>3
  <2>2. QED
    BY <2>1 DEF ConsumerOK, Offset
<1>7. LateOK /\ FirstInOrder
  BY <1>1 DEF LateOK, FirstInOrder
<1>8. QED
  BY <1>1, <1>4, <1>5, <1>6, <1>7 DEF SInv

(* Every step keeps the invariant. *)
LEMMA StepInv == SInv /\ [Next]_vars => SInv'
<1> SUFFICES ASSUME SInv, [Next]_vars PROVE SInv'
  OBVIOUS
<1>1. CASE \E p \in Producer :
              \/ Receive(p) \/ ReceiveEnds(p) \/ Produce(p) \/ ProduceFails(p)
              \/ SendOffset(p) \/ SendUnheard(p) \/ Retry(p)
  BY <1>1, ReceiveInv, ReceiveEndsInv, ProduceInv, ProduceFailsInv, SendOffsetInv,
     SendUnheardInv, RetryInv
<1>2. CASE LateCommit
  BY <1>2, LateCommitInv
<1>3. CASE \E c \in Consumer : Consume(c) \/ SendRecord(c) \/ ConsumeEnds(c) \/ Resume(c)
  BY <1>3, ConsumeInv, SendRecordInv, ConsumeEndsInv, ResumeInv
<1>4. CASE UNCHANGED vars
  <2>1. UNCHANGED <<log, late, prod, cons>>
    BY <1>4 DEF vars
  <2>2. Grows /\ FirstInOrder' /\ LateOK'
    BY <2>1, SameLogGrows, FirstKept, LateKept
  <2>3. (\A p \in Producer : ProducerOK(p)') /\ \A c \in Consumer : ConsumerOK(c)'
    BY <2>1, <2>2, ProducerKept, ConsumerKept
  <2>4. TypeOK' /\ Len(log') <= MaxLog
    BY <2>1 DEF SInv, TypeOK
  <2>5. QED
    BY <2>2, <2>3, <2>4 DEF SInv
<1>5. QED
  BY <1>1, <1>2, <1>3, <1>4 DEF Next

(* The invariant that ties the streams to the log holds always. *)
THEOREM ServerInvariance == Spec => []SInv
  BY InitInv, StepInv, PTL DEF Spec

(* ProduceStream answers with the offset of the record it answers, for every
   number of concurrent and retrying producers. *)
THEOREM AnsweredIsStoredAlways == Spec => []AnsweredIsStored
<1>1. SInv => AnsweredIsStored
  BY DEF SInv, ProducerOK, AnsweredIsStored
<1>2. QED
  BY <1>1, ServerInvariance, PTL

(* Neither late commits nor retries bring a producer's record n + 1 into the
   log before record n, for every number of records. *)
THEOREM FirstInOrderAlways == Spec => []FirstInOrder
<1>1. SInv => FirstInOrder
  BY DEF SInv
<1>2. QED
  BY <1>1, ServerInvariance, PTL

(* ConsumeStream, however often resumed, gives its client the log from the
   start offset on, for every log. *)
THEOREM ConsumedInOrderAlways == Spec => []ConsumedInOrder
<1>1. SInv => ConsumedInOrder
  BY DEF SInv, ConsumerOK, ConsumedInOrder
<1>2. QED
  BY <1>1, ServerInvariance, PTL

(* The streams, the log and the commands that may commit late keep their
   types, for every number of each. *)
THEOREM ServerTypes == Spec => []TypeOK
<1>1. SInv => TypeOK
  BY DEF SInv
<1>2. QED
  BY <1>1, ServerInvariance, PTL
===============================================================================
