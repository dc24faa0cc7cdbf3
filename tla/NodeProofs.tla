------------------------------ MODULE NodeProofs ------------------------------
(***************************************************************************)
(* Proofs about modules LogStore and Node: GetLog answers with raft's      *)
(* entries, and the logs of two nodes agree, for all terms, batches,       *)
(* compactions, failing appends and kinds of entries.                      *)
(***************************************************************************)
EXTENDS Node, TLAPS

(* Raft's log store without the conflicts of SpecConflict. *)
StoreOK ==
    /\ last \in Nat /\ next = last + 1 /\ dangling = FALSE
    /\ DOMAIN log \subseteq 1 .. last /\ \A o \in DOMAIN log : log[o] \in Term
    /\ DOMAIN entries \subseteq 1 .. last
    /\ StoredAtIndex

(* How far raft is: what is not applied is not compacted. *)
ProgressOK ==
    /\ commit \in 0 .. last
    /\ received \in Seq(Term) /\ Len(received) <= last
    /\ applied \in [Nodes -> Nat]
    /\ applied[Leader] <= commit
    /\ applied[Follower] <= Len(received)
    /\ applied[Leader] + 1 .. last \subseteq DOMAIN entries
    /\ "index" \in DOMAIN reader /\ reader.index \in 0 .. applied[Leader]

Command(i) == i \in Nat \ NotCommand /\ i > 0

(* Records that are the first commands, all up to one unless Append has begun to
   refuse. *)
Lists(recs, isFull, upTo) ==
    /\ \A k \in DOMAIN recs : Command(recs[k][1]) /\ recs[k][1] <= upTo
    /\ \A k, l \in DOMAIN recs : k # l => recs[k][1] # recs[l][1]
    /\ \A k \in DOMAIN recs, i \in Nat :
          Command(i) /\ i <= recs[k][1] => \E l \in DOMAIN recs : l <= k /\ recs[l][1] = i
    /\ ~isFull => \A i \in Nat :
          Command(i) /\ i <= upTo => \E k \in DOMAIN recs : recs[k][1] = i

(* The records of a node are the first commands that it has applied. *)
Enumerates(n) == Lists(records[n], full[n], applied[n])

RecordsOK ==
    /\ records \in [Nodes -> Seq(Nat \X Term)]
    /\ full \in [Nodes -> BOOLEAN]
    /\ \A n \in Nodes : Enumerates(n)

(* Entries, copies and records with one index hold one value. *)
OneValue ==
    /\ \A i \in DOMAIN received \cap DOMAIN log : received[i] = log[i]
    /\ \A k \in DOMAIN records[Follower] :
          records[Follower][k][2] = received[records[Follower][k][1]]
    /\ \A k \in DOMAIN records[Leader] :
          LET i == records[Leader][k][1]
          IN  /\ i \in DOMAIN log => records[Leader][k][2] = log[i]
              /\ i \in DOMAIN received => records[Leader][k][2] = received[i]

(* The inductive invariant. *)
NInv == StoreOK /\ ProgressOK /\ RecordsOK /\ OneValue /\ NodesAgree
-----------------------------------------------------------------------------
USE LogStoreAssumption, NodeAssumption DEF Nodes

(* The elements of a sequence. *)
LEMMA SeqFacts ==
  ASSUME NEW S, NEW s \in Seq(S)
  PROVE  Len(s) \in Nat /\ DOMAIN s = 1 .. Len(s) /\ \A k \in DOMAIN s : s[k] \in S
  OBVIOUS

(* What Append adds to a sequence. *)
LEMMA AppendFacts ==
  ASSUME NEW S, NEW s \in Seq(S), NEW e \in S
  PROVE  /\ Append(s, e) \in Seq(S)
         /\ DOMAIN Append(s, e) = DOMAIN s \cup {Len(s) + 1}
         /\ \A k \in DOMAIN s : Append(s, e)[k] = s[k] /\ k \in Nat /\ k < Len(s) + 1
         /\ Append(s, e)[Len(s) + 1] = e
  OBVIOUS

(* The length of what Append returns. *)
LEMMA AppendLen ==
  ASSUME NEW S, NEW s \in Seq(S), NEW e \in S
  PROVE  Append(s, e) \in Seq(S) /\ Len(Append(s, e)) = Len(s) + 1 /\ Len(s) \in Nat
  OBVIOUS

(* The invariant holds of two nodes that start. *)
LEMMA InitInv == NodeInit => NInv
<1> SUFFICES ASSUME NodeInit PROVE NInv
  OBVIOUS
<1> USE DEF NodeInit, Init
<1>1. StoreOK
  BY DEF StoreOK, StoredAtIndex, LastIndex, Empty
<1>2. ProgressOK
  BY DEF ProgressOK, LastIndex, Empty, NoReader
<1>3. RecordsOK
  BY DEF RecordsOK, Enumerates, Lists, Command
<1>4. OneValue /\ NodesAgree
  BY DEF OneValue, NodesAgree
<1>5. QED
  BY <1>1, <1>2, <1>3, <1>4 DEF NInv

(* StoreLogs puts new entries behind the others, in both views. *)
LEMMA ProposeInv ==
  ASSUME NInv, NEW n \in 1 .. MaxBatch, NEW t \in Term, Propose(n, t)
  PROVE  NInv'
<1> USE DEF NInv, Propose, StoreLogs, Appends, machine, snapshot
<1>1. /\ last' = last + n /\ next' = next + n /\ dangling' = FALSE
      /\ DOMAIN log' = DOMAIN log \cup (last + 1 .. last + n)
      /\ DOMAIN entries' = DOMAIN entries \cup (last + 1 .. last + n)
      /\ \A i \in DOMAIN log : log'[i] = log[i]
      /\ \A i \in DOMAIN entries : entries'[i] = entries[i]
      /\ \A i \in last + 1 .. last + n : log'[i] = t /\ entries'[i] = t
  BY DEF StoreOK, Extend
<1>2. StoreOK'
  BY <1>1 DEF StoreOK, StoredAtIndex
<1>3. ProgressOK'
  BY <1>1 DEF ProgressOK, StoreOK
<1>4. RecordsOK' /\ NodesAgree'
  BY DEF RecordsOK, Enumerates, Lists, NodesAgree
<1>5. OneValue'
  <2>1. \A i \in DOMAIN received \cap DOMAIN log' : received[i] = log'[i]
    BY <1>1, SMTT(30) DEF OneValue, StoreOK, ProgressOK
  <2>2. ASSUME NEW k \in DOMAIN records[Leader], records[Leader][k][1] \in DOMAIN log'
        PROVE  records[Leader][k][2] = log'[records[Leader][k][1]]
    <3>1. records[Leader][k][1] \in Nat /\ records[Leader][k][1] <= last
      BY SMTT(30) DEF ProgressOK, RecordsOK, Enumerates, Lists, Command, StoreOK
    <3>2. records[Leader][k][1] \in DOMAIN log
      BY <1>1, <2>2, <3>1 DEF StoreOK
    <3>3. QED
      BY <1>1, <3>2 DEF OneValue
  <2>3. QED
    BY <2>1, <2>2 DEF OneValue
<1>6. QED
  BY <1>2, <1>3, <1>4, <1>5

(* Raft commits what the leader has stored. *)
LEMMA CommitInv ==
  ASSUME NInv, NEW c \in 1 .. MaxIndex, Commit(c)
  PROVE  NInv'
  BY SMTT(30) DEF NInv, Commit, StoreOK, StoredAtIndex, ProgressOK, RecordsOK, Enumerates, Lists,
         OneValue, NodesAgree, vars, machine, snapshot

(* The follower's copy has the value of the leader's entry. *)
LEMMA ReplicateInv ==
  ASSUME NInv, Replicate
  PROVE  NInv'
<1> DEFINE i == Len(received) + 1
<1> USE DEF NInv, Replicate, vars, machine, snapshot
<1>1. /\ i \in DOMAIN log /\ log[i] \in Term /\ i <= last
      /\ received' = Append(received, log[i])
      /\ received' \in Seq(Term) /\ Len(received') = i
      /\ \A j \in DOMAIN received : received'[j] = received[j]
      /\ received'[i] = log[i]
      /\ DOMAIN received' = DOMAIN received \cup {i}
  BY DEF StoreOK, ProgressOK
<1>2. StoreOK'
  BY DEF StoreOK, StoredAtIndex
<1>3. ProgressOK'
  BY <1>1 DEF ProgressOK
<1>4. RecordsOK' /\ NodesAgree'
  BY DEF RecordsOK, Enumerates, Lists, NodesAgree
<1>5. OneValue'
  <2>1. \A j \in DOMAIN received' \cap DOMAIN log : received'[j] = log[j]
    BY <1>1 DEF OneValue
  <2>2. ASSUME NEW k \in DOMAIN records[Follower]
        PROVE  records[Follower][k][2] = received'[records[Follower][k][1]]
    <3>1. records[Follower][k][1] \in DOMAIN received
      BY SMTT(30) DEF ProgressOK, RecordsOK, Enumerates, Lists, Command
    <3>2. QED
      BY <1>1, <3>1 DEF OneValue
  <2>3. ASSUME NEW k \in DOMAIN records[Leader], records[Leader][k][1] \in DOMAIN received'
        PROVE  records[Leader][k][2] = received'[records[Leader][k][1]]
    BY <1>1, <2>3 DEF OneValue
  <2>4. QED
    BY <2>1, <2>2, <2>3 DEF OneValue
<1>6. QED
  BY <1>2, <1>3, <1>4, <1>5

(* Reads and unfinished snapshots change nothing the invariant is about. *)
LEMMA QuietInv ==
  ASSUME NInv,
         \/ \E k \in DOMAIN stores : Flush(k)
         \/ Snapshot \/ Persist \/ PersistFails
  PROVE  NInv'
<1>1. /\ UNCHANGED <<vars, received, commit, machine>>
      /\ "index" \in DOMAIN reader'
      /\ reader'.index \in {0, reader.index, applied[Leader]}
  <2>1. "index" \in DOMAIN reader
    BY DEF NInv, ProgressOK
  <2>2. CASE \E k \in DOMAIN stores : Flush(k)
    BY <2>1, <2>2 DEF Flush, snapshot
  <2>3. CASE Snapshot
    BY <2>3 DEF Snapshot
  <2>4. CASE Persist
    BY <2>1, <2>4 DEF Persist
  <2>5. CASE PersistFails
    BY <2>5 DEF PersistFails, NoReader
  <2>6. QED
    BY <2>2, <2>3, <2>4, <2>5
<1> USE DEF vars, machine
<1>2. StoreOK' /\ NodesAgree'
  BY <1>1 DEF NInv, StoreOK, StoredAtIndex, NodesAgree
<1>3. ProgressOK'
  BY <1>1 DEF NInv, ProgressOK
<1>4. RecordsOK'
  BY <1>1 DEF NInv, RecordsOK, Enumerates, Lists
<1>5. OneValue'
  BY <1>1 DEF NInv, OneValue
<1>6. QED
  BY <1>2, <1>3, <1>4, <1>5 DEF NInv

(* Raft compacts only what the leader has applied. *)
LEMMA PersistEndsInv ==
  ASSUME NInv, NEW max \in 0 .. MaxIndex, PersistEnds(max)
  PROVE  NInv'
<1> USE DEF NInv
<1>1. /\ UNCHANGED <<received, commit, machine>>
      /\ reader' = NoReader
  BY DEF PersistEnds, SinkCloses
<1>2. /\ UNCHANGED <<next, dangling, last>>
      /\ DOMAIN log' \subseteq DOMAIN log
      /\ DOMAIN entries' \subseteq DOMAIN entries
      /\ \A o \in DOMAIN log' : log'[o] = log[o]
      /\ \A o \in DOMAIN entries' : entries'[o] = entries[o] /\ o \in DOMAIN log'
      /\ \A o \in DOMAIN entries : o > applied[Leader] => o \in DOMAIN entries'
  <2>1. CASE max = 0
    BY <2>1 DEF PersistEnds, vars, StoreOK, StoredAtIndex
  <2>2. CASE max # 0
    <3>1. max <= reader.index /\ max < last /\ DeleteRange(max) /\ UNCHANGED last
          /\ entries' = Restrict(entries, {o \in DOMAIN entries : o > max})
      BY <2>2 DEF PersistEnds, CompactLogs
    <3>2. PICK from \in 0 .. max + 1 : log' = Restrict(log, {o \in DOMAIN log : o >= from})
      BY <3>1 DEF DeleteRange, StoreOK
    <3>3. UNCHANGED <<next, dangling>>
      BY <3>1 DEF DeleteRange, StoreOK
    <3>4. /\ DOMAIN log' = {o \in DOMAIN log : o >= from}
          /\ DOMAIN entries' = {o \in DOMAIN entries : o > max}
          /\ \A o \in DOMAIN log' : log'[o] = log[o]
          /\ \A o \in DOMAIN entries' : entries'[o] = entries[o]
      BY <3>1, <3>2 DEF Restrict
    <3>5. \A o \in DOMAIN entries' : o \in DOMAIN log'
      BY <3>4 DEF StoreOK, StoredAtIndex
    <3>6. \A o \in DOMAIN entries : o > applied[Leader] => o \in DOMAIN entries'
      BY <3>1, <3>4 DEF StoreOK, ProgressOK
    <3>7. QED
      BY <3>1, <3>3, <3>4, <3>5, <3>6
  <2>3. QED
    BY <2>1, <2>2
<1>3. StoreOK'
  BY <1>2 DEF StoreOK, StoredAtIndex
<1>4. ProgressOK'
  BY <1>1, <1>2 DEF ProgressOK, StoreOK, NoReader, machine
<1>5. RecordsOK' /\ NodesAgree'
  BY <1>1 DEF RecordsOK, Enumerates, Lists, NodesAgree, machine
<1>6. OneValue'
  BY <1>1, <1>2 DEF OneValue, machine
<1>7. QED
  BY <1>3, <1>4, <1>5, <1>6

-----------------------------------------------------------------------------
(* The entry a node applies next is in its log. *)
LEMMA ApplyKnown ==
  ASSUME NInv, NEW n \in Nodes, Apply(n)
  PROVE  /\ applied[n] + 1 <= last
         /\ n = Leader => /\ applied[n] + 1 \in DOMAIN log
                          /\ log[applied[n] + 1] \in Term
         /\ n = Follower => /\ applied[n] + 1 \in DOMAIN received
                            /\ received[applied[n] + 1] \in Term
<1>1. applied[n] + 1 <= last
  BY DEF NInv, ProgressOK, StoreOK, Apply
<1>2. CASE n = Leader
  BY <1>1, <1>2 DEF NInv, ProgressOK, StoreOK, StoredAtIndex
<1>3. CASE n = Follower
  BY <1>1, <1>3 DEF NInv, ProgressOK, Apply
<1>4. QED
  BY <1>1, <1>2, <1>3

(* The invariant of raft's own state while entries are applied. *)
LEMMA ApplyProgress ==
  ASSUME NInv, NEW n \in Nodes, Apply(n)
  PROVE  StoreOK' /\ ProgressOK'
<1>1. UNCHANGED <<vars, received, commit, reader>>
      /\ applied' = [applied EXCEPT ![n] = applied[n] + 1]
  BY DEF Apply, snapshot
<1>2. StoreOK'
  BY <1>1 DEF NInv, StoreOK, StoredAtIndex, vars
<1>3. ProgressOK'
  BY <1>1, ApplyKnown DEF NInv, ProgressOK, StoreOK, Apply, vars
<1>4. QED
  BY <1>2, <1>3

(* An entry the state machine does not see, or that Append refuses, changes
   no record. *)
LEMMA ApplyNothing ==
  ASSUME NInv, NEW n \in Nodes, Apply(n), UNCHANGED <<records, full>>,
         applied[n] + 1 \in NotCommand \/ full[n]
  PROVE  NInv'
<1>1. UNCHANGED <<vars, received>> /\ applied' = [applied EXCEPT ![n] = applied[n] + 1]
  BY DEF Apply
<1>2. \A m \in Nodes : applied[m] \in Nat /\ applied'[m] \in {applied[m], applied[m] + 1}
      /\ (applied'[m] # applied[m] => m = n)
  BY <1>1 DEF NInv, ProgressOK
<1>3. ASSUME NEW m \in Nodes PROVE Enumerates(m)'
  <2>1. Enumerates(m)
    BY DEF NInv, RecordsOK
  <2>2. \A k \in DOMAIN records[m] :
           Command(records[m][k][1]) /\ records[m][k][1] <= applied'[m]
    BY <1>2, <2>1 DEF Enumerates, Lists, Command
  <2>3. ASSUME ~full[m], NEW i \in Nat, Command(i), i <= applied'[m]
        PROVE  i <= applied[m]
    BY <1>2, <2>3 DEF Command
  <2>4. QED
    BY <2>1, <2>2, <2>3, SMTT(30) DEF Enumerates, Lists, Command
<1>4. RecordsOK'
  BY <1>3 DEF NInv, RecordsOK
<1>5. OneValue' /\ NodesAgree'
  BY <1>1 DEF NInv, OneValue, NodesAgree, vars
<1>6. QED
  BY ApplyProgress, <1>4, <1>5 DEF NInv
(***************************************************************************)
(* A node that appends record o while the other has it already appends the *)
(* same: the records before it agree and are all the commands before i, so *)
(* the other's record o has no smaller index; it has no greater one, as    *)
(* the other leaves no command out.                                        *)
(***************************************************************************)
LEMMA SameIndex ==
  ASSUME NInv, NEW n \in Nodes, NEW m \in Nodes, n # m, ~full[n],
         Command(applied[n] + 1),
         Len(records[n]) + 1 \in DOMAIN records[m]
  PROVE  records[m][Len(records[n]) + 1][1] = applied[n] + 1
<1> DEFINE o == Len(records[n]) + 1
           i == applied[n] + 1
           j == records[m][o][1]
<1>1. /\ records[n] \in Seq(Nat \X Term) /\ records[m] \in Seq(Nat \X Term)
      /\ Enumerates(n) /\ Enumerates(m) /\ applied[n] \in Nat
  BY DEF NInv, RecordsOK, ProgressOK
<1> HIDE DEF o, i, j
<1>2. /\ Len(records[n]) \in Nat /\ DOMAIN records[n] = 1 .. Len(records[n])
      /\ Len(records[m]) \in Nat /\ DOMAIN records[m] = 1 .. Len(records[m])
      /\ o = Len(records[n]) + 1 /\ o \in DOMAIN records[m]
  BY <1>1, SeqFacts DEF o
<1>3. ASSUME NEW k \in DOMAIN records[n]
      PROVE  k \in DOMAIN records[m] /\ k # o /\ records[n][k] = records[m][k]
  <2>1. k \in DOMAIN records[m] /\ k # o
    BY <1>2
  <2>2. QED
    BY <2>1 DEF NInv, NodesAgree
<1>4. Command(j) /\ j \in Nat /\ i \in Nat /\ i = applied[n] + 1 /\ o \in DOMAIN records[m]
  BY <1>1 DEF Enumerates, Lists, Command, i, j, o
<1>5. ~(j < i)
  <2> SUFFICES ASSUME j < i PROVE FALSE
    OBVIOUS
  <2>1. j <= applied[n]
    BY <1>1, <1>4
  <2>2. PICK k \in DOMAIN records[n] : records[n][k][1] = j
    BY <1>1, <1>4, <2>1 DEF Enumerates, Lists
  <2>3. QED
    BY <1>1, <1>3, <1>4, <2>2, SMTT(30) DEF Enumerates, Lists, j
<1>6. ~(i < j)
  <2> SUFFICES ASSUME i < j PROVE FALSE
    OBVIOUS
  <2>1. PICK l \in DOMAIN records[m] : l <= o /\ records[m][l][1] = i
    <3>1. Command(i) /\ i <= records[m][o][1]
      BY <1>4 DEF i, j
    <3>2. \A k \in DOMAIN records[m], x \in Nat :
             Command(x) /\ x <= records[m][k][1] =>
                 \E l \in DOMAIN records[m] : l <= k /\ records[m][l][1] = x
      BY <1>1 DEF Enumerates, Lists
    <3>3. QED
      BY <1>4, <3>1, <3>2
  <2>2. l # o
    BY <1>4, <2>1 DEF j
  <2>3. l \in DOMAIN records[n]
    BY <1>2, <2>1, <2>2
  <2>4. records[n][l][1] = i
    BY <1>3, <2>1, <2>3
  <2>5. QED
    BY <1>1, <1>4, <2>3, <2>4 DEF Enumerates, Lists
<1>7. QED
  BY <1>4, <1>5, <1>6 DEF i, j, o

(* Append stores the record. *)
LEMMA ApplyStores ==
  ASSUME NInv, NEW n \in Nodes, Apply(n), applied[n] + 1 \notin NotCommand,
         Stores(n, <<applied[n] + 1,
                     IF n = Leader THEN log[applied[n] + 1] ELSE received[applied[n] + 1]>>)
  PROVE  NInv'
<1> DEFINE i == applied[n] + 1
           v == IF n = Leader THEN log[i] ELSE received[i]
           o == Len(records[n]) + 1
<1> HIDE DEF i, v, o
<1>1. /\ UNCHANGED <<vars, received>>
      /\ applied' = [applied EXCEPT ![n] = i]
  BY DEF Apply, i
<1>2. v \in Term /\ i \in Nat /\ Command(i) /\ applied[n] \in Nat /\ i = applied[n] + 1
  BY ApplyKnown DEF NInv, ProgressOK, Command, i, v
<1>3. /\ n = Leader => i \in DOMAIN log /\ v = log[i]
      /\ n = Follower => i \in DOMAIN received /\ v = received[i]
  BY ApplyKnown DEF i, v
<1>4. ~full[n] /\ records' = [records EXCEPT ![n] = Append(records[n], <<i, v>>)]
  BY DEF Stores, i, v
<1>5. full' \in [Nodes -> BOOLEAN]
  BY DEF Stores, NInv, RecordsOK
<1>6. \A m \in Nodes \ {n} : /\ records'[m] = records[m] /\ applied'[m] = applied[m]
                             /\ full'[m] = full[m]
  BY <1>1, <1>4 DEF NInv, RecordsOK, ProgressOK, Stores
<1>7. /\ records' \in [Nodes -> Seq(Nat \X Term)]
      /\ records[n] \in Seq(Nat \X Term)
      /\ DOMAIN records'[n] = DOMAIN records[n] \cup {o} /\ o \in Nat
      /\ \A k \in DOMAIN records[n] : records'[n][k] = records[n][k] /\ k \in Nat /\ k < o
      /\ records'[n][o] = <<i, v>>
      /\ applied'[n] = i
  <2>1. records \in [Nodes -> Seq(Nat \X Term)] /\ records[n] \in Seq(Nat \X Term)
    BY DEF NInv, RecordsOK
  <2>2. records'[n] = Append(records[n], <<i, v>>) /\ <<i, v>> \in Nat \X Term
    BY <1>2, <1>4, <2>1
  <2>3. Append(records[n], <<i, v>>) \in Seq(Nat \X Term)
    BY <2>1, <2>2, SMTT(30)
  <2>4. records' \in [Nodes -> Seq(Nat \X Term)]
    BY <1>4, <2>1, <2>3
  <2>5. /\ DOMAIN records'[n] = DOMAIN records[n] \cup {o} /\ o \in Nat
        /\ \A k \in DOMAIN records[n] : records'[n][k] = records[n][k] /\ k \in Nat /\ k < o
        /\ records'[n][o] = <<i, v>>
    BY <2>1, <2>2, SeqFacts, AppendFacts, SMTT(30) DEF o
  <2>6. QED
    BY <1>1, <2>1, <2>4, <2>5 DEF NInv, ProgressOK
<1>8. Enumerates(n)'
  <2>1. Enumerates(n)
    BY DEF NInv, RecordsOK
  <2>2. \A k \in DOMAIN records'[n] :
           Command(records'[n][k][1]) /\ records'[n][k][1] <= applied'[n]
    BY <1>2, <1>7, <2>1, SMTT(30) DEF Enumerates, Lists, Command
  <2>3. \A k, l \in DOMAIN records'[n] : k # l => records'[n][k][1] # records'[n][l][1]
    <3>1. \A k \in DOMAIN records[n] : records[n][k][1] # i
      BY <1>2, <2>1 DEF Enumerates, Lists, Command
    <3>2. \A k, l \in DOMAIN records[n] : k # l => records[n][k][1] # records[n][l][1]
      BY <2>1 DEF Enumerates, Lists
    <3>3. records'[n][o][1] = i
      BY <1>7
    <3>4. QED
      BY <1>7, <3>1, <3>2, <3>3
  <2>4. ASSUME NEW j \in Nat, Command(j), j <= i
        PROVE  \E k \in DOMAIN records'[n] : k <= o /\ records'[n][k][1] = j
    <3>1. CASE j = i
      BY <1>7, <3>1
    <3>2. CASE j # i
      <4>1. j <= applied[n]
        BY <1>2, <2>4, <3>2
      <4>2. PICK k \in DOMAIN records[n] : records[n][k][1] = j
        BY <1>4, <2>1, <2>4, <4>1 DEF Enumerates, Lists
      <4>3. QED
        BY <1>7, <4>2
    <3>3. QED
      BY <3>1, <3>2
  <2>5. ASSUME NEW k \in DOMAIN records'[n], NEW j \in Nat, Command(j),
               j <= records'[n][k][1]
        PROVE  \E l \in DOMAIN records'[n] : l <= k /\ records'[n][l][1] = j
    <3>1. CASE k = o
      <4>1. j <= i
        BY <1>7, <2>5, <3>1
      <4>2. QED
        BY <2>4, <2>5, <3>1, <4>1
    <3>2. CASE k # o
      <4>1. k \in DOMAIN records[n] /\ j <= records[n][k][1]
        BY <1>7, <2>5, <3>2
      <4>2. PICK l \in DOMAIN records[n] : l <= k /\ records[n][l][1] = j
        BY <2>1, <2>5, <4>1 DEF Enumerates, Lists
      <4>3. QED
        BY <1>7, <4>2
    <3>3. QED
      BY <3>1, <3>2
  <2>6. QED
    BY <1>7, <2>2, <2>3, <2>4, <2>5 DEF Enumerates, Lists, Command
<1>9. RecordsOK'
  <2>1. ASSUME NEW m \in Nodes \ {n} PROVE Enumerates(m)'
    <3>1. Lists(records[m], full[m], applied[m])
      BY DEF NInv, RecordsOK, Enumerates
    <3>2. records'[m] = records[m] /\ full'[m] = full[m] /\ applied'[m] = applied[m]
      BY <1>6
    <3>3. QED
      BY <3>1, <3>2 DEF Enumerates
  <2>2. QED
    BY <1>5, <1>7, <1>8, <2>1 DEF RecordsOK
<1>10. OneValue'
  <2>1. CASE n = Leader
    <3>1. records'[Follower] = records[Follower]
      BY <1>6, <2>1
    <3>2. ASSUME NEW k \in DOMAIN records'[Leader]
          PROVE  LET x == records'[Leader][k][1]
                 IN  /\ x \in DOMAIN log => records'[Leader][k][2] = log[x]
                     /\ x \in DOMAIN received => records'[Leader][k][2] = received[x]
      <4>1. CASE k = o
        BY <1>3, <1>7, <2>1, <4>1 DEF NInv, OneValue
      <4>2. CASE k # o
        <5>1. k \in DOMAIN records[Leader] /\ records'[Leader][k] = records[Leader][k]
          BY <1>7, <2>1, <3>2, <4>2
        <5>2. QED
          BY <5>1 DEF NInv, OneValue
      <4>3. QED
        BY <4>1, <4>2
    <3>3. QED
      BY <1>1, <3>1, <3>2 DEF NInv, OneValue, vars
  <2>2. CASE n = Follower
    <3>1. records'[Leader] = records[Leader]
      BY <1>6, <2>2
    <3>2. ASSUME NEW k \in DOMAIN records'[Follower]
          PROVE  records'[Follower][k][2] = received[records'[Follower][k][1]]
      <4>1. CASE k = o
        BY <1>3, <1>7, <2>2, <4>1
      <4>2. CASE k # o
        BY <1>7, <2>2, <3>2, <4>2, SMTT(30) DEF NInv, OneValue
      <4>3. QED
        BY <4>1, <4>2
    <3>3. QED
      BY <1>1, <3>1, <3>2 DEF NInv, OneValue, vars
  <2>3. QED
    BY <2>1, <2>2
<1>11. NodesAgree'
  <2>1. ASSUME NEW m \in Nodes \ {n}, o \in DOMAIN records[m]
        PROVE  records[m][o] = <<i, v>>
    <3>1. records[m][o][1] = i
      BY <1>2, <1>4, <2>1, SameIndex DEF o
    <3>2. records[m][o] \in Nat \X Term
      BY <2>1, SeqFacts DEF NInv, RecordsOK
    <3>3. records[m][o][2] = v
      <4>1. CASE n = Leader
        <5>1. m = Follower
          BY <2>1, <4>1
        <5>2. i <= applied[Follower]
          BY <2>1, <3>1, <5>1 DEF NInv, RecordsOK, Enumerates, Lists
        <5>3. i \in DOMAIN received
          BY <1>2, <5>2 DEF NInv, ProgressOK, Command
        <5>4. records[m][o][2] = received[i]
          BY <2>1, <3>1, <5>1 DEF NInv, OneValue
        <5>5. QED
          BY <1>3, <4>1, <5>3, <5>4 DEF NInv, OneValue
      <4>2. CASE n = Follower
        <5>1. m = Leader
          BY <2>1, <4>2
        <5>2. QED
          BY <1>3, <2>1, <3>1, <4>2, <5>1 DEF NInv, OneValue
      <4>3. QED
        BY <4>1, <4>2
    <3>4. QED
      BY <3>1, <3>2, <3>3
  <2>2. ASSUME NEW m \in Nodes \ {n}, NEW k \in DOMAIN records'[n] \cap DOMAIN records[m]
        PROVE  records'[n][k] = records[m][k]
    <3>1. CASE k = o
      BY <1>7, <2>1, <2>2, <3>1
    <3>2. CASE k # o
      <4>1. k \in DOMAIN records[n] /\ records'[n][k] = records[n][k]
        BY <1>7, <2>2, <3>2
      <4>2. QED
        BY <2>2, <4>1 DEF NInv, NodesAgree
    <3>3. QED
      BY <3>1, <3>2
  <2>3. QED
    BY <1>6, <2>2, SMTT(30) DEF NodesAgree
<1>12. QED
  BY ApplyProgress, <1>9, <1>10, <1>11 DEF NInv

(* Raft hands a node its next entry, whatever becomes of it. *)
LEMMA ApplyInv ==
  ASSUME NInv, NEW n \in Nodes, Apply(n)
  PROVE  NInv'
<1> DEFINE r == <<applied[n] + 1,
                  IF n = Leader THEN log[applied[n] + 1] ELSE received[applied[n] + 1]>>
<1>1. CASE applied[n] + 1 \in NotCommand
  BY <1>1, ApplyNothing DEF Apply
<1>2. CASE applied[n] + 1 \notin NotCommand /\ Stores(n, r)
  BY <1>2, ApplyStores
<1>3. CASE applied[n] + 1 \notin NotCommand /\ Refuses(n, r)
  BY <1>3, ApplyNothing DEF Refuses
<1>4. QED
  BY <1>1, <1>2, <1>3 DEF Apply

(* Every step keeps the invariant. *)
LEMMA StepInv == NInv /\ [NodeNext]_nodeVars => NInv'
<1> SUFFICES ASSUME NInv, [NodeNext]_nodeVars PROVE NInv'
  OBVIOUS
<1>1. CASE NodeNext
  BY <1>1, ProposeInv, CommitInv, ReplicateInv, ApplyInv, QuietInv, PersistEndsInv
     DEF NodeNext
<1>2. CASE UNCHANGED nodeVars
  <2>1. UNCHANGED <<log, next, dangling, entries, last, received, commit, applied,
                    records, full, reader>>
    BY <1>2 DEF nodeVars, vars, machine, snapshot
  <2>2. StoreOK' /\ NodesAgree'
    BY <2>1 DEF NInv, StoreOK, StoredAtIndex, NodesAgree
  <2>3. ProgressOK'
    BY <2>1 DEF NInv, ProgressOK
  <2>4. RecordsOK'
    BY <2>1 DEF NInv, RecordsOK, Enumerates
  <2>5. OneValue'
    BY <2>1 DEF NInv, OneValue
  <2>6. QED
    BY <2>2, <2>3, <2>4, <2>5 DEF NInv
<1>3. QED
  BY <1>1, <1>2

(* The invariant that ties raft's log, the follower's copy and the records of
   both nodes together holds always. *)
THEOREM NodeInvariance == NodeSpec => []NInv
  BY InitInv, StepInv, PTL DEF NodeSpec

(* GetLog answers with the entry raft stored, for every entry raft has not
   deleted, whatever raft stores and compacts. *)
THEOREM StoredAtIndexAlways == NodeSpec => []StoredAtIndex
<1>1. NInv => StoredAtIndex
  BY DEF NInv, StoreOK
<1>2. QED
  BY <1>1, NodeInvariance, PTL

(* LastIndex is raft's last index, compactions or not. *)
THEOREM AgreesOnLastAlways == NodeSpec => []AgreesOnLast
<1>1. NInv => AgreesOnLast
  BY DEF NInv, StoreOK, AgreesOnLast, LastIndex
<1>2. QED
  BY <1>1, NodeInvariance, PTL

(* The record at an offset is the same on both nodes, at whatever command
   Append begins to refuse on one of them. *)
THEOREM NodesAgreeAlways == NodeSpec => []NodesAgree
<1>1. NInv => NodesAgree
  BY DEF NInv
<1>2. QED
  BY <1>1, NodeInvariance, PTL
-----------------------------------------------------------------------------
Store == [base : Nat, flushed : Nat, pos : Nat]

(* A store file of the leader, up to the frames at which the next begins. *)
StoreBounds(s, end) == s.base <= s.pos /\ s.pos <= s.flushed /\ s.flushed <= end

(* What the invariant leaves out of the types: the bounds on what a node has
   applied and stored, and the leader's store files. *)
Bounded ==
    /\ last <= MaxIndex
    /\ applied[Follower] <= commit
    /\ \A n \in Nodes : Len(records[n]) <= applied[n]
    /\ frames \in Seq(Nat \X Term)
    /\ stores \in Seq(Store)
    /\ \A k \in DOMAIN stores : StoreBounds(stores[k], End(k))
    /\ snap.index \in 0 .. applied[Leader]

(* A store file that is read further, or flushed. *)
LEMMA StoreChanges ==
  ASSUME Bounded, NEW k \in DOMAIN stores, NEW s \in Store, UNCHANGED frames,
         stores' = [stores EXCEPT ![k] = s], s.base = stores[k].base,
         StoreBounds(s, End(k))
  PROVE  stores' \in Seq(Store) /\ \A j \in DOMAIN stores' : StoreBounds(stores'[j], End(j)')
<1>1. /\ stores' \in Seq(Store) /\ DOMAIN stores' = DOMAIN stores /\ Len(stores') = Len(stores)
      /\ DOMAIN stores = 1 .. Len(stores) /\ Len(stores) \in Nat
      /\ stores'[k] = s /\ \A j \in DOMAIN stores \ {k} : stores'[j] = stores[j]
  BY DEF Bounded
<1>2. \A j \in DOMAIN stores : stores'[j].base = stores[j].base
  BY <1>1
<1>3. \A j \in DOMAIN stores : End(j)' = End(j)
  BY <1>1, <1>2 DEF End
<1>4. QED
  BY <1>1, <1>3 DEF Bounded

(* Frames that are added to the last store file, which another may follow. *)
LEMMA FramesGrow ==
  ASSUME Bounded, frames' \in Seq(Nat \X Term), Len(frames') >= Len(frames),
         stores' = stores \/ stores' = Append(stores, NewStore(Len(frames')))
  PROVE  stores' \in Seq(Store) /\ \A j \in DOMAIN stores' : StoreBounds(stores'[j], End(j)')
<1>1. /\ DOMAIN stores = 1 .. Len(stores) /\ Len(stores) \in Nat
      /\ Len(frames) \in Nat /\ Len(frames') \in Nat
      /\ \A j \in DOMAIN stores : stores[j] \in Store /\ StoreBounds(stores[j], End(j))
  BY DEF Bounded
<1>2. CASE stores' = stores
  <2>1. ASSUME NEW j \in DOMAIN stores PROVE StoreBounds(stores[j], End(j)')
    <3>1. End(j)' = IF j < Len(stores) THEN stores[j + 1].base ELSE Len(frames')
      BY <1>2 DEF End
    <3>2. End(j) = IF j < Len(stores) THEN stores[j + 1].base ELSE Len(frames)
      BY DEF End
    <3>3. stores[j] \in Store /\ StoreBounds(stores[j], End(j))
      BY <1>1
    <3>4. QED
      BY <1>1, <3>1, <3>2, <3>3 DEF StoreBounds, Store
  <2>2. QED
    BY <1>2, <2>1 DEF Bounded
<1>3. CASE stores' = Append(stores, NewStore(Len(frames')))
  <2> DEFINE new == NewStore(Len(frames'))
  <2>1. new \in Store /\ new.base = Len(frames') /\ StoreBounds(new, Len(frames'))
    BY <1>1 DEF NewStore, Store, StoreBounds
  <2> HIDE DEF new
  <2>2. /\ stores' \in Seq(Store) /\ Len(stores') = Len(stores) + 1
        /\ DOMAIN stores' = DOMAIN stores \cup {Len(stores) + 1}
        /\ stores'[Len(stores) + 1] = new
        /\ \A j \in DOMAIN stores : stores'[j] = stores[j]
    BY <1>1, <1>3, <2>1 DEF Bounded, new
  <2>3. ASSUME NEW j \in DOMAIN stores PROVE StoreBounds(stores[j], End(j)')
    <3>1. End(j)' = stores'[j + 1].base
      BY <1>1, <2>2 DEF End
    <3>2. CASE j < Len(stores)
      <4>1. End(j)' = End(j)
        BY <1>1, <2>2, <3>1, <3>2 DEF End
      <4>2. QED
        BY <1>1, <4>1
    <3>3. CASE j = Len(stores)
      <4>1. End(j)' = Len(frames') /\ End(j) = Len(frames)
        BY <2>1, <2>2, <3>1, <3>3 DEF End
      <4>2. stores[j] \in Store /\ StoreBounds(stores[j], End(j))
        BY <1>1
      <4>3. QED
        BY <1>1, <4>1, <4>2 DEF StoreBounds, Store
    <3>4. QED
      BY <1>1, <3>2, <3>3
  <2>4. ASSUME NEW j, j = Len(stores) + 1 PROVE End(j)' = Len(frames')
    BY <1>1, <2>2, <2>4 DEF End
  <2>5. ASSUME NEW j \in DOMAIN stores' PROVE StoreBounds(stores'[j], End(j)')
    <3>1. CASE j \in DOMAIN stores
      BY <2>2, <2>3, <3>1
    <3>2. CASE j = Len(stores) + 1
      BY <2>1, <2>2, <2>4, <3>2
    <3>3. QED
      BY <2>2, <3>1, <3>2
  <2>6. QED
    BY <2>2, <2>5
<1>4. QED
  BY <1>2, <1>3

(* The bounds after an entry is applied. *)
LEMMA ApplyBounded ==
  ASSUME NInv, Bounded, NEW n \in Nodes, Apply(n)
  PROVE  Bounded'
<1> DEFINE i == applied[n] + 1
           r == <<i, IF n = Leader THEN log[i] ELSE received[i]>>
<1>1. /\ UNCHANGED <<last, commit, snap>> /\ i <= commit
      /\ applied' = [applied EXCEPT ![n] = i]
      /\ applied \in [Nodes -> Nat] /\ records \in [Nodes -> Seq(Nat \X Term)]
      /\ frames \in Seq(Nat \X Term)
  BY DEF NInv, ProgressOK, RecordsOK, Bounded, Apply, vars, snapshot
<1>2. r \in Nat \X Term
  BY ApplyKnown, <1>1
<1>3. UNCHANGED <<records, frames, stores>> \/ Stores(n, r) \/ Refuses(n, r)
  BY DEF Apply
<1>4. \A m \in Nodes : applied'[m] >= applied[m] /\ (m = n => applied'[m] = applied[m] + 1)
  BY <1>1
<1> HIDE DEF i, r
<1>5. frames' \in Seq(Nat \X Term) /\ Len(frames') >= Len(frames)
  <2>1. frames' = frames \/ frames' = Append(frames, r)
    BY <1>3 DEF Stores, Refuses, Writes
  <2>2. Len(frames) \in Nat /\ Append(frames, r) \in Seq(Nat \X Term)
        /\ Len(Append(frames, r)) = Len(frames) + 1
    BY <1>1, <1>2, AppendLen
  <2>3. CASE frames' = frames
    BY <1>1, <2>2, <2>3
  <2>4. CASE frames' = Append(frames, r)
    <3> DEFINE f == Append(frames, r)
    <3>1. f \in Seq(Nat \X Term) /\ Len(f) = Len(frames) + 1
      BY <2>2
    <3> HIDE DEF f
    <3>2. frames' = f
      BY <2>4 DEF f
    <3>3. QED
      BY <2>2, <3>1, <3>2
  <2>5. QED
    BY <2>1, <2>3, <2>4
<1>6. stores' \in Seq(Store) /\ \A j \in DOMAIN stores' : StoreBounds(stores'[j], End(j)')
  <2>1. stores' = stores \/ stores' = Append(stores, NewStore(Len(frames')))
    BY <1>3 DEF Stores, Refuses
  <2>2. QED
    BY <1>5, <2>1, FramesGrow
<1>7. ASSUME NEW m \in Nodes PROVE Len(records'[m]) <= applied'[m]
  <2>1. records' = records \/ records' = [records EXCEPT ![n] = Append(@, r)]
    BY <1>3 DEF Stores, Refuses
  <2>2. records'[m] = records[m] \/ (m = n /\ records'[m] = Append(records[m], r))
    <3>1. DOMAIN records = Nodes
      BY <1>1
    <3>2. QED
      BY <2>1, <3>1, Zenon
  <2>3. records[m] \in Seq(Nat \X Term) /\ Len(records[m]) <= applied[m]
    BY <1>1 DEF Bounded
  <2>4. Len(records'[m]) = Len(records[m])
        \/ (m = n /\ Len(records'[m]) = Len(records[m]) + 1)
    BY <1>2, <2>2, <2>3, AppendLen
  <2>5. Len(records[m]) \in Nat /\ applied[m] \in Nat
    BY <1>1, <2>3
  <2>6. QED
    BY <1>1, <1>4, <2>3, <2>4, <2>5
<1>8. applied'[Follower] <= commit
  BY <1>1 DEF Bounded, i
<1>9. snap.index \in 0 .. applied'[Leader]
  BY <1>1, <1>4 DEF Bounded
<1>10. QED
  BY <1>1, <1>5, <1>6, <1>7, <1>8, <1>9 DEF Bounded

(* The bounds after every step. *)
LEMMA StepBounded == NInv /\ Bounded /\ [NodeNext]_nodeVars => Bounded'
<1> SUFFICES ASSUME NInv, Bounded, [NodeNext]_nodeVars PROVE Bounded'
  OBVIOUS
<1>1. ASSUME NEW n \in 1 .. MaxBatch, NEW t \in Term, Propose(n, t) PROVE Bounded'
  <2>1. UNCHANGED <<commit, applied, records, frames, stores, snap>> /\ last' <= MaxIndex
    BY <1>1 DEF Propose, StoreLogs, Appends, NInv, StoreOK, machine, snapshot
  <2>2. QED
    BY <2>1 DEF Bounded, End
<1>2. ASSUME NEW c \in 1 .. MaxIndex, Commit(c) PROVE Bounded'
  <2>1. UNCHANGED <<last, applied, records, frames, stores, snap>> /\ commit' > commit
    BY <1>2 DEF Commit, NInv, ProgressOK, vars, machine, snapshot
  <2>2. applied[Follower] <= commit'
    <3>1. applied[Follower] \in Nat /\ commit \in Nat /\ commit' \in Nat
      BY <1>2 DEF NInv, ProgressOK, Commit
    <3>2. QED
      BY <2>1, <3>1 DEF Bounded
  <2>3. QED
    BY <2>1, <2>2 DEF Bounded, End
<1>3. ASSUME Replicate \/ Snapshot \/ PersistFails \/ UNCHANGED nodeVars PROVE Bounded'
  <2>1. UNCHANGED <<last, commit, applied, records, frames, stores, snap>>
    BY <1>3 DEF Replicate, Snapshot, PersistFails, nodeVars, vars, machine, snapshot
  <2>2. QED
    BY <2>1 DEF Bounded, End
<1>4. ASSUME NEW k \in DOMAIN stores, Flush(k) PROVE Bounded'
  <2> DEFINE s == [stores[k] EXCEPT !.flushed = End(k), !.pos = End(k)]
  <2>1. UNCHANGED <<last, commit, applied, records, frames, snap>>
        /\ stores' = [stores EXCEPT ![k] = s]
    BY <1>4 DEF Flush, vars, machine, snapshot
  <2>2. End(k) \in Nat /\ stores[k] \in Store /\ StoreBounds(stores[k], End(k))
    <3>1. /\ stores[k] \in Store /\ k \in 1 .. Len(stores) /\ Len(stores) \in Nat
          /\ Len(frames) \in Nat /\ StoreBounds(stores[k], End(k))
      BY DEF Bounded
    <3>2. k < Len(stores) => stores[k + 1] \in Store
      BY <3>1 DEF Bounded
    <3>3. QED
      BY <3>1, <3>2 DEF End, Store
  <2>3. s \in Store /\ s.base = stores[k].base /\ s.flushed = End(k) /\ s.pos = End(k)
    BY <2>2 DEF Store
  <2>4. StoreBounds(s, End(k))
    BY <2>2, <2>3 DEF Store, StoreBounds
  <2> HIDE DEF s
  <2>5. QED
    BY <2>1, <2>3, <2>4, StoreChanges DEF Bounded
<1>5. ASSUME Persist PROVE Bounded'
  <2> DEFINE k == Head(reader.todo)
             s == [stores[k] EXCEPT !.pos = stores[k].flushed]
  <2>1. UNCHANGED <<last, commit, applied, records, frames, snap>>
        /\ stores' = [stores EXCEPT ![k] = s]
    BY <1>5 DEF Persist, vars, machine, snapshot
  <2> HIDE DEF k
  <2>2. CASE k \in DOMAIN stores
    <3>1. stores[k] \in Store /\ StoreBounds(stores[k], End(k))
      BY <2>2 DEF Bounded
    <3>2. s \in Store /\ s.base = stores[k].base /\ s.pos = stores[k].flushed
          /\ s.flushed = stores[k].flushed
      BY <3>1 DEF Store
    <3>3. StoreBounds(s, End(k))
      BY <3>1, <3>2 DEF Store, StoreBounds
    <3> HIDE DEF s
    <3>4. QED
      BY <2>1, <2>2, <3>2, <3>3, StoreChanges DEF Bounded
  <2>3. CASE k \notin DOMAIN stores
    <3>1. stores' = stores
      BY <2>1, <2>3 DEF Bounded
    <3>2. QED
      BY <2>1, <3>1 DEF Bounded, End
  <2>4. QED
    BY <2>2, <2>3
<1>6. ASSUME NEW max \in 0 .. MaxIndex, PersistEnds(max) PROVE Bounded'
  <2>1. UNCHANGED <<last, commit, applied, records, frames, stores>>
        /\ snap'.index = reader.index
    BY <1>6 DEF PersistEnds, SinkCloses, CompactLogs, vars, machine
  <2>2. snap'.index \in 0 .. applied[Leader]
    BY <2>1 DEF NInv, ProgressOK
  <2>3. QED
    BY <2>1, <2>2 DEF Bounded, End
<1>7. QED
  BY <1>1, <1>2, <1>3, <1>4, <1>5, <1>6, ApplyBounded DEF NodeNext

(* The bounds of a node hold always: no node applies more than is committed,
   its log has no more records than it has applied entries, and a store file
   is read no further than it is flushed, and flushed no further than it is
   written. *)
THEOREM NodeTypes == NodeSpec => []NodeTypeOK
<1>1. NodeInit => Bounded
  <2> SUFFICES ASSUME NodeInit PROVE Bounded
    OBVIOUS
  <2>1. stores \in Seq(Store) /\ Len(stores) = 1 /\ stores[1] = NewStore(0)
        /\ DOMAIN stores = {1}
    BY DEF NodeInit, NewStore, Store
  <2>2. StoreBounds(stores[1], End(1))
    BY <2>1 DEF NodeInit, NewStore, StoreBounds, End
  <2>3. /\ last = 0 /\ commit = 0 /\ applied = [n \in Nodes |-> 0]
        /\ records = [n \in Nodes |-> <<>>] /\ frames = <<>> /\ snap.index = 0
    BY DEF NodeInit, Init, LastIndex
  <2>4. QED
    BY <2>1, <2>2, <2>3 DEF Bounded
<1>2. NInv /\ Bounded => NodeTypeOK
  <2> SUFFICES ASSUME NInv, Bounded PROVE NodeTypeOK
    OBVIOUS
  <2>1. TypeOK
    <3>1. /\ last \in 0 .. MaxIndex /\ next \in 1 .. MaxIndex + 1
          /\ 1 .. last \subseteq 1 .. MaxIndex
      <4>1. last \in Nat /\ next = last + 1 /\ last <= MaxIndex
        BY DEF NInv, StoreOK, Bounded
      <4>2. QED
        BY <4>1
    <3>2. dangling \in BOOLEAN
      BY Zenon DEF NInv, StoreOK
    <3>3. \A i \in DOMAIN entries : entries[i] \in Term
      BY DEF NInv, StoreOK, StoredAtIndex
    <3>4. QED
      BY <3>1, <3>2, <3>3 DEF NInv, StoreOK, TypeOK
  <2>2. \A n \in Nodes : applied[n] \in 0 .. commit /\ full[n] \in BOOLEAN
    BY DEF NInv, ProgressOK, RecordsOK, Bounded
  <2>3. QED
    BY <2>1, <2>2 DEF NInv, ProgressOK, Bounded, StoreBounds, NodeTypeOK
<1>3. QED
  BY <1>1, <1>2, StepBounded, NodeInvariance, PTL DEF NodeSpec
==============================================================================
