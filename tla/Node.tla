--------------------------------- MODULE Node ---------------------------------
(***************************************************************************)
(* A node that leads and a node that follows, from raft's log store up to  *)
(* the logs their state machines write (distributed/fsm.go, snapshot.go,   *)
(* store.go and Reader of log/log.go): the leader stores entries, sends    *)
(* the follower what GetLog answers, and both apply what is committed.     *)
(* The leader takes snapshots and compacts its log after each.             *)
(*                                                                         *)
(* Raft is external: it sends entries in order, applies them in order, and *)
(* sends a snapshot in place of an entry only when GetLog fails with       *)
(* raft.ErrLogNotFound, which this store never does.                       *)
(***************************************************************************)
EXTENDS LogStore, Sequences

CONSTANTS
    Leader, Follower,
    NotCommand,     \* indexes of the entries the state machine does not see:
                    \* configurations and no-ops
    Fills,          \* bound: the nodes on which an index fills up while the
                    \* roll-over fails
    MaxStores       \* bound: segments of the leader's log

ASSUME NodeAssumption == Leader # Follower

VARIABLES
    received,   \* the entries the follower has stored
    commit,     \* raft's commit index
    applied,    \* the last index each node has applied
    records,    \* the log of each node's state machine, by offset
    full,       \* the index of the active segment has no room, and no other
                \* segment follows
    frames,     \* what is in the stores of the leader's log, in order
    stores,     \* the leader's store files: frames before the file, frames up
                \* to which it is flushed, and the file's read position
    reader,     \* the snapshot that is being persisted, or NoReader
    snap        \* the last snapshot: its index and the records in it

machine == <<applied, records, full, frames>>
snapshot == <<reader, snap>>
nodeVars == <<vars, received, commit, machine, stores, snapshot>>

Nodes == {Leader, Follower}
NoReader == [index |-> 0]

(* The number of frames up to the end of store k. *)
End(k) == IF k < Len(stores) THEN stores[k + 1].base ELSE Len(frames)

(* A store file that is created after n frames. *)
NewStore(n) == [base |-> n, flushed |-> n, pos |-> n]

NodeInit ==
    /\ Init
    /\ received = <<>>
    /\ commit = 0
    /\ applied = [n \in Nodes |-> 0]
    /\ records = [n \in Nodes |-> <<>>]
    /\ full = [n \in Nodes |-> FALSE]
    /\ frames = <<>>
    /\ stores = <<NewStore(0)>>
    /\ reader = NoReader
    /\ snap = [index |-> 0, records |-> <<>>]

-----------------------------------------------------------------------------
(* Terms do not decrease along a log. *)
Propose(n, t) ==
    /\ last \in DOMAIN entries => entries[last] <= t
    /\ StoreLogs(n, t)
    /\ UNCHANGED <<received, commit, machine, stores, snapshot>>

Commit(c) ==
    /\ c \in commit + 1 .. last
    /\ commit' = c
    /\ UNCHANGED <<vars, received, machine, stores, snapshot>>

(***************************************************************************)
(* The leader sends the follower its next entry, and the one before it for *)
(* the consistency check unless that is what the last snapshot ends with.  *)
(* Both come from GetLog; an error of GetLog ends the attempt.             *)
(***************************************************************************)
Replicate ==
    LET i == Len(received) + 1
    IN  /\ i = 1 \/ i - 1 = snap.index \/ i - 1 \in DOMAIN log
        /\ i \in DOMAIN log
        /\ received' = Append(received, log[i])
        /\ UNCHANGED <<vars, commit, machine, stores, snapshot>>

(* The record goes into the store of the active segment. *)
Writes(n, r) == frames' = IF n = Leader THEN Append(frames, r) ELSE frames

(* Append puts the record into the active segment; the index may be full
   after it and the roll-over fail, or the log rolls over. *)
Stores(n, r) ==
    /\ ~full[n]
    /\ Writes(n, r)
    /\ records' = [records EXCEPT ![n] = Append(@, r)]
    /\ \/ UNCHANGED <<full, stores>>
       \/ n \in Fills /\ full' = [full EXCEPT ![n] = TRUE] /\ UNCHANGED stores
       \/ /\ n = Leader /\ Len(stores) < MaxStores
          /\ stores' = Append(stores, NewStore(Len(frames')))
          /\ UNCHANGED full

(* A faulty Append that makes room for the next record when it refuses one. *)
RefusesOnce(n, r) ==
    /\ full[n]
    /\ Writes(n, r)
    /\ full' = [full EXCEPT ![n] = FALSE]
    /\ UNCHANGED <<records, stores>>

(* Append leaves a frame without an offset in the store when the index has
   no room; the error is the answer of Apply. *)
Refuses(n, r) ==
    /\ full[n]
    /\ Writes(n, r)
    /\ UNCHANGED <<records, full, stores>>

(* Raft hands the next committed entry to the state machine if it is a
   command, and goes on to the one after it whatever Apply answers. *)
Apply(n) ==
    LET i == applied[n] + 1
        r == <<i, IF n = Leader THEN log[i] ELSE received[i]>>
    IN  /\ i <= commit
        /\ n = Follower => i <= Len(received)
        /\ applied' = [applied EXCEPT ![n] = i]
        /\ IF i \in NotCommand
           THEN UNCHANGED <<records, full, frames, stores>>
           ELSE Stores(n, r) \/ Refuses(n, r)
        /\ UNCHANGED <<vars, received, commit, snapshot>>

-----------------------------------------------------------------------------
(* A read of the leader's log flushes store k.  The file is open for append:
   the write leaves its position at the end. *)
Flush(k) ==
    /\ stores[k].flushed < End(k)
    /\ stores' = [stores EXCEPT ![k].flushed = End(k), ![k].pos = End(k)]
    /\ UNCHANGED <<vars, received, commit, machine, snapshot>>

(* Reader: the stores the log has by now, one after the other. *)
Reader == [k \in DOMAIN stores |-> k]

Snapshot ==
    /\ reader = NoReader
    /\ applied[Leader] > snap.index
    /\ reader' = [index |-> applied[Leader], todo |-> Reader, got |-> <<>>]
    /\ UNCHANGED <<vars, received, commit, machine, stores, snap>>

(***************************************************************************)
(* Persist copies one store after the other.  io.Copy takes the WriteTo of *)
(* the reader before its Read, and originReader has that of the *os.File   *)
(* it embeds: it reads the file on from its position, not through ReadAt.  *)
(***************************************************************************)
Persist ==
    /\ reader # NoReader
    /\ reader.todo # <<>>
    /\ LET k == Head(reader.todo)
           s == stores[k]
       IN  /\ reader' = [reader EXCEPT !.todo = Tail(@),
                             !.got = @ \o SubSeq(frames, s.pos + 1, s.flushed)]
           /\ stores' = [stores EXCEPT ![k].pos = s.flushed]
    /\ UNCHANGED <<vars, received, commit, machine, snap>>

(* The sink fails, and is cancelled. *)
PersistFails ==
    /\ reader # NoReader
    /\ reader' = NoReader
    /\ UNCHANGED <<vars, received, commit, machine, stores, snap>>

SinkCloses ==
    /\ reader # NoReader
    /\ reader.todo = <<>>
    /\ snap' = [index |-> reader.index, records |-> reader.got]
    /\ reader' = NoReader
    /\ UNCHANGED <<received, commit, machine, stores>>

(* A faulty configuration of raft that keeps no entries when it compacts. *)
PersistEndsBare(max) ==
    /\ SinkCloses
    /\ IF max = 0 THEN UNCHANGED vars ELSE CompactLogs(reader.index)

(* The sink is closed, and raft compacts its log up to max if that is not 0. *)
PersistEnds(max) ==
    /\ SinkCloses
    /\ IF max = 0 THEN UNCHANGED vars ELSE max <= reader.index /\ CompactLogs(max)

(* Raft keeps TrailingLogs entries when it compacts.  Here they reach back to
   the last entry the follower has; a follower that needs an older one gets
   neither the entry nor a snapshot. *)
NodeNext ==
    \/ \E n \in 1 .. MaxBatch, t \in Term : Propose(n, t)
    \/ \E c \in 1 .. MaxIndex : Commit(c)
    \/ Replicate
    \/ \E n \in Nodes : Apply(n)
    \/ \E k \in DOMAIN stores : Flush(k)
    \/ Snapshot
    \/ Persist
    \/ PersistFails
    \/ \E max \in 0 .. MaxIndex : (max > 0 => max < Len(received)) /\ PersistEnds(max)

(* Raft goes on sending and applying entries. *)
NodeSpec ==
    /\ NodeInit
    /\ [][NodeNext]_nodeVars
    /\ WF_nodeVars(Replicate)
    /\ WF_nodeVars(Apply(Follower))

-----------------------------------------------------------------------------
(* Every variable holds a value of its kind. *)
NodeTypeOK ==
    /\ TypeOK
    /\ Len(received) <= last
    /\ commit \in 0 .. last
    /\ \A n \in Nodes :
          /\ applied[n] \in 0 .. commit
          /\ Len(records[n]) <= applied[n]
          /\ full[n] \in BOOLEAN
    /\ \A k \in DOMAIN stores :
          stores[k].base <= stores[k].pos /\ stores[k].pos <= stores[k].flushed
              /\ stores[k].flushed <= End(k)
    /\ snap.index \in 0 .. applied[Leader]

(* The record at an offset is the same on every node that has the offset,
   whichever Append failed on one of them while the others went on: what
   TestMultipleNodes waits for after each of its appends. *)
NodesAgree ==
    \A o \in DOMAIN records[Leader] \cap DOMAIN records[Follower] :
        records[Leader][o] = records[Follower][o]

(* Whenever raft stops committing, the follower ends up with everything that
   is committed, although the leader deletes segments of its log meanwhile. *)
CatchesUp == []<>(applied[Follower] = commit)

(* A command that is applied and no longer in raft's log is in the snapshot:
   Snapshot persists what Reader reads, "the whole log". *)
CompactedIsInSnapshot ==
    \A i \in 1 .. applied[Leader] :
        \/ i \in NotCommand
        \/ i \in DOMAIN log
        \/ \E k \in DOMAIN snap.records : snap.records[k][1] = i
=============================================================================
