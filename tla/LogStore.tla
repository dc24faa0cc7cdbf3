------------------------------- MODULE LogStore -------------------------------
(***************************************************************************)
(* distributed/store.go: raft's log store on top of the commit log, with   *)
(* raft's index for an offset.  The commit log is here what CommitLog says *)
(* (module Log implements that), plus what callers see when Truncate takes *)
(* the active segment: the next append kills the process.                  *)
(*                                                                         *)
(* Raft is external: entries is the log it has stored and not deleted.     *)
(* It stores entries after its last index, deletes a prefix to compact its *)
(* log and a suffix when the leader disagrees, and takes entries of a call *)
(* of StoreLogs that failed for not stored.                                *)
(***************************************************************************)
EXTENDS Naturals, Functions

CONSTANTS
    Term,       \* raft terms, which tell entries with one index apart
    MaxIndex,   \* bound: the greatest offset
    MaxBatch    \* bound: entries of one StoreLogs

ASSUME LogStoreAssumption ==
    /\ Term \subseteq Nat
    /\ MaxIndex \in Nat \ {0}
    /\ MaxBatch \in Nat \ {0}

VARIABLES
    log,        \* the commit log: offset -> term of the entry
    next,       \* the next offset; it starts at 1, setupRaft's InitialOffset
    dangling,   \* Truncate has deleted the active segment
    entries,    \* raft's log: index -> term
    last        \* raft's last index

vars == <<log, next, dangling, entries, last>>

Empty == [i \in {} |-> i]

(* f with v at a .. b as well. *)
Extend(f, a, b, v) == [i \in DOMAIN f \cup (a .. b) |-> IF i \in a .. b THEN v ELSE f[i]]

(* HighestOffset. *)
LastIndex == IF next = 0 THEN 0 ELSE next - 1

(* A faulty setupRaft that leaves InitialOffset at 0. *)
InitAtZero ==
    /\ log = Empty
    /\ next = 0
    /\ dangling = FALSE
    /\ entries = Empty
    /\ last = 0

Init ==
    /\ log = Empty
    /\ next = 1
    /\ dangling = FALSE
    /\ entries = Empty
    /\ last = LastIndex

-----------------------------------------------------------------------------
(* StoreLogs appends the entries one by one; their indexes are not stored. *)
Appends(n, t) ==
    /\ ~dangling
    /\ next + n <= MaxIndex + 1
    /\ log' = Extend(log, next, next + n - 1, t)
    /\ next' = next + n
    /\ UNCHANGED dangling

StoreLogs(n, t) ==
    /\ Appends(n, t)
    /\ entries' = Extend(entries, last + 1, last + n, t)
    /\ last' = last + n

(* An Append fails, before or after it stored its record: k entries of the
   call are in the log. *)
StoreLogsFails(k, t) ==
    /\ Appends(k, t)
    /\ UNCHANGED <<entries, last>>

(* A faulty DeleteRange that truncates one entry too many. *)
DeleteRangePast(max) ==
    /\ log' = Restrict(log, {o \in DOMAIN log : o > max + 1})
    /\ dangling' = FALSE
    /\ UNCHANGED next

(* A faulty DeleteRange after which the log goes on from max. *)
DeleteRangeRestart(max) ==
    /\ log' = Restrict(log, {o \in DOMAIN log : o > max})
    /\ next' = max + 1
    /\ UNCHANGED dangling

(***************************************************************************)
(* DeleteRange(_, max) is Truncate(max): it deletes segments, the active   *)
(* one too when nothing lies above max, and so keeps some offsets up to    *)
(* max unless the segments end there.                                      *)
(***************************************************************************)
DeleteRange(max) ==
    /\ IF next <= max + 1
       THEN log' = Empty /\ dangling' = TRUE
       ELSE /\ \E from \in 0 .. max + 1 :
                  log' = Restrict(log, {o \in DOMAIN log : o >= from})
            /\ UNCHANGED dangling
    /\ UNCHANGED next

(* Raft compacts its log after a snapshot, up to max; the last entry stays. *)
CompactLogs(max) ==
    /\ max < last
    /\ DeleteRange(max)
    /\ entries' = Restrict(entries, {i \in DOMAIN entries : i > max})
    /\ UNCHANGED last

(* A follower drops the entries that conflict with the leader's. *)
DropConflict(min) ==
    /\ min \in DOMAIN entries
    /\ DeleteRange(last)
    /\ entries' = Restrict(entries, {i \in DOMAIN entries : i < min})
    /\ last' = min - 1

Next ==
    \/ \E n \in 1 .. MaxBatch, t \in Term : StoreLogs(n, t)
    \/ \E max \in 1 .. MaxIndex : CompactLogs(max)

Spec == Init /\ [][Next]_vars

(* With a leader that disagrees, and with appends that fail. *)
NextConflict ==
    \/ Next
    \/ \E min \in 1 .. MaxIndex : DropConflict(min)
    \/ \E k \in 1 .. MaxBatch, t \in Term : StoreLogsFails(k, t)

SpecConflict == Init /\ [][NextConflict]_vars

-----------------------------------------------------------------------------
(* Every variable holds a value of its kind. *)
TypeOK ==
    /\ DOMAIN log \subseteq 1 .. MaxIndex /\ \A o \in DOMAIN log : log[o] \in Term
    /\ next \in 1 .. MaxIndex + 1
    /\ dangling \in BOOLEAN
    /\ DOMAIN entries \subseteq 1 .. MaxIndex /\ \A i \in DOMAIN entries : entries[i] \in Term
    /\ last \in 0 .. MaxIndex

(* GetLog(i), which answers with the record at offset i and gives it the index
   i, returns the entry raft stored at i, for every entry raft has not
   deleted: the store "implements raft.LogStore". *)
StoredAtIndex ==
    \A i \in DOMAIN entries : i \in DOMAIN log /\ log[i] = entries[i]

(* LastIndex is the index of the last entry raft stored, compactions or not:
   raft numbers its next entry from it when it starts. *)
AgreesOnLast == LastIndex = last
=============================================================================
