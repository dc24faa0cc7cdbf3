------------------------------ MODULE RaftStore ------------------------------
(***************************************************************************)
(* What raft expects of a LogStore and StableStore: entries by index,      *)
(* values by key.  A write may stay volatile until the next sync, and a    *)
(* crash falls back to a state between two writes since then, the last     *)
(* sync included; a batch of entries is there as a whole or not at all.    *)
(***************************************************************************)
EXTENDS Naturals, Functions

CONSTANTS
    MaxIndex,   \* bound: raft indexes are 1 .. MaxIndex
    Entry,      \* contents of log entries
    Key, Val    \* keys and values of the stable store

VARIABLES
    logs,       \* the entry at each stored index
    stable,     \* the value of each stored key
    older       \* the states a crash may fall back to

vars == <<logs, stable, older>>

Index == 1 .. MaxIndex
State == <<logs, stable>>

Init ==
    /\ logs = <<>>
    /\ stable = <<>>
    /\ older = {}

(* Entries first .. first + n - 1, all with content e, replace what is there. *)
StoreLogs(first, n, e) ==
    /\ logs' = [i \in DOMAIN logs \cup (first .. first + n - 1) |->
                   IF i \in first .. first + n - 1 THEN e ELSE logs[i]]
    /\ UNCHANGED stable

DeleteRange(min, max) ==
    /\ logs' = Restrict(logs, DOMAIN logs \ (min .. max))
    /\ UNCHANGED stable

Set(k, v) ==
    /\ stable' = [x \in DOMAIN stable \cup {k} |-> IF x = k THEN v ELSE stable[x]]
    /\ UNCHANGED logs

Sync ==
    /\ older' = {}
    /\ UNCHANGED <<logs, stable>>

Crash ==
    /\ \E s \in older : logs' = s[1] /\ stable' = s[2]
    /\ older' = {}

(* A write adds a state to fall back to. *)
Next ==
    \/ /\ older' = older \cup {State}
       /\ \/ \E first \in Index, e \in Entry :
                \E n \in 1 .. MaxIndex + 1 - first : StoreLogs(first, n, e)
          \/ \E min, max \in Index : DeleteRange(min, max)
          \/ \E k \in Key, v \in Val : Set(k, v)
    \/ Sync
    \/ Crash

Spec == Init /\ [][Next]_vars
=============================================================================
