------------------------------ MODULE CommitLog ------------------------------
(***************************************************************************)
(* What internal/log promises its callers: a log of records under          *)
(* consecutive offsets, that grows at the end, is cut at the front, and    *)
(* otherwise never changes.  It says nothing of files, segments or         *)
(* indexes; module Log is shown to implement it.                           *)
(***************************************************************************)
EXTENDS Integers, Functions

CONSTANTS
    Value,          \* payloads
    Offset,         \* offsets a caller may name
    InitialOffset   \* the first offset of an empty log

VARIABLES
    log,    \* the value readable at each offset
    next    \* the offset the next record gets

(* The caller of Append is given the next offset for its record. *)
Append(v) ==
    /\ log' = [o \in DOMAIN log \cup {next} |-> IF o = next THEN v ELSE log[o]]
    /\ next' = next + 1

(* Truncate(lowest) forgets some offsets at the front, none above lowest. *)
Truncate(lowest) ==
    /\ \E kept \in SUBSET DOMAIN log :
          /\ \A o \in DOMAIN log : o > lowest => o \in kept
          /\ \A o \in kept, p \in DOMAIN log : o <= p => p \in kept
          /\ log' = Restrict(log, kept)
    /\ UNCHANGED next

(* The log is deleted as a whole, and starts over at its initial offset. *)
Clear ==
    /\ log' = [o \in {} |-> o]
    /\ next' = InitialOffset

Init ==
    /\ log = [o \in {} |-> o]
    /\ next = InitialOffset

Next ==
    \/ \E v \in Value : Append(v)
    \/ \E lowest \in Offset : Truncate(lowest)
    \/ Clear

Spec == Init /\ [][Next]_<<log, next>>
=============================================================================
