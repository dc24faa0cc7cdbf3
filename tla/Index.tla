-------------------------------- MODULE Index --------------------------------
(***************************************************************************)
(* The index file of a segment (internal/log/index.go): a shared memory    *)
(* mapping of MaxIndexBytes bytes holding fixed-width entries, each from a *)
(* relative offset to a position in the store.                             *)
(*                                                                         *)
(* An index is [slots, size]: the entries of the mapping, zero where       *)
(* nothing was written, and index.size in bytes.  The mapping is           *)
(* MAP_SHARED, so slots is the content of the file as well.                *)
(***************************************************************************)
EXTENDS Integers

CONSTANT MaxIndexBytes      \* Config.Segment.MaxIndexBytes

ASSUME IndexAssumption == MaxIndexBytes \in Nat \ {0}

offWidth == 4
posWidth == 8
entryWidth == offWidth + posWidth

Entry == [off : Nat, pos : Nat]
ZeroEntry == [off |-> 0, pos |-> 0]

(* The entries that fit in the mapping. *)
Slots == 0 .. (MaxIndexBytes \div entryWidth) - 1

(* The file O_CREATE makes: empty, and read as zeroes once it is mapped. *)
EmptyIndex == [slots |-> [k \in Slots |-> ZeroEntry], size |-> 0]

(* A faulty newIndex that loses the entry at the end of the file. *)
newIndexShort(file) ==
    [slots |-> [k \in Slots |-> IF (k + 1) * entryWidth < file.size
                                THEN file.slots[k] ELSE ZeroEntry],
     size  |-> file.size]

(***************************************************************************)
(* newIndex: the size is taken from the file, which is then extended with  *)
(* zeroes to MaxIndexBytes and mapped.                                     *)
(***************************************************************************)
newIndex(file) ==
    [slots |-> [k \in Slots |-> IF (k + 1) * entryWidth <= file.size
                                THEN file.slots[k] ELSE ZeroEntry],
     size  |-> file.size]

(* index.Write fails with io.EOF unless the entry fits. *)
IndexHasRoom(i) == i.size + entryWidth <= MaxIndexBytes

IndexWrite(i, off, pos) ==
    [slots |-> [i.slots EXCEPT ![i.size \div entryWidth] = [off |-> off, pos |-> pos]],
     size  |-> i.size + entryWidth]

(* A faulty index.Read that takes the last entry for the end. *)
IndexHasStrict(i, k) == i.size # 0 /\ (k + 1) * entryWidth < i.size

(***************************************************************************)
(* index.Read(in) returns entry "in" and fails with io.EOF beyond the      *)
(* size; Read(-1) reads the last entry the size leaves room for.           *)
(***************************************************************************)
IndexHas(i, k) == i.size # 0 /\ (k + 1) * entryWidth <= i.size

LastSlot(i) == (i.size \div entryWidth) - 1

(***************************************************************************)
(* The index file left by a process that dies without Close.  Only Close   *)
(* cuts the file back to index.size, so the file still has the length of   *)
(* the mapping.                                                            *)
(***************************************************************************)
IndexAfterCrash(i) == [slots |-> i.slots, size |-> MaxIndexBytes]

IndexType(i) ==
    /\ i.slots \in [Slots -> Entry]
    /\ i.size \in Nat
=============================================================================
