------------------------------- MODULE Segment -------------------------------
(***************************************************************************)
(* A segment (internal/log/segment.go): a store, the index into it, and    *)
(* the offset the next record gets.  The base offset names the segment and *)
(* is passed to the operators.                                             *)
(***************************************************************************)
EXTENDS Store, Index

CONSTANT MaxStoreBytes      \* Config.Segment.MaxStoreBytes

ASSUME SegmentAssumption == MaxStoreBytes \in Nat \ {0}

(* The files of a segment that does not exist yet. *)
NewFiles == [store |-> EmptyStore, index |-> EmptyIndex]

(* A faulty newSegment that resumes at the last entry, not after it. *)
newSegmentAtLast(base, files) ==
    LET idx  == newIndex(files.index)
        last == LastSlot(idx)
    IN  [nextOffset |-> IF last >= 0 /\ IndexHas(idx, last)
                        THEN base + idx.slots[last].off ELSE base,
         store      |-> files.store,
         index      |-> idx]

(***************************************************************************)
(* newSegment over the two files: the next offset comes from the last      *)
(* index entry, and is the base offset when the index has none.            *)
(***************************************************************************)
newSegment(base, files) ==
    LET idx  == newIndex(files.index)
        last == LastSlot(idx)
    IN  [nextOffset |-> IF last >= 0 /\ IndexHas(idx, last)
                        THEN base + idx.slots[last].off + 1 ELSE base,
         store      |-> files.store,
         index      |-> idx]

(***************************************************************************)
(* segment.Append writes the store first.  When the index then has no room *)
(* the call fails, and the record stays in the store without an entry.     *)
(***************************************************************************)
SegmentRefuse(s, v) ==
    [nextOffset |-> s.nextOffset,
     store      |-> StoreAppend(s.store, [value |-> v, offset |-> s.nextOffset]),
     index      |-> s.index]

(* A faulty segment.Append that stores the relative offset in the record. *)
SegmentAppendRelative(s, base, v) ==
    [nextOffset |-> s.nextOffset + 1,
     store      |-> StoreAppend(s.store, [value |-> v, offset |-> s.nextOffset - base]),
     index      |-> IndexWrite(s.index, s.nextOffset - base, s.store.size)]

SegmentAppend(s, base, v) ==
    [nextOffset |-> s.nextOffset + 1,
     store      |-> StoreAppend(s.store, [value |-> v, offset |-> s.nextOffset]),
     index      |-> IndexWrite(s.index, s.nextOffset - base, s.store.size)]

(* segment.Read: whether it finds a record, and the record it returns. *)
SegmentHas(s, base, off) ==
    IndexHas(s.index, off - base) /\ StoreHas(s.store, s.index.slots[off - base].pos)

SegmentRead(s, base, off) == s.store.data[s.index.slots[off - base].pos]

(* The effect of segment.Read on the segment: store.Read flushes. *)
SegmentFlush(s) ==
    [nextOffset |-> s.nextOffset, store |-> StoreFlush(s.store), index |-> s.index]

(* A faulty IsMaxed that is true only beyond the limits. *)
IsMaxedBeyond(s) == s.store.size > MaxStoreBytes \/ s.index.size > MaxIndexBytes

IsMaxed(s) == s.store.size >= MaxStoreBytes \/ s.index.size >= MaxIndexBytes

(* The files segment.Close leaves, and those a process that dies leaves. *)
SegmentClose(s) == [store |-> StoreFlush(s.store), index |-> s.index]

SegmentAfterCrash(s) ==
    [store |-> StoreAfterCrash(s.store), index |-> IndexAfterCrash(s.index)]

SegmentType(s) ==
    /\ s.nextOffset \in Nat
    /\ StoreType(s.store)
    /\ IndexType(s.index)
=============================================================================
