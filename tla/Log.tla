--------------------------------- MODULE Log ---------------------------------
(***************************************************************************)
(* The segmented commit log (internal/log/log.go): its operations, and the *)
(* process that opens it, closes it, exits and starts again.  Log.mu makes *)
(* every operation atomic; deaths of the process inside an operation are   *)
(* in module LogCrash.                                                     *)
(*                                                                         *)
(* l.segments is kept as a map from base offset to segment.  The slice is  *)
(* in base order, because setup sorts the offsets it finds and Append adds *)
(* a segment above all others, so nothing is lost.                         *)
(***************************************************************************)
EXTENDS Segment

CONSTANTS
    InitialOffset,  \* Config.Segment.InitialOffset
    TrailingLogs,   \* callers keep this many records when they Truncate
    MaxBytes        \* bound: no Append once the active store is this long

ASSUME LogAssumption ==
    /\ InitialOffset \in Offset
    /\ TrailingLogs \in Nat
    /\ MaxBytes \in Nat

VARIABLES
    proc,           \* the process: "down", or with the log "open" or "closed"
    segments,       \* l.segments: base offset -> segment
    activeSegment,  \* base offset of l.activeSegment
    dir             \* the files a process finds when it opens the log: base
                    \* offset -> store and index.  Empty while the log is
                    \* open, when the files belong to the segments.

vars == <<proc, segments, activeSegment, dir>>

(* The test of Log.Read, and the first segment that passes it. *)
Owns(segs, b, off) == b <= off /\ off < segs[b].nextOffset

FirstOwner(b, off) ==
    /\ Owns(segments, b, off)
    /\ \A c \in DOMAIN segments : Owns(segments, c, off) => b <= c

IsLast(b, S) == b \in S /\ \A c \in S : c <= b

(* A faulty setup that stops after the first segment. *)
BasesFirst ==
    IF DOMAIN dir = {} THEN {InitialOffset}
    ELSE {b \in DOMAIN dir : \A c \in DOMAIN dir : b <= c}

(***************************************************************************)
(* NewLog and setup, in a directory that setupLog has made.  Every base    *)
(* offset has its two files, of which setup skips the second; without any  *)
(* file it makes the first segment.                                        *)
(***************************************************************************)
Bases == IF DOMAIN dir = {} THEN {InitialOffset} ELSE DOMAIN dir

Open ==
    /\ proc = "down"
    /\ proc' = "open"
    /\ segments' = [b \in Bases |->
                      newSegment(b, IF b \in DOMAIN dir THEN dir[b] ELSE NewFiles)]
    /\ activeSegment' \in {b \in Bases : IsLast(b, Bases)}
    /\ dir' = EmptyMap

(* Append has an active segment to write to, within the bounds. *)
CanAppend ==
    /\ proc = "open"
    /\ activeSegment \in DOMAIN segments
    /\ segments[activeSegment].nextOffset <= MaxOffset
    /\ segments[activeSegment].store.size <= MaxBytes

Appended(v) == SegmentAppend(segments[activeSegment], activeSegment, v)

(* Append when the index has no room: io.EOF, after the store was written. *)
AppendRefused(v) ==
    /\ CanAppend
    /\ ~IndexHasRoom(segments[activeSegment].index)
    /\ segments' = [segments EXCEPT ![activeSegment] = SegmentRefuse(@, v)]
    /\ UNCHANGED <<proc, activeSegment, dir>>

(***************************************************************************)
(* Append when the segment does not become full, and also when it does but *)
(* newSegment fails before it has made a file: the caller then gets an     *)
(* error for a record that is in the log, and the full segment stays       *)
(* active.                                                                 *)
(***************************************************************************)
AppendInPlace(v) ==
    /\ CanAppend
    /\ IndexHasRoom(segments[activeSegment].index)
    /\ segments' = [segments EXCEPT ![activeSegment] = Appended(v)]
    /\ UNCHANGED <<proc, activeSegment, dir>>

(* A faulty roll-over that starts the new segment at the offset just used. *)
AppendRollAtLast(v) ==
    /\ CanAppend
    /\ IndexHasRoom(segments[activeSegment].index)
    /\ IsMaxed(Appended(v))
    /\ LET off == segments[activeSegment].nextOffset
       IN  /\ segments' = Put([segments EXCEPT ![activeSegment] = Appended(v)],
                              off, newSegment(off, NewFiles))
           /\ activeSegment' = off
    /\ UNCHANGED <<proc, dir>>

(* Append when the segment becomes full and the next one is created. *)
AppendRoll(v) ==
    /\ CanAppend
    /\ IndexHasRoom(segments[activeSegment].index)
    /\ IsMaxed(Appended(v))
    /\ LET off == Appended(v).nextOffset
       IN  /\ segments' = Put([segments EXCEPT ![activeSegment] = Appended(v)],
                              off, newSegment(off, NewFiles))
           /\ activeSegment' = off
    /\ UNCHANGED <<proc, dir>>

(* Read of an offset in range flushes the store of its segment. *)
Read(off) ==
    /\ proc = "open"
    /\ \E b \in DOMAIN segments :
          /\ FirstOwner(b, off)
          /\ segments' = [segments EXCEPT ![b] = SegmentFlush(@)]
    /\ UNCHANGED <<proc, activeSegment, dir>>

(* HighestOffset, the next offset of the last segment less one. *)
IsHighest(h) ==
    \E b \in DOMAIN segments :
        /\ IsLast(b, DOMAIN segments)
        /\ h = IF segments[b].nextOffset = 0 THEN 0 ELSE segments[b].nextOffset - 1

(* A faulty Truncate that goes one offset too far. *)
KeptTooFew(lowest) == {b \in DOMAIN segments : segments[b].nextOffset > lowest + 2}

(***************************************************************************)
(* Truncate closes and deletes every segment without an offset above       *)
(* lowest.  It leaves activeSegment alone, even when that one is deleted.  *)
(***************************************************************************)
Kept(lowest) == {b \in DOMAIN segments : segments[b].nextOffset > lowest + 1}

Truncate(lowest) ==
    /\ proc = "open"
    /\ segments' = Restrict(segments, Kept(lowest))
    /\ UNCHANGED <<proc, activeSegment, dir>>

(* How callers use it: raft's compaction keeps TrailingLogs records. *)
CompactArgs ==
    {lowest \in Offset : \E h \in Offset : IsHighest(h) /\ lowest + TrailingLogs <= h}

Compact == \E lowest \in CompactArgs : Truncate(lowest)

(* Close flushes the stores and cuts the index files to their size. *)
Close ==
    /\ proc = "open"
    /\ proc' = "closed"
    /\ dir' = [b \in DOMAIN segments |-> SegmentClose(segments[b])]
    /\ UNCHANGED <<segments, activeSegment>>

(***************************************************************************)
(* Remove closes the log and deletes its directory.  Reset does the same   *)
(* and then fails: setup cannot read the directory Remove has deleted.     *)
(***************************************************************************)
Remove ==
    /\ proc = "open"
    /\ proc' = "closed"
    /\ dir' = EmptyMap
    /\ UNCHANGED <<segments, activeSegment>>

(***************************************************************************)
(* The process ends after Close.  A Read or an Append on the closed log    *)
(* comes to the same: it touches the unmapped index, which is fatal.       *)
(***************************************************************************)
Exit ==
    /\ proc = "closed"
    /\ proc' = "down"
    /\ segments' = EmptyMap
    /\ activeSegment' = InitialOffset
    /\ UNCHANGED dir

(***************************************************************************)
(* Append after Truncate has deleted the active segment writes to its      *)
(* unmapped index: the process dies.  (An index that was already full      *)
(* refuses the entry before that; nothing changes then.)                   *)
(***************************************************************************)
AppendToDeleted ==
    /\ proc = "open"
    /\ activeSegment \notin DOMAIN segments
    /\ proc' = "down"
    /\ segments' = EmptyMap
    /\ activeSegment' = InitialOffset
    /\ dir' = [b \in DOMAIN segments |-> SegmentAfterCrash(segments[b])]

Init ==
    /\ proc = "down"
    /\ segments = EmptyMap
    /\ activeSegment = InitialOffset
    /\ dir = EmptyMap

Next ==
    \/ Open
    \/ \E v \in Value : AppendRefused(v) \/ AppendInPlace(v) \/ AppendRoll(v)
    \/ \E off \in Offset : Read(off)
    \/ Compact
    \/ Close
    \/ Remove
    \/ Exit
    \/ AppendToDeleted

Spec == Init /\ [][Next]_vars

-----------------------------------------------------------------------------
(* Every variable holds a value of its kind. *)
TypeOK ==
    /\ proc \in {"down", "open", "closed"}
    /\ DOMAIN segments \subseteq Nat
    /\ \A b \in DOMAIN segments : SegmentType(segments[b])
    /\ activeSegment \in Nat
    /\ DOMAIN dir \subseteq Nat
    /\ \A b \in DOMAIN dir : StoreType(dir[b].store) /\ IndexType(dir[b].index)

(* Log.Read serves an offset from one segment only: the order in which it
   searches l.segments does not matter. *)
OneOwner ==
    \A b, c \in DOMAIN segments : \A off \in Offset :
        Owns(segments, b, off) /\ Owns(segments, c, off) => b = c

(* Log.Read fails on no offset from LowestOffset to HighestOffset, across
   all rotations, truncations, failed appends and restarts. *)
NoHole ==
    proc = "open" =>
        \A off \in Offset, b, c \in DOMAIN segments :
            b <= off /\ off < segments[c].nextOffset =>
                \E d \in DOMAIN segments :
                    Owns(segments, d, off) /\ SegmentHas(segments[d], d, off)

(* Log.Read(off) returns a record whose Offset is off, whichever appends
   failed after writing the store. *)
ReadsOwnOffset ==
    proc = "open" =>
        \A b \in DOMAIN segments, off \in Offset :
            Owns(segments, b, off) /\ SegmentHas(segments[b], b, off) =>
                SegmentRead(segments[b], b, off).offset = off

(* A segment whose index refuses an entry is maxed, so that Append has
   already tried to roll over to a new one. *)
RefusedIsMaxed ==
    proc = "open" =>
        \A b \in DOMAIN segments :
            ~IndexHasRoom(segments[b].index) => IsMaxed(segments[b])

-----------------------------------------------------------------------------
(***************************************************************************)
(* The log a reader sees: the segments or, while the log is not open, the  *)
(* segments that opening it would make of the files.                       *)
(***************************************************************************)
Seen == IF proc = "open" THEN segments
        ELSE [b \in DOMAIN dir |-> newSegment(b, dir[b])]

OffsetsOf(segs) == UNION {b .. segs[b].nextOffset - 1 : b \in DOMAIN segs}

Holder(segs, off) == CHOOSE b \in DOMAIN segs : Owns(segs, b, off)

ViewOf(segs) ==
    [off \in OffsetsOf(segs) |->
        SegmentRead(segs[Holder(segs, off)], Holder(segs, off), off).value]

NextOf(segs) ==
    IF DOMAIN segs = {} THEN InitialOffset
    ELSE segs[CHOOSE b \in DOMAIN segs : IsLast(b, DOMAIN segs)].nextOffset

Abstract == INSTANCE CommitLog WITH log <- ViewOf(Seen), next <- NextOf(Seen)

(* The segmented log implements CommitLog: an offset keeps its value until
   it is truncated, appends take the next offset, and refused appends,
   rotations, flushes, Close and reopening change nothing a reader sees. *)
ImplementsCommitLog == Abstract!Spec

-----------------------------------------------------------------------------
(***************************************************************************)
(* The inductive invariant.  A segment is well formed when its index has   *)
(* one entry per offset from its base to its next offset, in order, and    *)
(* each entry points to the record of that offset in the store.  Every     *)
(* frame starts below store.size, so an Append overwrites none.            *)
(***************************************************************************)
SegmentOK(b, s) ==
    /\ SegmentType(s)
    /\ b <= s.nextOffset
    /\ s.nextOffset <= MaxOffset + 1
    /\ s.store.flushed <= s.store.size
    /\ \A p \in DOMAIN s.store.data : p < s.store.size
    /\ s.index.size = (s.nextOffset - b) * entryWidth
    /\ s.index.size <= MaxIndexBytes
    /\ \A k \in 0 .. s.nextOffset - b - 1 :
          LET e == s.index.slots[k]
          IN  /\ e.off = k
              /\ e.pos \in DOMAIN s.store.data
              /\ s.store.data[e.pos].offset = b + k

(* The segments are well formed and tile the offsets without overlap. *)
SegmentsOK(segs) ==
    /\ DOMAIN segs \subseteq Nat
    /\ DOMAIN segs # {} => \E b \in DOMAIN segs : IsLast(b, DOMAIN segs)
    /\ \A b \in DOMAIN segs : SegmentOK(b, segs[b])
    /\ \A b, c \in DOMAIN segs : b < c => segs[b].nextOffset <= c
    /\ \A b, c \in DOMAIN segs : \A off \in Offset :
          b <= off /\ off < segs[c].nextOffset =>
              \E d \in DOMAIN segs : Owns(segs, d, off)

Inv ==
    /\ TypeOK
    /\ SegmentsOK(segments)
    /\ SegmentsOK(Seen)
    /\ proc = "open" =>
          DOMAIN segments = {} \/ IsLast(activeSegment, DOMAIN segments)
=============================================================================
