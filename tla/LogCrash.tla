------------------------------- MODULE LogCrash -------------------------------
(***************************************************************************)
(* The segmented log of module Log in a process that can die at any point, *)
(* between two operations or inside one, without Close.  What it leaves in *)
(* the directory is what it had written: the mapped index entries, and of  *)
(* the stores the bytes that bufio had passed to the file.  (The machine   *)
(* itself does not fail: the page cache survives.)                         *)
(***************************************************************************)
EXTENDS Log

VARIABLES           \* history, since the log was created:
    acked,          \* offsets Append has returned
    gone            \* offsets a completed Truncate has removed

crashVars == <<proc, segments, activeSegment, dir, acked, gone>>

(* Append returns the offset unless the roll-over it needs has failed. *)
AppendAcked(v) ==
    \/ AppendRoll(v)
    \/ AppendInPlace(v) /\ ~IsMaxed(Appended(v))

AppendFailed(v) ==
    \/ AppendRefused(v)
    \/ AppendInPlace(v) /\ IsMaxed(Appended(v))

(* The process is gone; its directory holds files. *)
DieLeaving(files) ==
    /\ proc' = "down"
    /\ segments' = EmptyMap
    /\ activeSegment' = InitialOffset
    /\ dir' = files

LeftBy(segs) == [b \in DOMAIN segs |-> SegmentAfterCrash(segs[b])]

(* Death between two operations. *)
Crash ==
    /\ proc = "open"
    /\ DieLeaving(LeftBy(segments))

(***************************************************************************)
(* Death inside Append: once the store is written; once the index is; or   *)
(* inside newSegment, when the .store file of the next segment exists and  *)
(* its .index does not.  The .index that setup then creates is empty.      *)
(***************************************************************************)
CrashInAppend(v) ==
    /\ CanAppend
    /\ LET wrote   == [segments EXCEPT ![activeSegment] = SegmentRefuse(@, v)]
           indexed == [segments EXCEPT ![activeSegment] = Appended(v)]
       IN  \/ DieLeaving(LeftBy(wrote))
           \/ /\ IndexHasRoom(segments[activeSegment].index)
              /\ DieLeaving(LeftBy(indexed))
           \/ /\ IndexHasRoom(segments[activeSegment].index)
              /\ IsMaxed(Appended(v))
              /\ DieLeaving(Put(LeftBy(indexed), Appended(v).nextOffset, NewFiles))

(***************************************************************************)
(* Death inside Truncate, which deletes segments in order: those below b   *)
(* are gone, and b has been closed and has lost its .index, and maybe also *)
(* its .store.  One .store alone does not confuse setup's skipping of      *)
(* every second file.                                                      *)
(***************************************************************************)
CrashInTruncate(lowest) ==
    /\ proc = "open"
    /\ \E b \in DOMAIN segments \ Kept(lowest) :
          LET above  == {c \in DOMAIN segments : c > b}
              others == LeftBy(Restrict(segments, above))
          IN  \/ DieLeaving(others)
              \/ DieLeaving(Put(others, b, [store |-> StoreFlush(segments[b].store),
                                            index |-> EmptyIndex]))

(***************************************************************************)
(* The operations and crashes, with what the caller has been told.         *)
(***************************************************************************)
CrashInit == Init /\ acked = {} /\ gone = {}

CrashNext ==
    \/ /\ \E v \in Value : AppendAcked(v)
       /\ acked' = acked \cup {segments[activeSegment].nextOffset}
       /\ UNCHANGED gone
    \/ /\ Compact
       /\ gone' = gone \cup (OffsetsOf(Seen) \ OffsetsOf(Seen)')
       /\ UNCHANGED acked
    \/ /\ Remove
       /\ acked' = {}
       /\ gone' = {}
    \/ /\ \/ \E v \in Value : AppendFailed(v) \/ CrashInAppend(v)
          \/ Open
          \/ \E off \in Offset : Read(off)
          \/ Close
          \/ Exit
          \/ Crash
          \/ \E lowest \in CompactArgs : CrashInTruncate(lowest)
       /\ UNCHANGED <<acked, gone>>

CrashSpec == CrashInit /\ [][CrashNext]_crashVars

-----------------------------------------------------------------------------
(* No offset is handed out twice: neither a restart, nor what a crash left
   of an index, makes Append return an offset it has returned before. *)
AckedOnce ==
    [][\A v \in Value : AppendAcked(v) =>
          segments[activeSegment].nextOffset \notin acked]_crashVars

(* What a completed Truncate removed is never in range again, whichever
   crashes and restarts follow. *)
TruncatedStaysGone == OffsetsOf(Seen) \cap gone = {}

(* A crash does not touch a segment whose index is full and whose store has
   been flushed: it reopens with every record. *)
FullSegmentsSurvive ==
    [][Crash \/ (\E v \in Value : CrashInAppend(v)) =>
          \A b \in DOMAIN segments \ {activeSegment} :
              /\ segments[b].index.size = MaxIndexBytes
              /\ segments[b].store.flushed = segments[b].store.size
              => newSegment(b, dir'[b]) = segments[b]]_crashVars

(* "index should build its state from the existing file": a reopened log
   continues after the last entry its indexes hold. *)
ReopensAtLastEntry ==
    [][Open => \A b \in DOMAIN dir, k \in Slots :
          dir[b].index.slots[k] # ZeroEntry =>
              b + dir[b].index.slots[k].off < segments'[b].nextOffset]_crashVars
=============================================================================
