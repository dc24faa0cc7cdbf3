------------------------------ MODULE LogProofs ------------------------------
(***************************************************************************)
(* Proofs about the segmented log, for all payloads, record lengths, index *)
(* and store limits, buffer sizes and offset bounds.                       *)
(***************************************************************************)
EXTENDS Log, TLAPS

(* The slots of the mapping are those whose entry fits in it. *)
LEMMA SlotsFit ==
  ASSUME NEW k \in Nat
  PROVE  k \in Slots <=> (k + 1) * entryWidth <= MaxIndexBytes
BY IndexAssumption DEF Slots, entryWidth, offWidth, posWidth

(* A segment newSegment creates over no files is well formed and empty. *)
LEMMA FreshSegment ==
  ASSUME NEW b \in Nat, b <= MaxOffset + 1
  PROVE  /\ SegmentOK(b, newSegment(b, NewFiles))
         /\ newSegment(b, NewFiles).nextOffset = b
<1> DEFINE s == newSegment(b, NewFiles)
<1>1. s.nextOffset = b
  BY IndexAssumption DEF newSegment, newIndex, NewFiles, EmptyIndex, LastSlot, IndexHas,
     entryWidth, offWidth, posWidth
<1>2. s.store = EmptyStore
  BY DEF newSegment, NewFiles
<1>3. s.index = [slots |-> [k \in Slots |-> ZeroEntry], size |-> 0]
  <2>1. s.index = newIndex(EmptyIndex)
    BY DEF newSegment, NewFiles
  <2>2. \A k \in Slots : ~((k + 1) * entryWidth <= 0)
    BY IndexAssumption DEF Slots, entryWidth, offWidth, posWidth
  <2> QED  BY <2>1, <2>2 DEF newIndex, EmptyIndex
<1>4. SegmentType(s)
  BY <1>1, <1>2, <1>3 DEF SegmentType, StoreType, IndexType, EmptyStore, EmptyMap, ZeroEntry, Entry
<1>5. SegmentOK(b, s)
  BY <1>1, <1>2, <1>3, <1>4, IndexAssumption
     DEF SegmentOK, EmptyStore, EmptyMap, entryWidth, offWidth, posWidth
<1> QED  BY <1>1, <1>5

(* bufio never holds more than was written, nor a negative number of bytes. *)
LEMMA BufferedBound ==
  ASSUME NEW n \in Nat, NEW w \in Nat
  PROVE  Buffered(n, w) \in Nat /\ Buffered(n, w) <= n + w
BY StoreAssumption DEF Buffered

(* store.Append adds one frame at the old size and moves no other. *)
LEMMA StoreAppendOK ==
  ASSUME NEW s, StoreType(s), s.flushed <= s.size,
         \A p \in DOMAIN s.data : p < s.size,
         NEW r \in Record
  PROVE  LET t == StoreAppend(s, r)
         IN  /\ StoreType(t)
             /\ t.flushed <= t.size
             /\ DOMAIN t.data = DOMAIN s.data \cup {s.size}
             /\ \A p \in DOMAIN t.data : p < t.size
             /\ t.data[s.size] = r
             /\ \A p \in DOMAIN s.data : t.data[p] = s.data[p]
<1> DEFINE t == StoreAppend(s, r)
<1> DEFINE head == Buffered(s.size - s.flushed, LenWidth)
<1> DEFINE left == Buffered(head, RecordLen(r))
<1>1. RecordLen(r) \in Nat
  BY StoreAssumption
<1>2. head \in Nat /\ head <= s.size - s.flushed + LenWidth
  <2>1. s.size - s.flushed \in Nat /\ LenWidth \in Nat
    BY DEF StoreType, LenWidth
  <2> QED  BY <2>1, BufferedBound
<1>3. left \in Nat /\ left <= head + RecordLen(r)
  BY <1>1, <1>2, BufferedBound
<1>4. /\ t.data = Put(s.data, s.size, r)
      /\ t.size = s.size + (LenWidth + RecordLen(r))
      /\ t.flushed = t.size - left
  BY DEF StoreAppend, FrameLen
<1> HIDE DEF t, left, head
<1>5. t.size \in Nat /\ t.flushed \in Nat /\ t.flushed <= t.size /\ s.size < t.size
  BY <1>1, <1>2, <1>3, <1>4 DEF StoreType, LenWidth
<1>6. /\ DOMAIN t.data = DOMAIN s.data \cup {s.size}
      /\ t.data[s.size] = r
      /\ \A p \in DOMAIN s.data : t.data[p] = s.data[p]
  BY <1>4 DEF Put, StoreType
<1>7. t.data \in [DOMAIN t.data -> Record]
  BY <1>4 DEF Put, StoreType
<1>8. DOMAIN t.data \subseteq Nat /\ \A p \in DOMAIN t.data : p < t.size
  BY <1>5, <1>6 DEF StoreType
<1> QED  BY <1>5, <1>6, <1>7, <1>8 DEF t, StoreType

(* The parts of SegmentOK that are about types and numbers. *)
LEMMA SegmentNumbers ==
  ASSUME NEW b, NEW s, SegmentOK(b, s)
  PROVE  /\ s.nextOffset \in Nat /\ StoreType(s.store) /\ IndexType(s.index)
         /\ b <= s.nextOffset /\ s.nextOffset <= MaxOffset + 1
         /\ s.store.flushed <= s.store.size
         /\ s.index.size = (s.nextOffset - b) * 12 /\ s.index.size <= MaxIndexBytes
BY DEF SegmentOK, SegmentType, entryWidth, offWidth, posWidth

(* What segment.Read returns at the offsets of the segment. *)
SameReads(b, s, t) ==
  /\ t.nextOffset = s.nextOffset
  /\ \A off \in b .. s.nextOffset - 1 : SegmentRead(t, b, off) = SegmentRead(s, b, off)

(* segment.Append, when the index has room, adds its record at the next
   offset and changes no other. *)
LEMMA SegmentAppendOK ==
  ASSUME NEW b \in Nat, NEW s, SegmentOK(b, s), NEW v \in Value,
         IndexHasRoom(s.index), s.nextOffset <= MaxOffset
  PROVE  LET t == SegmentAppend(s, b, v)
         IN  /\ SegmentOK(b, t)
             /\ t.nextOffset = s.nextOffset + 1
             /\ SegmentRead(t, b, s.nextOffset).value = v
             /\ \A off \in b .. s.nextOffset - 1 :
                   SegmentRead(t, b, off) = SegmentRead(s, b, off)
<1> DEFINE r == [value |-> v, offset |-> s.nextOffset]
           t == SegmentAppend(s, b, v)
           n == s.nextOffset - b
<1>1. /\ s.nextOffset \in Nat /\ StoreType(s.store) /\ IndexType(s.index)
      /\ n \in Nat /\ s.index.size = n * 12 /\ s.index.size \in Nat
  BY SegmentNumbers DEF IndexType
<1>2. r \in Record
  BY <1>1, StoreAssumption DEF Record, Offset
<1>3. /\ t.nextOffset = s.nextOffset + 1
      /\ t.store = StoreAppend(s.store, r)
      /\ t.index = IndexWrite(s.index, n, s.store.size)
  BY DEF SegmentAppend
<1>4. /\ StoreType(t.store)
      /\ t.store.flushed <= t.store.size
      /\ DOMAIN t.store.data = DOMAIN s.store.data \cup {s.store.size}
      /\ \A p \in DOMAIN t.store.data : p < t.store.size
      /\ t.store.data[s.store.size] = r
      /\ \A p \in DOMAIN s.store.data : t.store.data[p] = s.store.data[p]
  <2>1. s.store.flushed <= s.store.size /\ \A p \in DOMAIN s.store.data : p < s.store.size
    BY DEF SegmentOK
  <2> HIDE DEF r, t
  <2> QED  BY <1>1, <1>2, <1>3, <2>1, StoreAppendOK
<1>5. s.index.size \div entryWidth = n /\ n \in Slots
  BY <1>1, SlotsFit DEF IndexHasRoom, entryWidth, offWidth, posWidth
<1>6. /\ t.index.slots = [s.index.slots EXCEPT ![n] = [off |-> n, pos |-> s.store.size]]
      /\ t.index.size = s.index.size + 12
  BY <1>3, <1>5 DEF IndexWrite, entryWidth, offWidth, posWidth
<1> HIDE DEF t, r
<1>7. /\ IndexType(t.index)
      /\ t.index.slots[n] = [off |-> n, pos |-> s.store.size]
      /\ \A k \in 0 .. n - 1 : t.index.slots[k] = s.index.slots[k]
  <2>1. [off |-> n, pos |-> s.store.size] \in Entry
    BY <1>1 DEF Entry, StoreType
  <2>2. \A k \in 0 .. n - 1 : k \in Slots
    <3> SUFFICES ASSUME NEW k \in 0 .. n - 1  PROVE k \in Slots
      OBVIOUS
    <3>1. k \in Nat /\ (k + 1) * 12 <= MaxIndexBytes
      BY <1>1, IndexAssumption, SegmentNumbers
    <3> QED  BY <3>1, SlotsFit DEF entryWidth, offWidth, posWidth
  <2> QED  BY <1>1, <1>5, <1>6, <2>1, <2>2 DEF IndexType
<1>8. t.index.size = (t.nextOffset - b) * entryWidth /\ t.index.size <= MaxIndexBytes
  BY <1>1, <1>3, <1>6 DEF IndexHasRoom, entryWidth, offWidth, posWidth
<1>9. ASSUME NEW k \in 0 .. t.nextOffset - b - 1
      PROVE  LET e == t.index.slots[k]
             IN  /\ e.off = k
                 /\ e.pos \in DOMAIN t.store.data
                 /\ t.store.data[e.pos].offset = b + k
  <2>1. CASE k = n
    BY <2>1, <1>1, <1>4, <1>7 DEF r
  <2>2. CASE k # n
    <3>1. k \in 0 .. n - 1
      BY <2>2, <1>1, <1>3
    <3>2. /\ s.index.slots[k].off = k
          /\ s.index.slots[k].pos \in DOMAIN s.store.data
          /\ s.store.data[s.index.slots[k].pos].offset = b + k
      BY <3>1 DEF SegmentOK
    <3> QED  BY <3>1, <3>2, <1>4, <1>7
  <2> QED  BY <2>1, <2>2
<1>10. SegmentOK(b, t)
  <2>1. t.nextOffset \in Nat /\ b <= t.nextOffset /\ t.nextOffset <= MaxOffset + 1
    BY <1>1, <1>3, StoreAssumption
  <2> QED  BY <2>1, <1>4, <1>7, <1>8, <1>9 DEF SegmentOK, SegmentType
<1>11. SegmentRead(t, b, s.nextOffset).value = v
  BY <1>4, <1>7 DEF SegmentRead, r
<1>12. ASSUME NEW off \in b .. s.nextOffset - 1
       PROVE  SegmentRead(t, b, off) = SegmentRead(s, b, off)
  <2>1. off - b \in 0 .. n - 1
    BY <1>1
  <2>2. s.index.slots[off - b].pos \in DOMAIN s.store.data
    BY <2>1 DEF SegmentOK
  <2>3. t.index.slots[off - b] = s.index.slots[off - b]
    BY <2>1, <1>7
  <2> QED  BY <2>2, <2>3, <1>4 DEF SegmentRead
<1> QED  BY <1>3, <1>10, <1>11, <1>12 DEF t

(* A refused segment.Append changes no read, although the store has grown. *)
LEMMA SegmentRefuseOK ==
  ASSUME NEW b \in Nat, NEW s, SegmentOK(b, s), NEW v \in Value,
         s.nextOffset <= MaxOffset
  PROVE  SegmentOK(b, SegmentRefuse(s, v)) /\ SameReads(b, s, SegmentRefuse(s, v))
<1> DEFINE r == [value |-> v, offset |-> s.nextOffset]
           t == SegmentRefuse(s, v)
<1>1. s.nextOffset \in Nat /\ StoreType(s.store)
  BY DEF SegmentOK, SegmentType
<1>2. r \in Record
  BY <1>1, StoreAssumption DEF Record, Offset
<1>3. t.nextOffset = s.nextOffset /\ t.store = StoreAppend(s.store, r) /\ t.index = s.index
  BY DEF SegmentRefuse
<1> HIDE DEF r, t
<1>4. /\ StoreType(t.store)
      /\ t.store.flushed <= t.store.size
      /\ DOMAIN t.store.data = DOMAIN s.store.data \cup {s.store.size}
      /\ \A p \in DOMAIN t.store.data : p < t.store.size
      /\ \A p \in DOMAIN s.store.data : t.store.data[p] = s.store.data[p]
  <2>1. s.store.flushed <= s.store.size /\ \A p \in DOMAIN s.store.data : p < s.store.size
    BY DEF SegmentOK
  <2> QED  BY <1>1, <1>2, <1>3, <2>1, StoreAppendOK
<1>5. ASSUME NEW k \in 0 .. s.nextOffset - b - 1
      PROVE  LET e == t.index.slots[k]
             IN  /\ e = s.index.slots[k]
                 /\ e.off = k
                 /\ e.pos \in DOMAIN t.store.data
                 /\ t.store.data[e.pos] = s.store.data[e.pos]
                 /\ t.store.data[e.pos].offset = b + k
  BY <1>3, <1>4 DEF SegmentOK
<1>6. SegmentOK(b, t)
  BY <1>3, <1>4, <1>5 DEF SegmentOK, SegmentType
<1>7. SameReads(b, s, t)
  <2> SUFFICES ASSUME NEW off \in b .. s.nextOffset - 1
               PROVE  SegmentRead(t, b, off) = SegmentRead(s, b, off)
    BY <1>3 DEF SameReads
  <2>1. off - b \in 0 .. s.nextOffset - b - 1
    BY <1>1
  <2> QED  BY <2>1, <1>5 DEF SegmentRead
<1> QED  BY <1>6, <1>7 DEF t

(* store.Read flushes; no read changes. *)
LEMMA SegmentFlushOK ==
  ASSUME NEW b \in Nat, NEW s, SegmentOK(b, s)
  PROVE  SegmentOK(b, SegmentFlush(s)) /\ SameReads(b, s, SegmentFlush(s))
<1> DEFINE t == SegmentFlush(s)
<1>1. /\ t.nextOffset = s.nextOffset /\ t.index = s.index
      /\ t.store.data = s.store.data /\ t.store.size = s.store.size
      /\ t.store.flushed = s.store.size
  BY DEF SegmentFlush, StoreFlush
<1> HIDE DEF t
<1>2. SegmentOK(b, t)
  <2>1. SegmentType(t) /\ t.store.flushed <= t.store.size
    BY <1>1, SegmentNumbers DEF SegmentType, StoreType
  <2> QED  BY <1>1, <2>1 DEF SegmentOK
<1>3. SameReads(b, s, t)
  BY <1>1 DEF SameReads, SegmentRead
<1> QED  BY <1>2, <1>3 DEF t

(* Close and newSegment give back the segment: its next offset is found in
   the last index entry, and every record is where it was. *)
LEMMA SegmentReopenOK ==
  ASSUME NEW b \in Nat, NEW s, SegmentOK(b, s)
  PROVE  LET t == newSegment(b, SegmentClose(s))
         IN  SegmentOK(b, t) /\ SameReads(b, s, t)
<1> DEFINE t == newSegment(b, SegmentClose(s))
           n == s.nextOffset - b
           idx == newIndex(s.index)
<1>1. /\ s.nextOffset \in Nat /\ StoreType(s.store) /\ IndexType(s.index)
      /\ n \in Nat /\ s.index.size = n * 12 /\ s.index.size <= MaxIndexBytes
  BY DEF SegmentOK, SegmentType, entryWidth, offWidth, posWidth
<1>2. \A k \in 0 .. n - 1 : k \in Slots
  <2> SUFFICES ASSUME NEW k \in 0 .. n - 1  PROVE k \in Slots
    OBVIOUS
  <2>1. k \in Nat /\ (k + 1) * 12 <= MaxIndexBytes
    BY <1>1, IndexAssumption
  <2> QED  BY <2>1, SlotsFit DEF entryWidth, offWidth, posWidth
<1>3. /\ idx.size = s.index.size
      /\ idx.slots \in [Slots -> Entry]
      /\ \A k \in 0 .. n - 1 : idx.slots[k] = s.index.slots[k]
  <2>1. ZeroEntry \in Entry
    BY DEF ZeroEntry, Entry
  <2>2. idx.size = s.index.size /\ idx.slots \in [Slots -> Entry]
    BY <1>1, <2>1 DEF newIndex, IndexType
  <2>3. ASSUME NEW k \in 0 .. n - 1  PROVE idx.slots[k] = s.index.slots[k]
    <3>1. k \in Slots /\ (k + 1) * entryWidth <= s.index.size
      BY <1>1, <1>2 DEF entryWidth, offWidth, posWidth
    <3> QED  BY <3>1 DEF newIndex
  <2> QED  BY <2>2, <2>3
<1>4. /\ t.index = idx
      /\ t.store.data = s.store.data /\ t.store.size = s.store.size
      /\ t.store.flushed = s.store.size
  BY DEF newSegment, SegmentClose, StoreFlush
<1>5. t.nextOffset = s.nextOffset
  <2>1. LastSlot(idx) = n - 1
    BY <1>1, <1>3 DEF LastSlot, entryWidth, offWidth, posWidth
  <2>2. t.nextOffset = IF n - 1 >= 0 /\ IndexHas(idx, n - 1)
                       THEN b + idx.slots[n - 1].off + 1 ELSE b
    BY <2>1 DEF newSegment, SegmentClose
  <2>3. CASE n = 0
    BY <1>1, <2>2, <2>3
  <2>4. CASE n # 0
    <3>1. n - 1 \in 0 .. n - 1 /\ IndexHas(idx, n - 1)
      BY <1>1, <1>3, <2>4 DEF IndexHas, entryWidth, offWidth, posWidth
    <3>2. idx.slots[n - 1].off = n - 1
      BY <1>3, <3>1 DEF SegmentOK
    <3> QED  BY <1>1, <2>2, <3>1, <3>2
  <2> QED  BY <2>3, <2>4
<1> HIDE DEF t, idx
<1>6. SegmentOK(b, t)
  <2>1. SegmentType(t)
    BY <1>1, <1>3, <1>4, <1>5 DEF SegmentType, StoreType, IndexType
  <2>2. ASSUME NEW k \in 0 .. n - 1
        PROVE  LET e == t.index.slots[k]
               IN  /\ e.off = k
                   /\ e.pos \in DOMAIN t.store.data
                   /\ t.store.data[e.pos].offset = b + k
    BY <1>3, <1>4 DEF SegmentOK
  <2>3. /\ \A p \in DOMAIN t.store.data : p < t.store.size
        /\ t.store.flushed <= t.store.size
        /\ t.index.size = (t.nextOffset - b) * entryWidth
        /\ t.index.size <= MaxIndexBytes
        /\ b <= t.nextOffset /\ t.nextOffset <= MaxOffset + 1
    <3>1. \A p \in DOMAIN t.store.data : p < t.store.size
      BY <1>4 DEF SegmentOK
    <3> QED  BY <1>1, <1>3, <1>4, <1>5, <3>1, SegmentNumbers
                DEF StoreType, entryWidth, offWidth, posWidth
  <2> QED  BY <1>5, <2>1, <2>2, <2>3 DEF SegmentOK
<1>7. SameReads(b, s, t)
  <2> SUFFICES ASSUME NEW off \in b .. s.nextOffset - 1
               PROVE  SegmentRead(t, b, off) = SegmentRead(s, b, off)
    BY <1>5 DEF SameReads
  <2>1. off - b \in 0 .. n - 1
    BY <1>1
  <2> QED  BY <2>1, <1>3, <1>4 DEF SegmentRead
<1> QED  BY <1>6, <1>7 DEF t

-----------------------------------------------------------------------------
(* The offsets of a log are those some segment owns. *)
LEMMA OffsetsOfSegments ==
  ASSUME NEW segs, SegmentsOK(segs), NEW off
  PROVE  off \in OffsetsOf(segs)
           <=> off \in Offset /\ \E b \in DOMAIN segs : Owns(segs, b, off)
<1>1. \A b \in DOMAIN segs : b \in Nat /\ segs[b].nextOffset \in 0 .. MaxOffset + 1
  BY StoreAssumption, SegmentNumbers DEF SegmentsOK
<1>2. off \in OffsetsOf(segs) <=> \E b \in DOMAIN segs : off \in b .. segs[b].nextOffset - 1
  BY DEF OffsetsOf
<1>3. ASSUME NEW b \in DOMAIN segs
      PROVE  off \in b .. segs[b].nextOffset - 1 <=> off \in Offset /\ Owns(segs, b, off)
  BY <1>1, StoreAssumption DEF Owns, Offset
<1> QED  BY <1>2, <1>3

(* An offset has one owner, the segment Log.Read serves it from. *)
LEMMA HolderIsOwner ==
  ASSUME NEW segs, SegmentsOK(segs), NEW off \in Offset,
         NEW b \in DOMAIN segs, Owns(segs, b, off)
  PROVE  Holder(segs, off) = b
<1>1. \A c \in DOMAIN segs : Owns(segs, c, off) => c = b
  <2> SUFFICES ASSUME NEW c \in DOMAIN segs, Owns(segs, c, off), c # b  PROVE FALSE
    OBVIOUS
  <2>1. b \in Nat /\ c \in Nat /\ off \in Nat
    BY DEF SegmentsOK, Offset
  <2>2. segs[b].nextOffset \in Nat /\ segs[c].nextOffset \in Nat
    BY SegmentNumbers DEF SegmentsOK
  <2>3. b < c => segs[b].nextOffset <= c
    BY DEF SegmentsOK
  <2>4. c < b => segs[c].nextOffset <= b
    BY DEF SegmentsOK
  <2> QED  BY <2>1, <2>2, <2>3, <2>4 DEF Owns
<1> QED  BY <1>1 DEF Holder

(* new has the segments of segs, with the same reads. *)
Agree(segs, new) ==
  /\ DOMAIN new = DOMAIN segs
  /\ \A b \in DOMAIN segs : SegmentOK(b, new[b]) /\ SameReads(b, segs[b], new[b])

(* Replacing segments by ones with the same reads changes nothing. *)
LEMMA AgreeSame ==
  ASSUME NEW segs, NEW new, SegmentsOK(segs), Agree(segs, new)
  PROVE  /\ SegmentsOK(new)
         /\ ViewOf(new) = ViewOf(segs)
         /\ NextOf(new) = NextOf(segs)
<1>1. DOMAIN new = DOMAIN segs /\ \A b \in DOMAIN segs : new[b].nextOffset = segs[b].nextOffset
  BY DEF Agree, SameReads
<1>2. \A b \in DOMAIN segs : \A off : Owns(new, b, off) <=> Owns(segs, b, off)
  BY <1>1 DEF Owns
<1>3. SegmentsOK(new)
  <2>1. /\ DOMAIN new \subseteq Nat
        /\ \A b \in DOMAIN new : SegmentOK(b, new[b])
        /\ DOMAIN new # {} => \E b \in DOMAIN new : IsLast(b, DOMAIN new)
    BY <1>1 DEF SegmentsOK, Agree
  <2>2. \A b, c \in DOMAIN new : b < c => new[b].nextOffset <= c
    BY <1>1 DEF SegmentsOK
  <2>3. ASSUME NEW b \in DOMAIN new, NEW c \in DOMAIN new, NEW off \in Offset,
               b <= off, off < new[c].nextOffset
        PROVE  \E d \in DOMAIN new : Owns(new, d, off)
    <3>1. PICK d \in DOMAIN segs : Owns(segs, d, off)
      BY <1>1, <2>3 DEF SegmentsOK
    <3> QED  BY <1>1, <1>2, <3>1
  <2> QED  BY <2>1, <2>2, <2>3 DEF SegmentsOK
<1>4. OffsetsOf(new) = OffsetsOf(segs)
  <2>1. ASSUME NEW off  PROVE off \in OffsetsOf(new) <=> off \in OffsetsOf(segs)
    <3>1. off \in OffsetsOf(new)
            <=> off \in Offset /\ \E b \in DOMAIN segs : Owns(new, b, off)
      BY <1>1, <1>3, OffsetsOfSegments
    <3>2. off \in OffsetsOf(segs)
            <=> off \in Offset /\ \E b \in DOMAIN segs : Owns(segs, b, off)
      BY OffsetsOfSegments
    <3> QED  BY <1>2, <3>1, <3>2
  <2> QED  BY <2>1
<1>5. ASSUME NEW off \in OffsetsOf(segs)
      PROVE  /\ Holder(new, off) = Holder(segs, off)
             /\ SegmentRead(new[Holder(new, off)], Holder(new, off), off)
                  = SegmentRead(segs[Holder(segs, off)], Holder(segs, off), off)
  <2>1. PICK b \in DOMAIN segs : off \in Offset /\ Owns(segs, b, off)
    BY OffsetsOfSegments
  <2>2. Holder(segs, off) = b
    BY <2>1, HolderIsOwner
  <2>3. Holder(new, off) = b
    BY <1>1, <1>2, <1>3, <2>1, HolderIsOwner
  <2>4. off \in b .. segs[b].nextOffset - 1
    <3>1. b \in Nat /\ off \in Nat /\ segs[b].nextOffset \in Nat
      BY <2>1, SegmentNumbers DEF SegmentsOK, Offset
    <3> QED  BY <2>1, <3>1 DEF Owns
  <2> QED  BY <2>2, <2>3, <2>4 DEF Agree, SameReads
<1>6. ViewOf(new) = ViewOf(segs)
  BY <1>4, <1>5 DEF ViewOf
<1>7. NextOf(new) = NextOf(segs)
  <2>1. CASE DOMAIN segs = {}
    BY <1>1, <2>1 DEF NextOf
  <2>2. CASE DOMAIN segs # {}
    <3> DEFINE last == CHOOSE b \in DOMAIN segs : IsLast(b, DOMAIN segs)
    <3>1. NextOf(new) = new[last].nextOffset /\ NextOf(segs) = segs[last].nextOffset
      BY <1>1, <2>2 DEF NextOf
    <3>2. last \in DOMAIN segs
      BY <2>2 DEF SegmentsOK
    <3> QED  BY <1>1, <3>1, <3>2
  <2> QED  BY <2>1, <2>2
<1> QED  BY <1>3, <1>6, <1>7

(* The next offset of a log is that of its last segment. *)
LEMMA NextOfLast ==
  ASSUME NEW segs, SegmentsOK(segs), NEW a, IsLast(a, DOMAIN segs)
  PROVE  NextOf(segs) = segs[a].nextOffset
<1>1. \A b \in DOMAIN segs : IsLast(b, DOMAIN segs) => b = a
  BY DEF IsLast, SegmentsOK
<1> QED  BY <1>1 DEF NextOf, IsLast

(* An append to the last segment adds one offset at the end of the log. *)
LEMMA AppendGrows ==
  ASSUME NEW segs, SegmentsOK(segs), NEW a, IsLast(a, DOMAIN segs), NEW v \in Value,
         IndexHasRoom(segs[a].index), segs[a].nextOffset <= MaxOffset,
         NEW new, DOMAIN new = DOMAIN segs,
         new[a] = SegmentAppend(segs[a], a, v),
         \A b \in DOMAIN segs : b # a => new[b] = segs[b]
  PROVE  /\ SegmentsOK(new)
         /\ NextOf(new) = NextOf(segs) + 1
         /\ ViewOf(new) = [o \in DOMAIN ViewOf(segs) \cup {NextOf(segs)} |->
                             IF o = NextOf(segs) THEN v ELSE ViewOf(segs)[o]]
<1> DEFINE n == segs[a].nextOffset
<1>1. a \in DOMAIN segs /\ \A b \in DOMAIN segs : b \in Nat /\ b <= a
  BY DEF IsLast, SegmentsOK
<1>2. \A b \in DOMAIN segs : SegmentOK(b, segs[b]) /\ segs[b].nextOffset \in Nat
  BY SegmentNumbers DEF SegmentsOK
<1>3. /\ SegmentOK(a, new[a])
      /\ new[a].nextOffset = n + 1
      /\ SegmentRead(new[a], a, n).value = v
      /\ \A off \in a .. n - 1 : SegmentRead(new[a], a, off) = SegmentRead(segs[a], a, off)
  BY <1>1, <1>2, SegmentAppendOK
<1>4. n \in Offset /\ a <= n
  <2>1. n \in Nat /\ SegmentOK(a, segs[a])
    BY <1>1, <1>2
  <2>2. a <= n
    BY <2>1 DEF SegmentOK
  <2> QED  BY <2>1, <2>2, StoreAssumption DEF Offset
<1>5. \A b \in DOMAIN segs : b # a => segs[b].nextOffset <= a
  <2> SUFFICES ASSUME NEW b \in DOMAIN segs, b # a  PROVE segs[b].nextOffset <= a
    OBVIOUS
  <2>1. b < a
    BY <1>1
  <2> QED  BY <1>1, <2>1 DEF SegmentsOK
<1>6. ASSUME NEW b \in DOMAIN segs, NEW off \in Offset
      PROVE  Owns(new, b, off) <=> Owns(segs, b, off) \/ (b = a /\ off = n)
  <2>1. off \in Nat /\ n \in Nat
    BY <1>4 DEF Offset
  <2>2. CASE b = a
    BY <1>3, <1>4, <2>1, <2>2 DEF Owns
  <2>3. CASE b # a
    BY <2>3 DEF Owns
  <2> QED  BY <2>2, <2>3
<1>7. SegmentsOK(new)
  <2>1. \A b \in DOMAIN new : SegmentOK(b, new[b])
    BY <1>2, <1>3
  <2>2. ASSUME NEW b \in DOMAIN new, NEW c \in DOMAIN new, b < c
        PROVE  new[b].nextOffset <= c
    <3>1. b # a
      BY <1>1, <2>2
    <3>2. new[b].nextOffset = segs[b].nextOffset
      BY <3>1
    <3> QED  BY <2>2, <3>2 DEF SegmentsOK
  <2>3. ASSUME NEW b \in DOMAIN new, NEW c \in DOMAIN new, NEW off \in Offset,
               b <= off, off < new[c].nextOffset
        PROVE  \E d \in DOMAIN new : Owns(new, d, off)
    <3>1. CASE off = n
      BY <1>1, <1>6, <3>1
    <3>2. CASE off # n
      <4>1. off < segs[c].nextOffset
        <5>1. off \in Nat /\ n \in Nat
          BY <1>4 DEF Offset
        <5>2. CASE c = a
          BY <1>3, <2>3, <3>2, <5>1, <5>2
        <5>3. CASE c # a
          BY <2>3, <5>3
        <5> QED  BY <5>2, <5>3
      <4>2. PICK d \in DOMAIN segs : Owns(segs, d, off)
        BY <2>3, <4>1 DEF SegmentsOK
      <4> QED  BY <1>6, <4>2
    <3> QED  BY <3>1, <3>2
  <2>4. DOMAIN new \subseteq Nat /\ \E b \in DOMAIN new : IsLast(b, DOMAIN new)
    BY <1>1
  <2> QED  BY <2>1, <2>2, <2>3, <2>4 DEF SegmentsOK
<1>8. NextOf(segs) = n /\ NextOf(new) = n + 1
  BY <1>3, <1>7, NextOfLast
<1>9. OffsetsOf(new) = OffsetsOf(segs) \cup {n}
  <2>1. ASSUME NEW off  PROVE off \in OffsetsOf(new) <=> off \in OffsetsOf(segs) \/ off = n
    <3>1. off \in OffsetsOf(new)
            <=> off \in Offset /\ \E b \in DOMAIN segs : Owns(new, b, off)
      BY <1>7, OffsetsOfSegments
    <3>2. off \in OffsetsOf(segs)
            <=> off \in Offset /\ \E b \in DOMAIN segs : Owns(segs, b, off)
      BY OffsetsOfSegments
    <3> QED  BY <1>1, <1>4, <1>6, <3>1, <3>2
  <2> QED  BY <2>1
<1>10. SegmentRead(new[Holder(new, n)], Holder(new, n), n).value = v
  <2>1. Owns(new, a, n)
    BY <1>1, <1>4, <1>6
  <2>2. Holder(new, n) = a
    BY <1>1, <1>4, <1>7, <2>1, HolderIsOwner
  <2> QED  BY <1>3, <2>2
<1>11. ASSUME NEW off \in OffsetsOf(segs), off # n
       PROVE  SegmentRead(new[Holder(new, off)], Holder(new, off), off)
                = SegmentRead(segs[Holder(segs, off)], Holder(segs, off), off)
  <2>1. PICK b \in DOMAIN segs : off \in Offset /\ Owns(segs, b, off)
    BY OffsetsOfSegments
  <2>2. Holder(segs, off) = b
    BY <2>1, HolderIsOwner
  <2>3. Owns(new, b, off)
    BY <1>6, <2>1
  <2>4. Holder(new, off) = b
    BY <1>7, <2>1, <2>3, HolderIsOwner
  <2>5. CASE b # a
    BY <2>2, <2>4, <2>5
  <2>6. CASE b = a
    <3>1. off \in a .. n - 1
      BY <1>1, <1>4, <2>1, <2>6 DEF Owns, Offset
    <3> QED  BY <1>3, <2>2, <2>4, <2>6, <3>1
  <2> QED  BY <2>5, <2>6
<1>12. ViewOf(new) = [o \in OffsetsOf(segs) \cup {n} |->
                        IF o = n THEN v ELSE ViewOf(segs)[o]]
  BY <1>9, <1>10, <1>11 DEF ViewOf
<1>13. DOMAIN ViewOf(segs) = OffsetsOf(segs)
  BY DEF ViewOf
<1> QED  BY <1>7, <1>8, <1>12, <1>13

(* A log without segments holds nothing. *)
LEMMA NoSegments ==
  ASSUME NEW segs, DOMAIN segs = {}
  PROVE  /\ SegmentsOK(segs)
         /\ ViewOf(segs) = [o \in {} |-> o]
         /\ NextOf(segs) = InitialOffset
<1>1. OffsetsOf(segs) = {}
  BY DEF OffsetsOf
<1> QED  BY <1>1 DEF SegmentsOK, ViewOf, NextOf

(* Rolling over adds an empty segment at the end, which no reader sees. *)
LEMMA RollSame ==
  ASSUME NEW segs, SegmentsOK(segs), NEW a, IsLast(a, DOMAIN segs),
         NEW off, off = segs[a].nextOffset, a < off
  PROVE  LET new == Put(segs, off, newSegment(off, NewFiles))
         IN  /\ SegmentsOK(new)
             /\ IsLast(off, DOMAIN new)
             /\ ViewOf(new) = ViewOf(segs)
             /\ NextOf(new) = NextOf(segs)
<1> DEFINE new == Put(segs, off, newSegment(off, NewFiles))
<1>1. a \in DOMAIN segs /\ \A b \in DOMAIN segs : b \in Nat /\ b <= a
  BY DEF IsLast, SegmentsOK
<1>2. \A b \in DOMAIN segs : SegmentOK(b, segs[b]) /\ segs[b].nextOffset \in Nat
  BY SegmentNumbers DEF SegmentsOK
<1>3. off \in Nat /\ off <= MaxOffset + 1 /\ off \notin DOMAIN segs
  <2>1. SegmentOK(a, segs[a]) /\ off \in Nat
    BY <1>1, <1>2
  <2>2. off <= MaxOffset + 1
    BY <2>1 DEF SegmentOK
  <2>3. off \notin DOMAIN segs
    BY <1>1, <2>1
  <2>4. QED
    BY <2>1, <2>2, <2>3
<1>4. SegmentOK(off, newSegment(off, NewFiles)) /\ newSegment(off, NewFiles).nextOffset = off
  BY <1>3, FreshSegment
<1>5. /\ DOMAIN new = DOMAIN segs \cup {off}
      /\ new[off] = newSegment(off, NewFiles)
      /\ \A b \in DOMAIN segs : new[b] = segs[b]
  BY <1>3 DEF Put
<1> HIDE DEF new
<1>6. IsLast(off, DOMAIN new)
  BY <1>1, <1>3, <1>5 DEF IsLast
<1>7. ASSUME NEW o \in Offset
      PROVE  /\ ~Owns(new, off, o)
             /\ \A b \in DOMAIN segs : Owns(new, b, o) <=> Owns(segs, b, o)
  BY <1>3, <1>4, <1>5 DEF Owns, Offset
<1>8. ASSUME NEW b \in DOMAIN segs  PROVE segs[b].nextOffset <= off
  <2>1. CASE b = a
    BY <1>2, <2>1
  <2>2. CASE b # a
    <3>1. segs[b].nextOffset <= a
      BY <1>1, <2>2 DEF SegmentsOK
    <3> QED  BY <1>1, <1>2, <1>3, <3>1
  <2> QED  BY <2>1, <2>2
<1>9. SegmentsOK(new)
  <2>1. DOMAIN new \subseteq Nat /\ \A b \in DOMAIN new : SegmentOK(b, new[b])
    BY <1>1, <1>2, <1>3, <1>4, <1>5
  <2>2. ASSUME NEW b \in DOMAIN new, NEW c \in DOMAIN new, b < c
        PROVE  new[b].nextOffset <= c
    <3>1. b # off
      BY <1>1, <1>3, <1>5, <2>2
    <3>2. CASE c = off
      BY <1>5, <1>8, <3>1, <3>2
    <3>3. CASE c # off
      BY <1>5, <2>2, <3>1, <3>3 DEF SegmentsOK
    <3> QED  BY <3>2, <3>3
  <2>3. ASSUME NEW b \in DOMAIN new, NEW c \in DOMAIN new, NEW o \in Offset,
               b <= o, o < new[c].nextOffset
        PROVE  \E d \in DOMAIN new : Owns(new, d, o)
    <3>1. o \in Nat /\ o < off
      <4>1. CASE c = off
        BY <1>3, <1>4, <1>5, <2>3, <4>1 DEF Offset
      <4>2. CASE c # off
        BY <1>2, <1>3, <1>5, <1>8, <2>3, <4>2 DEF Offset
      <4> QED  BY <4>1, <4>2
    <3>2. b \in DOMAIN segs /\ o < segs[a].nextOffset
      BY <1>3, <1>5, <2>3, <3>1
    <3>3. PICK d \in DOMAIN segs : Owns(segs, d, o)
      BY <1>1, <2>3, <3>2 DEF SegmentsOK
    <3> QED  BY <1>5, <1>7, <3>3
  <2> QED  BY <1>6, <2>1, <2>2, <2>3 DEF SegmentsOK, IsLast
<1>10. NextOf(new) = NextOf(segs)
  BY <1>4, <1>5, <1>6, <1>9, NextOfLast
<1>11. ASSUME NEW o
       PROVE  o \in OffsetsOf(new) <=> o \in OffsetsOf(segs)
  <2>1. o \in OffsetsOf(new) <=> o \in Offset /\ \E b \in DOMAIN new : Owns(new, b, o)
    BY <1>9, OffsetsOfSegments
  <2>2. o \in OffsetsOf(segs) <=> o \in Offset /\ \E b \in DOMAIN segs : Owns(segs, b, o)
    BY OffsetsOfSegments
  <2> QED  BY <1>5, <1>7, <2>1, <2>2
<1>12. ASSUME NEW o \in OffsetsOf(segs)
       PROVE  SegmentRead(new[Holder(new, o)], Holder(new, o), o)
                = SegmentRead(segs[Holder(segs, o)], Holder(segs, o), o)
  <2>1. PICK b \in DOMAIN segs : o \in Offset /\ Owns(segs, b, o)
    BY OffsetsOfSegments
  <2>2. Holder(segs, o) = b
    BY <2>1, HolderIsOwner
  <2>3. Holder(new, o) = b
    BY <1>5, <1>7, <1>9, <2>1, HolderIsOwner
  <2> QED  BY <1>5, <2>2, <2>3
<1>13. ViewOf(new) = ViewOf(segs)
  <2>1. OffsetsOf(new) = OffsetsOf(segs)
    BY <1>11
  <2> QED  BY <1>12, <2>1 DEF ViewOf
<1> QED  BY <1>6, <1>9, <1>10, <1>13 DEF new

(* The log new is what is left of segs when offsets are removed at the front,
   none of them above lowest. *)
Shrinks(segs, new, lowest) ==
  /\ NextOf(new) = NextOf(segs)
  /\ OffsetsOf(new) \in SUBSET OffsetsOf(segs)
  /\ ViewOf(new) = Restrict(ViewOf(segs), OffsetsOf(new))
  /\ \A o \in OffsetsOf(segs) : o > lowest => o \in OffsetsOf(new)
  /\ \A o \in OffsetsOf(new), p \in OffsetsOf(segs) : o <= p => p \in OffsetsOf(new)

(* Truncate removes offsets at the front, none above lowest, and leaves the
   last segment alone unless it removes everything. *)
LEMMA TruncateShrinks ==
  ASSUME NEW segs, SegmentsOK(segs), NEW lowest \in Offset,
         NEW kept, kept = {b \in DOMAIN segs : segs[b].nextOffset > lowest + 1},
         kept # {}
  PROVE  LET new == Restrict(segs, kept)
         IN  /\ SegmentsOK(new)
             /\ \A a \in DOMAIN segs : IsLast(a, DOMAIN segs) => IsLast(a, kept)
             /\ Shrinks(segs, new, lowest)
<1> DEFINE new == Restrict(segs, kept)
<1>1. lowest \in Nat /\ kept \subseteq DOMAIN segs
  BY DEF Offset
<1>2. \A b \in DOMAIN segs :
         /\ b \in Nat /\ SegmentOK(b, segs[b]) /\ segs[b].nextOffset \in Nat
         /\ b <= segs[b].nextOffset
  BY SegmentNumbers DEF SegmentsOK
<1>3. DOMAIN new = kept /\ \A b \in kept : new[b] = segs[b]
  BY DEF Restrict
<1> HIDE DEF new
<1>4. ASSUME NEW b \in kept, NEW c \in DOMAIN segs, b <= c
      PROVE  c \in kept
  <2>1. CASE b = c
    BY <2>1
  <2>2. CASE b # c
    <3>1. segs[b].nextOffset <= c
      BY <1>1, <1>2, <1>4, <2>2 DEF SegmentsOK
    <3> QED  BY <1>1, <1>2, <3>1
  <2> QED  BY <2>1, <2>2
<1>5. PICK a \in DOMAIN segs : IsLast(a, DOMAIN segs)
  BY <1>1 DEF SegmentsOK
<1>6. IsLast(a, kept) /\ \A b \in DOMAIN segs : IsLast(b, DOMAIN segs) => b = a
  BY <1>1, <1>2, <1>4, <1>5 DEF IsLast
<1>7. \A b \in kept : \A o : Owns(new, b, o) <=> Owns(segs, b, o)
  BY <1>3 DEF Owns
<1>8. SegmentsOK(new)
  <2>1. /\ DOMAIN new \subseteq Nat
        /\ \A b \in DOMAIN new : SegmentOK(b, new[b])
        /\ \E b \in DOMAIN new : IsLast(b, DOMAIN new)
    BY <1>1, <1>2, <1>3, <1>6 DEF IsLast
  <2>2. \A b, c \in DOMAIN new : b < c => new[b].nextOffset <= c
    BY <1>1, <1>3 DEF SegmentsOK
  <2>3. ASSUME NEW b \in kept, NEW c \in kept, NEW o \in Offset,
               b <= o, o < segs[c].nextOffset
        PROVE  \E d \in kept : Owns(segs, d, o)
    <3>1. PICK d \in DOMAIN segs : Owns(segs, d, o)
      BY <1>1, <2>3 DEF SegmentsOK
    <3>2. CASE d \in kept
      BY <3>1, <3>2
    <3>3. CASE d \notin kept
      <4>1. o < segs[b].nextOffset
        BY <1>1, <1>2, <3>1, <3>3 DEF Owns, Offset
      <4> QED  BY <2>3, <4>1 DEF Owns
    <3> QED  BY <3>2, <3>3
  <2> QED  BY <1>3, <1>7, <2>1, <2>2, <2>3 DEF SegmentsOK
<1>9. NextOf(new) = NextOf(segs)
  BY <1>3, <1>5, <1>6, <1>8, NextOfLast DEF IsLast
<1>10. ASSUME NEW o
       PROVE  /\ o \in OffsetsOf(new) <=> o \in Offset /\ \E b \in kept : Owns(segs, b, o)
              /\ o \in OffsetsOf(segs)
                   <=> o \in Offset /\ \E b \in DOMAIN segs : Owns(segs, b, o)
  BY <1>3, <1>7, <1>8, OffsetsOfSegments
<1>11. OffsetsOf(new) \in SUBSET OffsetsOf(segs)
  BY <1>1, <1>10
<1>12. ASSUME NEW o \in OffsetsOf(segs), o > lowest
       PROVE  o \in OffsetsOf(new)
  <2>1. PICK b \in DOMAIN segs : o \in Offset /\ Owns(segs, b, o)
    BY <1>10
  <2>2. b \in kept
    BY <1>1, <1>2, <1>12, <2>1 DEF Owns, Offset
  <2> QED  BY <1>10, <2>1, <2>2
<1>13. ASSUME NEW o \in OffsetsOf(new), NEW p \in OffsetsOf(segs), o <= p
       PROVE  p \in OffsetsOf(new)
  <2>1. PICK b \in kept : o \in Offset /\ Owns(segs, b, o)
    BY <1>10
  <2>2. PICK c \in DOMAIN segs : p \in Offset /\ Owns(segs, c, p)
    BY <1>10
  <2>3. ~(c < b)
    <3>1. c < b => segs[c].nextOffset <= b
      BY <1>1 DEF SegmentsOK
    <3>2. o \in Nat /\ p \in Nat /\ b \in Nat /\ c \in Nat /\ segs[c].nextOffset \in Nat
      BY <1>1, <1>2, <2>1, <2>2 DEF Offset
    <3> QED  BY <1>13, <2>1, <2>2, <3>1, <3>2 DEF Owns
  <2>4. c \in kept
    BY <1>1, <1>2, <1>4, <2>3
  <2> QED  BY <1>10, <2>2, <2>4
<1>14. ASSUME NEW o \in OffsetsOf(new)
       PROVE  SegmentRead(new[Holder(new, o)], Holder(new, o), o)
                = SegmentRead(segs[Holder(segs, o)], Holder(segs, o), o)
  <2>1. PICK b \in kept : o \in Offset /\ Owns(segs, b, o)
    BY <1>10
  <2>2. Holder(segs, o) = b
    BY <1>1, <2>1, HolderIsOwner
  <2>3. Holder(new, o) = b
    BY <1>3, <1>7, <1>8, <2>1, HolderIsOwner
  <2> QED  BY <1>3, <2>2, <2>3
<1>15. ViewOf(new) = Restrict(ViewOf(segs), OffsetsOf(new))
  BY <1>11, <1>14 DEF ViewOf, Restrict
<1> QED
  BY <1>6, <1>8, <1>9, <1>11, <1>12, <1>13, <1>15 DEF new, Shrinks

-----------------------------------------------------------------------------
(* A step of the log as CommitLog allows it, or none that a reader sees. *)
LogStep == [Abstract!Next]_<<ViewOf(Seen), NextOf(Seen)>>

(* A step that leaves the log open has only its segments to account for. *)
LEMMA StaysOpen ==
  ASSUME TypeOK, proc' = "open", dir' = dir \/ dir' = EmptyMap, SegmentsOK(segments)',
         DOMAIN segments' = {} \/ IsLast(activeSegment', DOMAIN segments'),
         activeSegment' \in Nat
  PROVE  Inv' /\ Seen' = segments'
<1>1. Seen' = segments'
  BY DEF Seen
<1>2. \A b \in DOMAIN segments' : SegmentType(segments'[b])
  BY DEF SegmentsOK, SegmentOK
<1>3. DOMAIN segments' \subseteq Nat
  BY DEF SegmentsOK
<1>4. TypeOK'
  BY <1>2, <1>3 DEF TypeOK, EmptyMap
<1> QED  BY <1>1, <1>4 DEF Inv

(* Open shows the segments that the files make, or a first empty one. *)
LEMMA OpenStep ==
  ASSUME Inv, Open
  PROVE  Inv' /\ LogStep
<1>1. CASE DOMAIN dir # {}
  <2>1. segments' = Seen
    BY <1>1 DEF Open, Bases, Seen
  <2>2. SegmentsOK(segments)' /\ IsLast(activeSegment', DOMAIN segments')
    BY <1>1, <2>1 DEF Inv, Open, Bases, Seen
  <2>3. activeSegment' \in Nat
    BY <2>2 DEF IsLast, SegmentsOK
  <2>4. Inv' /\ Seen' = segments'
    BY <2>2, <2>3, StaysOpen DEF Inv, Open
  <2> QED  BY <2>1, <2>4 DEF LogStep
<1>2. CASE DOMAIN dir = {}
  <2> DEFINE i == InitialOffset
  <2>1. i \in Nat /\ i <= MaxOffset + 1
    BY LogAssumption, StoreAssumption DEF Offset
  <2>2. segments' = [b \in {i} |-> newSegment(b, NewFiles)] /\ activeSegment' = i
    BY <1>2 DEF Open, Bases
  <2>3. SegmentOK(i, segments'[i]) /\ segments'[i].nextOffset = i
    BY <2>1, <2>2, FreshSegment
  <2>4. DOMAIN segments' = {i} /\ IsLast(i, {i})
    BY <2>1, <2>2 DEF IsLast
  <2>5. SegmentsOK(segments')
    BY <2>1, <2>3, <2>4 DEF SegmentsOK, Offset
  <2>6. Inv' /\ Seen' = segments'
    BY <2>1, <2>2, <2>4, <2>5, StaysOpen DEF Inv, Open
  <2>7. NextOf(segments') = i
    BY <2>3, <2>4, <2>5, NextOfLast
  <2>8. OffsetsOf(segments') = {}
    BY <2>1, <2>3, <2>4, <2>5, OffsetsOfSegments DEF Owns, Offset
  <2>9. ViewOf(segments') = [o \in {} |-> o]
    BY <2>8 DEF ViewOf
  <2>10. DOMAIN Seen = {}
    BY <1>2 DEF Open, Seen
  <2> QED  BY <2>6, <2>7, <2>9, <2>10, NoSegments DEF LogStep
<1> QED  BY <1>1, <1>2

(* Replacing the active segment: what the appends have in common. *)
LEMMA ActiveIsLast ==
  ASSUME Inv, CanAppend
  PROVE  /\ SegmentsOK(segments) /\ Seen = segments
         /\ IsLast(activeSegment, DOMAIN segments)
         /\ activeSegment \in Nat
         /\ SegmentOK(activeSegment, segments[activeSegment])
         /\ segments[activeSegment].nextOffset <= MaxOffset
BY DEF Inv, CanAppend, Seen, TypeOK, SegmentsOK

(* A refused append changes nothing a reader sees. *)
LEMMA AppendRefusedStep ==
  ASSUME Inv, NEW v \in Value, AppendRefused(v)
  PROVE  Inv' /\ LogStep
<1> DEFINE a == activeSegment
<1>1. CanAppend
  BY DEF AppendRefused
<1>2. SegmentOK(a, SegmentRefuse(segments[a], v)) /\ SameReads(a, segments[a], SegmentRefuse(segments[a], v))
  BY <1>1, ActiveIsLast, SegmentRefuseOK
<1>3. /\ DOMAIN segments' = DOMAIN segments
      /\ segments'[a] = SegmentRefuse(segments[a], v)
      /\ \A b \in DOMAIN segments : b # a => segments'[b] = segments[b]
  BY <1>1 DEF AppendRefused, CanAppend
<1>4. Agree(segments, segments')
  BY <1>1, <1>2, <1>3, ActiveIsLast DEF Agree, SameReads, SegmentsOK
<1>5. /\ SegmentsOK(segments')
      /\ ViewOf(segments') = ViewOf(segments)
      /\ NextOf(segments') = NextOf(segments)
  BY <1>1, <1>4, ActiveIsLast, AgreeSame
<1>6. Inv' /\ Seen' = segments'
  BY <1>1, <1>3, <1>5, ActiveIsLast, StaysOpen DEF Inv, AppendRefused, CanAppend
<1> QED  BY <1>1, <1>5, <1>6, ActiveIsLast DEF LogStep

(* An append that stays in its segment is one CommitLog append. *)
LEMMA AppendInPlaceStep ==
  ASSUME Inv, NEW v \in Value, AppendInPlace(v)
  PROVE  Inv' /\ LogStep
<1> DEFINE a == activeSegment
<1>1. CanAppend /\ IndexHasRoom(segments[a].index)
  BY DEF AppendInPlace
<1>2. /\ DOMAIN segments' = DOMAIN segments
      /\ segments'[a] = SegmentAppend(segments[a], a, v)
      /\ \A b \in DOMAIN segments : b # a => segments'[b] = segments[b]
  BY <1>1 DEF AppendInPlace, CanAppend, Appended
<1>3. /\ SegmentsOK(segments')
      /\ NextOf(segments') = NextOf(segments) + 1
      /\ ViewOf(segments') = [o \in DOMAIN ViewOf(segments) \cup {NextOf(segments)} |->
                                IF o = NextOf(segments) THEN v ELSE ViewOf(segments)[o]]
  BY <1>1, <1>2, ActiveIsLast, AppendGrows
<1>4. Inv' /\ Seen' = segments'
  BY <1>1, <1>2, <1>3, ActiveIsLast, StaysOpen DEF Inv, AppendInPlace, CanAppend
<1>5. Seen = segments
  BY <1>1, ActiveIsLast
<1>6. Abstract!Append(v)
  BY <1>3, <1>4, <1>5 DEF Abstract!Append
<1> QED  BY <1>4, <1>6 DEF LogStep, Abstract!Next

(* So is an append that rolls over: the new segment holds no record yet. *)
LEMMA AppendRollStep ==
  ASSUME Inv, NEW v \in Value, AppendRoll(v)
  PROVE  Inv' /\ LogStep
<1> DEFINE a == activeSegment
           mid == [segments EXCEPT ![a] = Appended(v)]
           off == Appended(v).nextOffset
<1>1. CanAppend /\ IndexHasRoom(segments[a].index)
  BY DEF AppendRoll
<1>2. /\ DOMAIN mid = DOMAIN segments
      /\ mid[a] = SegmentAppend(segments[a], a, v)
      /\ mid[a].nextOffset = off
      /\ \A b \in DOMAIN segments : b # a => mid[b] = segments[b]
  BY <1>1 DEF CanAppend, Appended
<1>3. off = segments[a].nextOffset + 1
  BY DEF Appended, SegmentAppend
<1>4. segments' = Put(mid, off, newSegment(off, NewFiles)) /\ activeSegment' = off
  BY DEF AppendRoll
<1> HIDE DEF mid, off
<1>5. /\ SegmentsOK(mid)
      /\ NextOf(mid) = NextOf(segments) + 1
      /\ ViewOf(mid) = [o \in DOMAIN ViewOf(segments) \cup {NextOf(segments)} |->
                          IF o = NextOf(segments) THEN v ELSE ViewOf(segments)[o]]
  <2>1. /\ SegmentsOK(segments) /\ IsLast(a, DOMAIN segments)
        /\ segments[a].nextOffset <= MaxOffset
    BY <1>1, ActiveIsLast
  <2>2. /\ DOMAIN mid = DOMAIN segments
        /\ mid[a] = SegmentAppend(segments[a], a, v)
        /\ \A b \in DOMAIN segments : b # a => mid[b] = segments[b]
    BY <1>2
  <2>3. IndexHasRoom(segments[a].index)
    BY <1>1
  <2> HIDE DEF a
  <2> QED  BY <2>1, <2>2, <2>3, AppendGrows
<1>6. a < off /\ off \in Nat
  <2>1. a \in Nat /\ segments[a].nextOffset \in Nat /\ a <= segments[a].nextOffset
    BY <1>1, ActiveIsLast DEF SegmentOK, SegmentType
  <2> QED  BY <1>3, <2>1
<1>7. IsLast(a, DOMAIN mid)
  BY <1>1, <1>2, ActiveIsLast
<1>8. /\ SegmentsOK(segments')
      /\ IsLast(off, DOMAIN segments')
      /\ ViewOf(segments') = ViewOf(mid)
      /\ NextOf(segments') = NextOf(mid)
  BY <1>2, <1>4, <1>5, <1>6, <1>7, RollSame
<1>9. Inv' /\ Seen' = segments'
  BY <1>1, <1>4, <1>6, <1>8, StaysOpen DEF Inv, AppendRoll, CanAppend
<1>10. Seen = segments
  BY <1>1, ActiveIsLast
<1>11. Abstract!Append(v)
  BY <1>5, <1>8, <1>9, <1>10 DEF Abstract!Append
<1> QED  BY <1>9, <1>11 DEF LogStep, Abstract!Next

(* A read flushes a store, which no reader sees. *)
LEMMA ReadStep ==
  ASSUME Inv, NEW off \in Offset, Read(off)
  PROVE  Inv' /\ LogStep
<1>1. PICK b \in DOMAIN segments : segments' = [segments EXCEPT ![b] = SegmentFlush(@)]
  BY DEF Read
<1>2. \A c \in DOMAIN segments : c \in Nat /\ SegmentOK(c, segments[c])
  BY DEF Inv, SegmentsOK
<1>3. /\ DOMAIN segments' = DOMAIN segments
      /\ segments'[b] = SegmentFlush(segments[b])
      /\ \A c \in DOMAIN segments : c # b => segments'[c] = segments[c]
  BY <1>1
<1>4. SegmentOK(b, segments'[b]) /\ SameReads(b, segments[b], segments'[b])
  BY <1>2, <1>3, SegmentFlushOK
<1>5. Agree(segments, segments')
  BY <1>2, <1>3, <1>4 DEF Agree, SameReads
<1>6. Seen = segments /\ SegmentsOK(segments)
  BY DEF Read, Inv, Seen
<1>7. /\ SegmentsOK(segments')
      /\ ViewOf(segments') = ViewOf(segments)
      /\ NextOf(segments') = NextOf(segments)
  BY <1>5, <1>6, AgreeSame
<1>8. Inv' /\ Seen' = segments'
  BY <1>3, <1>7, StaysOpen DEF Inv, Read, TypeOK
<1> QED  BY <1>6, <1>7, <1>8 DEF LogStep

(* Truncate cuts the front of the log, or clears it when no segment is left. *)
LEMMA CompactStep ==
  ASSUME Inv, Compact
  PROVE  Inv' /\ LogStep
<1>1. PICK lowest \in Offset : Truncate(lowest)
  BY DEF Compact, CompactArgs
<1> DEFINE kept == Kept(lowest)
<1>2. Seen = segments /\ SegmentsOK(segments) /\ proc = "open"
  BY <1>1 DEF Truncate, Inv, Seen
<1>3. kept = {b \in DOMAIN segments : segments[b].nextOffset > lowest + 1}
  BY DEF Kept
<1>4. segments' = Restrict(segments, kept) /\ DOMAIN segments' = kept
  BY <1>1 DEF Truncate, Restrict
<1> HIDE DEF kept
<1>5. CASE kept = {}
  <2>1. /\ SegmentsOK(segments')
        /\ ViewOf(segments') = [o \in {} |-> o]
        /\ NextOf(segments') = InitialOffset
    BY <1>4, <1>5, NoSegments
  <2>2. Inv' /\ Seen' = segments'
    BY <1>1, <1>4, <1>5, <2>1, StaysOpen DEF Inv, Truncate, TypeOK
  <2>3. Abstract!Clear
    BY <2>1, <2>2 DEF Abstract!Clear
  <2> QED  BY <2>2, <2>3 DEF LogStep, Abstract!Next
<1>6. CASE kept # {}
  <2>1. /\ SegmentsOK(segments')
        /\ \A a \in DOMAIN segments : IsLast(a, DOMAIN segments) => IsLast(a, kept)
        /\ Shrinks(segments, segments', lowest)
    <3> DEFINE new == Restrict(segments, kept)
    <3>1. /\ SegmentsOK(new)
          /\ \A a \in DOMAIN segments : IsLast(a, DOMAIN segments) => IsLast(a, kept)
          /\ Shrinks(segments, new, lowest)
      BY ONLY <1>2, <1>3, <1>6, lowest \in Offset, TruncateShrinks
    <3> QED  BY <1>4, <3>1
  <2>2. IsLast(activeSegment, kept)
    <3>1. DOMAIN segments # {}
      BY <1>3, <1>6
    <3>2. IsLast(activeSegment, DOMAIN segments)
      BY <1>2, <3>1 DEF Inv
    <3>3. activeSegment \in DOMAIN segments
      BY <3>2 DEF IsLast
    <3> QED  BY <2>1, <3>2, <3>3
  <2>3. Inv' /\ Seen' = segments'
    BY <1>1, <1>4, <2>1, <2>2, StaysOpen DEF Inv, Truncate, TypeOK
  <2>4. DOMAIN ViewOf(segments) = OffsetsOf(segments)
    BY DEF ViewOf
  <2>5. Abstract!Truncate(lowest)
    BY <1>2, <2>1, <2>3, <2>4 DEF Abstract!Truncate, Abstract!Restrict, Restrict, Shrinks
  <2> QED  BY <2>3, <2>5 DEF LogStep, Abstract!Next
<1> QED  BY <1>5, <1>6

(* Close leaves files from which the same log is opened again. *)
LEMMA CloseStep ==
  ASSUME Inv, Close
  PROVE  Inv' /\ LogStep
<1>1. Seen = segments /\ SegmentsOK(segments)
  BY DEF Close, Inv, Seen
<1>2. \A b \in DOMAIN segments : b \in Nat /\ SegmentOK(b, segments[b])
  BY <1>1 DEF SegmentsOK
<1>3. Seen' = [b \in DOMAIN segments |-> newSegment(b, SegmentClose(segments[b]))]
  BY DEF Close, Seen
<1>4. Agree(segments, Seen')
  BY <1>2, <1>3, SegmentReopenOK DEF Agree
<1>5. /\ SegmentsOK(Seen')
      /\ ViewOf(Seen') = ViewOf(segments)
      /\ NextOf(Seen') = NextOf(segments)
  BY <1>1, <1>4, AgreeSame
<1>6. ASSUME NEW b \in DOMAIN segments
      PROVE  StoreType(dir'[b].store) /\ IndexType(dir'[b].index)
  BY <1>2 DEF Close, SegmentClose, StoreFlush, SegmentOK, SegmentType, StoreType
<1>7. TypeOK'
  BY <1>2, <1>6 DEF Close, Inv, TypeOK
<1> QED  BY <1>1, <1>5, <1>7 DEF Inv, Close, LogStep

(* Remove clears the log. *)
LEMMA RemoveStep ==
  ASSUME Inv, Remove
  PROVE  Inv' /\ LogStep
<1>1. DOMAIN Seen' = {} /\ dir' = EmptyMap
  BY DEF Remove, Seen, EmptyMap
<1>2. /\ SegmentsOK(Seen')
      /\ ViewOf(Seen') = [o \in {} |-> o]
      /\ NextOf(Seen') = InitialOffset
  BY <1>1, NoSegments
<1>3. TypeOK'
  BY <1>1 DEF Remove, Inv, TypeOK, EmptyMap
<1>4. Abstract!Clear
  BY <1>2 DEF Abstract!Clear
<1> QED  BY <1>2, <1>3, <1>4 DEF Inv, Remove, LogStep, Abstract!Next

(* A process that ends after Close leaves the files as they are. *)
LEMMA ExitStep ==
  ASSUME Inv, Exit
  PROVE  Inv' /\ LogStep
<1>1. Seen' = Seen
  BY DEF Exit, Seen
<1>2. DOMAIN segments' = {} /\ SegmentsOK(segments')
  BY NoSegments DEF Exit, EmptyMap
<1>3. TypeOK'
  BY <1>2, LogAssumption DEF Exit, Inv, TypeOK, Offset
<1> QED  BY <1>1, <1>2, <1>3 DEF Inv, Exit, LogStep

(* When the active segment is gone so are all others, and no file is left. *)
LEMMA AppendToDeletedStep ==
  ASSUME Inv, AppendToDeleted
  PROVE  Inv' /\ LogStep
<1>1. DOMAIN segments = {} /\ Seen = segments
  BY DEF Inv, AppendToDeleted, IsLast, Seen
<1>2. DOMAIN segments' = {} /\ DOMAIN dir' = {} /\ DOMAIN Seen' = {}
  BY <1>1 DEF AppendToDeleted, EmptyMap, Seen
<1>3. /\ SegmentsOK(segments') /\ SegmentsOK(Seen')
      /\ ViewOf(Seen') = ViewOf(Seen) /\ NextOf(Seen') = NextOf(Seen)
  BY <1>1, <1>2, NoSegments
<1>4. TypeOK'
  BY <1>2, LogAssumption DEF AppendToDeleted, TypeOK, Offset
<1> QED  BY <1>3, <1>4 DEF Inv, AppendToDeleted, LogStep

-----------------------------------------------------------------------------
(* The log starts well formed, and empty. *)
LEMMA InitInv ==
  ASSUME Init
  PROVE  Inv /\ Abstract!Init
<1>1. DOMAIN segments = {} /\ DOMAIN dir = {} /\ DOMAIN Seen = {}
  BY DEF Init, EmptyMap, Seen
<1>2. TypeOK
  BY <1>1, LogAssumption DEF Init, TypeOK, Offset
<1>3. /\ SegmentsOK(segments) /\ SegmentsOK(Seen)
      /\ ViewOf(Seen) = [o \in {} |-> o] /\ NextOf(Seen) = InitialOffset
  BY <1>1, NoSegments
<1> QED  BY <1>2, <1>3 DEF Init, Inv, Abstract!Init

(* Every step keeps the invariant and is a CommitLog step or a stutter. *)
LEMMA NextInv ==
  ASSUME Inv, [Next]_vars
  PROVE  Inv' /\ LogStep
<1>1. CASE Open
  BY <1>1, OpenStep
<1>2. CASE \E v \in Value : AppendRefused(v) \/ AppendInPlace(v) \/ AppendRoll(v)
  BY <1>2, AppendRefusedStep, AppendInPlaceStep, AppendRollStep
<1>3. CASE \E off \in Offset : Read(off)
  BY <1>3, ReadStep
<1>4. CASE Compact
  BY <1>4, CompactStep
<1>5. CASE Close
  BY <1>5, CloseStep
<1>6. CASE Remove
  BY <1>6, RemoveStep
<1>7. CASE Exit
  BY <1>7, ExitStep
<1>8. CASE AppendToDeleted
  BY <1>8, AppendToDeletedStep
<1>9. CASE UNCHANGED vars
  <2>1. Seen' = Seen
    BY <1>9 DEF vars, Seen
  <2> QED  BY <1>9, <2>1 DEF vars, Inv, TypeOK, LogStep
<1> QED  BY <1>1, <1>2, <1>3, <1>4, <1>5, <1>6, <1>7, <1>8, <1>9 DEF Next

(* What a segment of a well formed log has. *)
LEMMA SegmentFacts ==
  ASSUME NEW segs, SegmentsOK(segs), NEW b \in DOMAIN segs
  PROVE  /\ b \in Nat /\ SegmentOK(b, segs[b])
         /\ segs[b].nextOffset \in Nat /\ b <= segs[b].nextOffset
         /\ segs[b].index.size = (segs[b].nextOffset - b) * 12
<1>1. b \in Nat /\ SegmentOK(b, segs[b])
  BY DEF SegmentsOK
<1>2. SegmentType(segs[b])
  BY <1>1 DEF SegmentOK
<1>3. segs[b].nextOffset \in Nat
  BY <1>2 DEF SegmentType
<1>4. segs[b].index.size = (segs[b].nextOffset - b) * entryWidth /\ b <= segs[b].nextOffset
  BY <1>1 DEF SegmentOK
<1> QED  BY <1>1, <1>3, <1>4 DEF entryWidth, offWidth, posWidth

(* In every state of the log, the segments are well formed and tile the
   offsets: the index of each agrees with its store, and Close, reopening,
   rotation, truncation and failed appends keep it so. *)
THEOREM Invariance == Spec => []Inv
<1>1. Init => Inv
  BY InitInv
<1>2. Inv /\ [Next]_vars => Inv'
  BY NextInv
<1> QED  BY <1>1, <1>2, PTL DEF Spec

(* The variables keep their types. *)
THEOREM TypeCorrect == Spec => []TypeOK
<1>1. Inv => TypeOK
  BY DEF Inv
<1> QED  BY <1>1, Invariance, PTL

(* Log.Read finds at most one segment for an offset. *)
THEOREM OneOwnerAlways == Spec => []OneOwner
<1>1. ASSUME SegmentsOK(segments)  PROVE OneOwner
  BY <1>1, HolderIsOwner DEF OneOwner
<1>2. Inv => OneOwner
  BY <1>1 DEF Inv
<1> QED  BY <1>2, Invariance, PTL

(* Log.Read never fails between the lowest and the highest offset. *)
THEOREM NoHoleEver == Spec => []NoHole
<1>1. ASSUME SegmentsOK(segments), NEW d \in DOMAIN segments, NEW off \in Offset,
             Owns(segments, d, off)
      PROVE  SegmentHas(segments[d], d, off)
  <2> DEFINE s == segments[d]
             k == off - d
  <2>1. /\ SegmentOK(d, s) /\ d \in Nat /\ off \in Nat /\ s.nextOffset \in Nat
        /\ d <= off /\ off < s.nextOffset
    BY <1>1, SegmentFacts DEF Owns, Offset
  <2>2. k \in 0 .. s.nextOffset - d - 1 /\ s.index.size = (s.nextOffset - d) * 12
    BY <1>1, <2>1, SegmentFacts
  <2>3. s.index.slots[k].pos \in DOMAIN s.store.data
    BY <2>1, <2>2 DEF SegmentOK
  <2>4. IndexHas(s.index, k)
    BY <2>1, <2>2 DEF IndexHas, entryWidth, offWidth, posWidth
  <2> QED  BY <2>3, <2>4 DEF SegmentHas, StoreHas
<1>2. Inv => NoHole
  BY <1>1 DEF Inv, NoHole, SegmentsOK
<1> QED  BY <1>2, Invariance, PTL

(* Log.Read(off) returns the record that was given the offset off. *)
THEOREM ReadsOwnOffsetAlways == Spec => []ReadsOwnOffset
<1>1. ASSUME SegmentsOK(segments), NEW b \in DOMAIN segments, NEW off \in Offset,
             Owns(segments, b, off)
      PROVE  SegmentRead(segments[b], b, off).offset = off
  <2> DEFINE s == segments[b]
             k == off - b
  <2>1. /\ SegmentOK(b, s) /\ b \in Nat /\ off \in Nat /\ s.nextOffset \in Nat
        /\ b <= off /\ off < s.nextOffset
    BY <1>1, SegmentFacts DEF Owns, Offset
  <2>2. k \in 0 .. s.nextOffset - b - 1 /\ b + k = off
    BY <2>1
  <2>3. s.store.data[s.index.slots[k].pos].offset = b + k
    BY <2>1, <2>2 DEF SegmentOK
  <2> QED  BY <2>2, <2>3 DEF SegmentRead
<1>2. Inv => ReadsOwnOffset
  BY <1>1 DEF Inv, ReadsOwnOffset
<1> QED  BY <1>2, Invariance, PTL

(* When a whole number of entries fills the index, a segment that refuses an
   entry is maxed; for other values of MaxIndexBytes it need not be. *)
THEOREM RefusedIsMaxedAligned ==
  ASSUME MaxIndexBytes % entryWidth = 0
  PROVE  Spec => []RefusedIsMaxed
<1>1. ASSUME SegmentsOK(segments), NEW b \in DOMAIN segments,
             ~IndexHasRoom(segments[b].index)
      PROVE  IsMaxed(segments[b])
  <2> DEFINE s == segments[b]
  <2>1. /\ b \in Nat /\ s.nextOffset \in Nat /\ b <= s.nextOffset
        /\ s.index.size = (s.nextOffset - b) * 12
    BY <1>1, SegmentFacts
  <2>2. MaxIndexBytes = 12 * (MaxIndexBytes \div 12) /\ MaxIndexBytes \in Nat
    BY IndexAssumption DEF entryWidth, offWidth, posWidth
  <2>3. s.index.size + 12 > MaxIndexBytes
    BY <1>1, <2>1, <2>2 DEF IndexHasRoom, entryWidth, offWidth, posWidth
  <2>4. s.index.size >= MaxIndexBytes
    BY <2>1, <2>2, <2>3
  <2> QED  BY <2>4 DEF IsMaxed
<1>2. Inv => RefusedIsMaxed
  BY <1>1 DEF Inv, RefusedIsMaxed
<1> QED  BY <1>2, Invariance, PTL

(* The segmented log implements the abstract commit log. *)
THEOREM Refinement == Spec => ImplementsCommitLog
<1>1. Init => Abstract!Init
  BY InitInv
<1>2. Inv /\ [Next]_vars => [Abstract!Next]_<<ViewOf(Seen), NextOf(Seen)>>
  BY NextInv DEF LogStep
<1> QED  BY <1>1, <1>2, Invariance, PTL DEF Spec, ImplementsCommitLog, Abstract!Spec
=============================================================================
