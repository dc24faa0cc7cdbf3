---------------------------- MODULE LogCrashProofs ----------------------------
(***************************************************************************)
(* Proofs about the segmented log in a process that can die at any point,  *)
(* for all payloads, record lengths, index and store limits, buffer sizes  *)
(* and offset bounds, and callers that keep at least one record when they  *)
(* truncate.                                                               *)
(***************************************************************************)
EXTENDS LogCrash, TLAPS

(* The slots of an index, of which only the offsets matter here. *)
SlotsOK(slots) ==
    DOMAIN slots = Slots /\ \A k \in Slots : slots[k].off \in Nat

(***************************************************************************)
(* A segment after any crashes: its index may name offsets that it does    *)
(* not own, but as long as the index takes entries it has exactly those of *)
(* the segment.                                                            *)
(***************************************************************************)
Sound(b, s) ==
    /\ s.nextOffset \in Nat /\ b <= s.nextOffset
    /\ SlotsOK(s.index.slots)
    /\ s.index.size \in Nat /\ s.index.size <= MaxIndexBytes
    /\ IndexHasRoom(s.index) =>
          /\ s.index.size = (s.nextOffset - b) * entryWidth
          /\ \A k \in Slots :
                s.index.slots[k].off = IF k < s.nextOffset - b THEN k ELSE 0

(* Neither a segment nor any entry of its index reaches into a later one. *)
Apart(segs) ==
    \A b, c \in DOMAIN segs : b < c =>
        /\ segs[b].nextOffset <= c
        /\ \A k \in Slots : b + segs[b].index.slots[k].off < c

Tiled(segs) ==
    /\ DOMAIN segs \subseteq Nat
    /\ \A b \in DOMAIN segs : Sound(b, segs[b])
    /\ Apart(segs)

(* Of a log with acknowledged offsets A and removed offsets G: what was removed
   lies before the log, and what was acknowledged before the next offset,
   unless the last segment takes no more records. *)
Remembers(segs, A, G) ==
    /\ \A g \in G, b \in DOMAIN segs : g < b
    /\ A # {} \/ G # {} => \E b \in DOMAIN segs : IsLast(b, DOMAIN segs)
    /\ \A b \in DOMAIN segs :
          IsLast(b, DOMAIN segs) /\ IndexHasRoom(segs[b].index) =>
              \A a \in A : a < segs[b].nextOffset

(* The inductive invariant. *)
KInv ==
    /\ proc \in {"down", "open", "closed"}
    /\ acked \subseteq Nat /\ gone \subseteq Nat
    /\ Tiled(segments) /\ Tiled(Seen)
    /\ Remembers(Seen, acked, gone)
    /\ proc = "open" => IsLast(activeSegment, DOMAIN segments)

(* The segments that opening the files makes. *)
Opened(files) == [b \in DOMAIN files |-> newSegment(b, files[b])]

(* Segment t, with base b, owns no more than the index of s names. *)
Derived(b, s, t) ==
    /\ Sound(b, t)
    /\ \A k \in Slots : t.index.slots[k].off \in {0, s.index.slots[k].off}
    /\ \/ t.nextOffset \in {b, s.nextOffset}
       \/ \E k \in Slots : t.nextOffset = b + s.index.slots[k].off + 1

(* If it takes records, it goes on where s does. *)
GoesOn(s, t) ==
    IndexHasRoom(t.index) => IndexHasRoom(s.index) /\ t.nextOffset = s.nextOffset
-----------------------------------------------------------------------------
USE IndexAssumption DEF entryWidth, offWidth, posWidth

(* Entry k fits in the mapping if and only if k is a slot of it. *)
LEMMA SlotFits ==
  ASSUME NEW k \in Nat
  PROVE  k \in Slots <=> (k + 1) * 12 <= MaxIndexBytes
BY DEF Slots

(* newSegment over any index file that fits in the mapping. *)
LEMMA Reopens ==
  ASSUME NEW b \in Nat, NEW f,
         SlotsOK(f.index.slots),
         f.index.size \in Nat, f.index.size <= MaxIndexBytes
  PROVE  LET t == newSegment(b, f)
         IN  /\ t.index.size = f.index.size
             /\ SlotsOK(t.index.slots)
             /\ \A k \in Slots :
                   t.index.slots[k] = IF (k + 1) * 12 <= f.index.size
                                      THEN f.index.slots[k] ELSE ZeroEntry
             /\ f.index.size < 12 => t.nextOffset = b
             /\ f.index.size >= 12 =>
                   LET k == (f.index.size \div 12) - 1
                   IN  k \in Slots /\ t.nextOffset = b + f.index.slots[k].off + 1
<1> DEFINE idx == newIndex(f.index)
           t == newSegment(b, f)
           k == (f.index.size \div 12) - 1
<1>1. ZeroEntry.off = 0
  BY DEF ZeroEntry
<1>2. /\ idx.size = f.index.size
      /\ idx.slots = [j \in Slots |-> IF (j + 1) * 12 <= f.index.size
                                       THEN f.index.slots[j] ELSE ZeroEntry]
  BY DEF newIndex
<1>3. SlotsOK(idx.slots)
  BY <1>1, <1>2 DEF SlotsOK
<1>4. /\ t.index = idx
      /\ t.nextOffset = IF k >= 0 /\ IndexHas(idx, k) THEN b + idx.slots[k].off + 1 ELSE b
  BY <1>2 DEF newSegment, LastSlot
<1> HIDE DEF idx, t
<1>5. f.index.size < 12 => t.nextOffset = b
  <2>1. f.index.size < 12 => ~(k >= 0)
    OBVIOUS
  <2>2. QED
    BY <1>4, <2>1
<1>6. ASSUME f.index.size >= 12
      PROVE  k \in Slots /\ t.nextOffset = b + f.index.slots[k].off + 1
  <2>1. k \in Nat /\ (k + 1) * 12 <= f.index.size
    BY <1>6
  <2>2. k \in Slots
    BY <2>1, SlotFits
  <2>3. IndexHas(idx, k)
    BY <1>2, <1>6, <2>1 DEF IndexHas
  <2>4. idx.slots[k] = f.index.slots[k]
    BY <1>2, <2>1, <2>2
  <2>5. QED
    BY <1>4, <2>1, <2>2, <2>3, <2>4
<1>7. QED
  BY <1>2, <1>3, <1>4, <1>5, <1>6 DEF t

(* A segment over an index file of s owns no more than s names. *)
LEMMA OpenedDerives ==
  ASSUME NEW b \in Nat, NEW s, Sound(b, s), NEW f,
         f.index.slots = s.index.slots,
         f.index.size \in Nat, f.index.size <= MaxIndexBytes,
         f.index.size = s.index.size \/ f.index.size = MaxIndexBytes
  PROVE  LET t == newSegment(b, f)
         IN  Derived(b, s, t) /\ GoesOn(s, t)
<1> DEFINE t == newSegment(b, f)
           k == (f.index.size \div 12) - 1
<1>1. SlotsOK(s.index.slots) /\ s.index.size \in Nat /\ s.nextOffset \in Nat
  BY DEF Sound
<1>2. /\ t.index.size = f.index.size
      /\ SlotsOK(t.index.slots)
      /\ \A j \in Slots :
            t.index.slots[j] = IF (j + 1) * 12 <= f.index.size
                               THEN s.index.slots[j] ELSE ZeroEntry
      /\ f.index.size < 12 => t.nextOffset = b
      /\ f.index.size >= 12 =>
            k \in Slots /\ t.nextOffset = b + s.index.slots[k].off + 1
  <2>1. SlotsOK(f.index.slots)
    BY <1>1
  <2>2. /\ t.index.size = f.index.size
        /\ SlotsOK(t.index.slots)
        /\ \A j \in Slots :
              t.index.slots[j] = IF (j + 1) * 12 <= f.index.size
                                 THEN f.index.slots[j] ELSE ZeroEntry
        /\ f.index.size < 12 => t.nextOffset = b
        /\ f.index.size >= 12 =>
              k \in Slots /\ t.nextOffset = b + f.index.slots[k].off + 1
    BY <2>1, Reopens
  <2> HIDE DEF t, k
  <2>3. QED
    BY <2>2
<1> HIDE DEF t
<1>3. \A j \in Slots : /\ s.index.slots[j].off \in Nat
                       /\ t.index.slots[j].off \in {0, s.index.slots[j].off}
  BY <1>1, <1>2 DEF SlotsOK, ZeroEntry
<1>4. t.nextOffset \in Nat /\ b <= t.nextOffset
  BY <1>2, <1>3
<1>5. t.nextOffset = b \/ \E j \in Slots : t.nextOffset = b + s.index.slots[j].off + 1
  BY <1>2
<1>6. ASSUME IndexHasRoom(t.index)
      PROVE  /\ IndexHasRoom(s.index) /\ t.nextOffset = s.nextOffset
             /\ t.index.size = (t.nextOffset - b) * 12
             /\ \A j \in Slots :
                   t.index.slots[j].off = IF j < t.nextOffset - b THEN j ELSE 0
  <2>1. f.index.size = s.index.size /\ IndexHasRoom(s.index)
    BY <1>2, <1>6 DEF IndexHasRoom
  <2>2. PICK n \in Nat : n = s.nextOffset - b
    BY <1>1 DEF Sound
  <2>3. /\ s.index.size = n * 12
        /\ \A j \in Slots : s.index.slots[j].off = IF j < n THEN j ELSE 0
    BY <2>1, <2>2 DEF Sound
  <2>4. t.nextOffset = b + n
    <3>1. CASE n = 0
      BY <1>2, <2>1, <2>3, <3>1
    <3>2. CASE n > 0
      <4>1. f.index.size >= 12 /\ k = n - 1
        BY <2>1, <2>3, <3>2
      <4>2. s.index.slots[k].off = n - 1
        BY <1>2, <2>3, <3>2, <4>1
      <4>3. QED
        BY <1>2, <4>1, <4>2
    <3>3. QED
      BY <3>1, <3>2
  <2>5. t.nextOffset = s.nextOffset /\ t.nextOffset - b = n
    BY <1>1, <2>2, <2>4
  <2>6. ASSUME NEW j \in Slots PROVE t.index.slots[j].off = IF j < n THEN j ELSE 0
    <3>1. j \in Nat
      BY DEF Slots
    <3>2. (j + 1) * 12 <= n * 12 <=> j < n
      BY <3>1
    <3>3. QED
      BY <1>2, <2>1, <2>3, <3>2 DEF ZeroEntry
  <2>7. QED
    BY <1>2, <2>1, <2>3, <2>5, <2>6
<1>7. Sound(b, t)
  BY <1>2, <1>4, <1>6 DEF Sound
<1>8. Derived(b, s, t) /\ GoesOn(s, t)
  BY <1>3, <1>5, <1>6, <1>7 DEF Derived, GoesOn
<1>9. QED
  BY <1>8 DEF t

(* The files of a segment after Close and after a crash. *)
LEMMA CloseDerives ==
  ASSUME NEW b \in Nat, NEW s, Sound(b, s)
  PROVE  LET t == newSegment(b, SegmentClose(s)) IN Derived(b, s, t) /\ GoesOn(s, t)
<1>1. SegmentClose(s).index = s.index
  BY DEF SegmentClose
<1>2. s.index.size \in Nat /\ s.index.size <= MaxIndexBytes
  BY DEF Sound
<1>3. QED
  BY <1>1, <1>2, OpenedDerives

(* After a crash the index takes no entry, or none of its own. *)
LEMMA CrashDerives ==
  ASSUME NEW b \in Nat, NEW s, Sound(b, s)
  PROVE  LET t == newSegment(b, SegmentAfterCrash(s)) IN Derived(b, s, t) /\ GoesOn(s, t)
<1>1. /\ SegmentAfterCrash(s).index.slots = s.index.slots
      /\ SegmentAfterCrash(s).index.size = MaxIndexBytes
  BY DEF SegmentAfterCrash, IndexAfterCrash
<1>2. QED
  BY <1>1, OpenedDerives

(* A segment that only changed its store. *)
LEMMA SameIndexDerives ==
  ASSUME NEW b \in Nat, NEW s, NEW t, Sound(b, s),
         t.index = s.index, t.nextOffset = s.nextOffset
  PROVE  Derived(b, s, t) /\ GoesOn(s, t)
BY DEF Sound, Derived, GoesOn

(* A new segment is empty. *)
LEMMA FreshSound ==
  ASSUME NEW b \in Nat, NEW st
  PROVE  LET t == newSegment(b, [store |-> st, index |-> EmptyIndex])
         IN  /\ Sound(b, t) /\ t.nextOffset = b
             /\ \A k \in Slots : t.index.slots[k].off = 0
<1> DEFINE f == [store |-> st, index |-> EmptyIndex]
           t == newSegment(b, f)
<1>1. /\ f.index.slots = [k \in Slots |-> ZeroEntry] /\ f.index.size = 0
      /\ ZeroEntry.off = 0
  BY DEF EmptyIndex, ZeroEntry
<1>2. /\ t.index.size = 0 /\ t.nextOffset = b
      /\ SlotsOK(t.index.slots)
      /\ \A k \in Slots : t.index.slots[k] = ZeroEntry
  <2>1. SlotsOK(f.index.slots) /\ f.index.size \in Nat /\ f.index.size <= MaxIndexBytes
    BY <1>1 DEF SlotsOK
  <2> HIDE DEF f
  <2>2. QED
    BY <1>1, <2>1, Reopens
<1> HIDE DEF t
<1>3. Sound(b, t)
  BY <1>1, <1>2 DEF Sound, Slots
<1>4. QED
  BY <1>1, <1>2, <1>3 DEF t

(* segment.Append, when the index has room. *)
LEMMA AppendSound ==
  ASSUME NEW b \in Nat, NEW s, Sound(b, s), IndexHasRoom(s.index), NEW v
  PROVE  LET t == SegmentAppend(s, b, v)
         IN  /\ Sound(b, t) /\ t.nextOffset = s.nextOffset + 1
             /\ \A k \in Slots : b + t.index.slots[k].off < t.nextOffset
<1> DEFINE t == SegmentAppend(s, b, v)
<1>1. PICK n \in Nat : n = s.nextOffset - b
  BY DEF Sound
<1>2. /\ s.nextOffset \in Nat /\ SlotsOK(s.index.slots) /\ s.index.size = n * 12
      /\ \A k \in Slots : s.index.slots[k].off = IF k < n THEN k ELSE 0
  BY <1>1 DEF Sound
<1>3. n \in Slots /\ s.index.size \div 12 = n
  <2>1. (n + 1) * 12 <= MaxIndexBytes
    BY <1>2 DEF IndexHasRoom
  <2>2. QED
    BY <1>2, <2>1, SlotFits
<1>4. /\ t.nextOffset = s.nextOffset + 1 /\ t.index.size = n * 12 + 12
      /\ t.index.slots = [s.index.slots EXCEPT ![n] = [off |-> n, pos |-> s.store.size]]
  BY <1>1, <1>2, <1>3 DEF SegmentAppend, IndexWrite, SlotsOK
<1> HIDE DEF t
<1>5. SlotsOK(t.index.slots)
  BY <1>2, <1>3, <1>4 DEF SlotsOK
<1>6. ASSUME NEW k \in Slots
      PROVE  /\ t.index.slots[k].off = IF k < n + 1 THEN k ELSE 0
             /\ b + t.index.slots[k].off < t.nextOffset
  <2>1. k \in Nat
    BY DEF Slots
  <2>2. t.index.slots[k].off = IF k = n THEN n ELSE IF k < n THEN k ELSE 0
    <3>1. CASE k = n
      <4>1. t.index.slots[k] = [off |-> n, pos |-> s.store.size]
        BY <1>2, <1>3, <1>4, <3>1 DEF SlotsOK
      <4>2. QED
        BY <3>1, <4>1
    <3>2. CASE k # n
      <4>1. t.index.slots[k] = s.index.slots[k]
        BY <1>2, <1>4, <3>2 DEF SlotsOK
      <4>2. QED
        BY <1>2, <3>2, <4>1
    <3>3. QED
      BY <3>1, <3>2
  <2>3. t.index.slots[k].off = IF k < n + 1 THEN k ELSE 0
    BY <2>1, <2>2
  <2>4. t.index.slots[k].off <= n
    BY <2>1, <2>3
  <2>5. QED
    BY <1>1, <1>2, <1>4, <2>1, <2>3, <2>4
<1>7. t.nextOffset \in Nat /\ b <= t.nextOffset /\ t.nextOffset - b = n + 1
  BY <1>1, <1>2, <1>4
<1>8. t.index.size \in Nat /\ t.index.size <= MaxIndexBytes /\ t.index.size = (n + 1) * 12
  BY <1>2, <1>4 DEF IndexHasRoom
<1>9. Sound(b, t)
  BY <1>5, <1>6, <1>7, <1>8 DEF Sound
<1>10. QED
  BY <1>4, <1>6, <1>9 DEF t
-----------------------------------------------------------------------------
(* The last segment is one. *)
LEMMA OneLast ==
  ASSUME NEW S, S \subseteq Nat, NEW a, IsLast(a, S), NEW b, IsLast(b, S)
  PROVE  a = b
BY DEF IsLast

(* Segments that own no more than the indexes of others name. *)
LEMMA DerivedTiled ==
  ASSUME NEW segs, NEW new, Tiled(segs), DOMAIN new \subseteq DOMAIN segs,
         \A b \in DOMAIN new : Derived(b, segs[b], new[b])
  PROVE  Tiled(new)
<1>1. DOMAIN new \subseteq Nat /\ \A b \in DOMAIN new : Sound(b, new[b])
  BY DEF Tiled, Derived
<1>2. ASSUME NEW b \in DOMAIN new, NEW c \in DOMAIN new, b < c
      PROVE  /\ new[b].nextOffset <= c
             /\ \A k \in Slots : b + new[b].index.slots[k].off < c
  <2>1. /\ b \in Nat /\ c \in Nat /\ segs[b].nextOffset <= c
        /\ \A k \in Slots : b + segs[b].index.slots[k].off < c
    BY <1>2 DEF Tiled, Apart
  <2>2. \A k \in Slots : segs[b].index.slots[k].off \in Nat
    BY DEF Tiled, Sound, SlotsOK
  <2>3. Derived(b, segs[b], new[b])
    OBVIOUS
  <2>4. new[b].nextOffset <= c
    <3>1. CASE new[b].nextOffset \in {b, segs[b].nextOffset}
      BY <1>2, <2>1, <3>1
    <3>2. CASE \E k \in Slots : new[b].nextOffset = b + segs[b].index.slots[k].off + 1
      BY <2>1, <2>2, <3>2
    <3>3. QED
      BY <2>3, <3>1, <3>2 DEF Derived
  <2>5. ASSUME NEW k \in Slots PROVE b + new[b].index.slots[k].off < c
    <3>1. new[b].index.slots[k].off \in {0, segs[b].index.slots[k].off}
      BY <2>3 DEF Derived
    <3>2. b + segs[b].index.slots[k].off < c /\ b + 0 < c
      BY <1>2, <2>1
    <3>3. QED
      BY <3>1, <3>2
  <2>6. QED
    BY <2>4, <2>5
<1>3. QED
  BY <1>1, <1>2 DEF Tiled, Apart

(* ... of which the last goes on where it did. *)
LEMMA DerivedRemembers ==
  ASSUME NEW segs, NEW new, Tiled(segs), DOMAIN new \subseteq DOMAIN segs,
         NEW A, NEW G, Remembers(segs, A, G),
         NEW l \in DOMAIN new, IsLast(l, DOMAIN segs), GoesOn(segs[l], new[l])
  PROVE  Remembers(new, A, G) /\ IsLast(l, DOMAIN new)
<1>1. IsLast(l, DOMAIN new) /\ DOMAIN new \subseteq Nat
  BY DEF IsLast, Tiled
<1>2. \A b \in DOMAIN new : IsLast(b, DOMAIN new) => b = l
  BY <1>1, OneLast
<1>3. IndexHasRoom(new[l].index) => \A a \in A : a < new[l].nextOffset
  BY DEF Remembers, GoesOn
<1>4. QED
  BY <1>1, <1>2, <1>3 DEF Remembers

(* An Append to the last segment, which hands out its next offset. *)
LEMMA AppendTiled ==
  ASSUME NEW segs, Tiled(segs), NEW a, IsLast(a, DOMAIN segs), NEW v,
         IndexHasRoom(segs[a].index),
         NEW A \in SUBSET Nat, NEW G, Remembers(segs, A, G)
  PROVE  LET new == [segs EXCEPT ![a] = SegmentAppend(segs[a], a, v)]
         IN  /\ Tiled(new) /\ DOMAIN new = DOMAIN segs
             /\ new[a].nextOffset = segs[a].nextOffset + 1
             /\ \A k \in Slots : a + new[a].index.slots[k].off < new[a].nextOffset
             /\ \A x \in A \cup {segs[a].nextOffset} : x < new[a].nextOffset
             /\ Remembers(new, A \cup {segs[a].nextOffset}, G)
<1> DEFINE t == SegmentAppend(segs[a], a, v)
           new == [segs EXCEPT ![a] = t]
<1>1. a \in DOMAIN segs /\ a \in Nat /\ Sound(a, segs[a]) /\ segs[a].nextOffset \in Nat
  BY DEF IsLast, Tiled, Sound
<1>2. /\ Sound(a, t) /\ t.nextOffset = segs[a].nextOffset + 1
      /\ \A k \in Slots : a + t.index.slots[k].off < t.nextOffset
  BY <1>1, AppendSound
<1> HIDE DEF t
<1>3. /\ DOMAIN new = DOMAIN segs /\ new[a] = t
      /\ \A b \in DOMAIN segs : b # a => new[b] = segs[b]
  BY <1>1
<1> HIDE DEF new
<1>4. Tiled(new)
  <2>1. \A b \in DOMAIN new : Sound(b, new[b])
    BY <1>2, <1>3 DEF Tiled
  <2>2. \A b, c \in DOMAIN new : b < c => b # a
    BY <1>1, <1>3 DEF IsLast, Tiled
  <2>3. Apart(new)
    BY <1>3, <2>2 DEF Tiled, Apart
  <2>4. QED
    BY <1>3, <2>1, <2>3 DEF Tiled
<1>5. /\ \A x \in A \cup {segs[a].nextOffset} : x < t.nextOffset
      /\ Remembers(new, A \cup {segs[a].nextOffset}, G)
  <2>1. \A b \in DOMAIN new : IsLast(b, DOMAIN new) => b = a
    BY <1>3, OneLast DEF Tiled
  <2>2. \A x \in A \cup {segs[a].nextOffset} : x < t.nextOffset
    <3>1. \A x \in A : x \in Nat /\ x < segs[a].nextOffset
      BY <1>1 DEF Remembers
    <3>2. QED
      BY <1>1, <1>2, <3>1
  <2>3. QED
    BY <1>1, <1>3, <2>1, <2>2 DEF Remembers
<1>6. QED
  BY <1>2, <1>3, <1>4, <1>5 DEF new, t

(* A new segment at the next offset of the last. *)
LEMMA RollTiled ==
  ASSUME NEW segs, Tiled(segs), NEW a, IsLast(a, DOMAIN segs),
         a < segs[a].nextOffset,
         \A k \in Slots : a + segs[a].index.slots[k].off < segs[a].nextOffset,
         NEW A, NEW G \in SUBSET Nat, Remembers(segs, A, G),
         \A x \in A : x < segs[a].nextOffset
  PROVE  LET off == segs[a].nextOffset
             new == Put(segs, off, newSegment(off, NewFiles))
         IN  Tiled(new) /\ Remembers(new, A, G) /\ IsLast(off, DOMAIN new)
<1> DEFINE off == segs[a].nextOffset
           t == newSegment(off, NewFiles)
           new == Put(segs, off, t)
<1>1. a \in DOMAIN segs /\ a \in Nat /\ off \in Nat
  BY DEF IsLast, Tiled, Sound
<1>2. /\ Sound(off, t) /\ t.nextOffset = off
  BY <1>1, FreshSound DEF NewFiles
<1> HIDE DEF t, off
<1>3. \A b \in DOMAIN segs : b \in Nat /\ b <= a /\ b < off
  BY <1>1 DEF IsLast, Tiled, off
<1>4. /\ DOMAIN new = DOMAIN segs \cup {off} /\ new[off] = t
      /\ \A b \in DOMAIN segs : new[b] = segs[b]
  BY <1>3 DEF Put
<1> HIDE DEF new
<1>5. IsLast(off, DOMAIN new) /\ DOMAIN new \subseteq Nat
  BY <1>1, <1>3, <1>4 DEF IsLast
<1>6. \A b \in DOMAIN new : Sound(b, new[b])
  BY <1>2, <1>4 DEF Tiled
<1>7. ASSUME NEW b \in DOMAIN new, NEW c \in DOMAIN new, b < c
      PROVE  /\ new[b].nextOffset <= c
             /\ \A k \in Slots : b + new[b].index.slots[k].off < c
  <2>1. b \in DOMAIN segs /\ b \in Nat /\ c \in Nat
    BY <1>1, <1>3, <1>4, <1>7
  <2>2. CASE c \in DOMAIN segs
    BY <1>4, <1>7, <2>1, <2>2 DEF Tiled, Apart
  <2>3. CASE c = off /\ b = a
    BY <1>1, <1>4, <2>1, <2>3 DEF off
  <2>4. CASE c = off /\ b # a
    <3>1. b < a
      BY <1>1, <1>3, <2>1, <2>4
    <3>2. /\ segs[b].nextOffset \in Nat /\ segs[b].nextOffset <= a
          /\ \A k \in Slots : /\ segs[b].index.slots[k].off \in Nat
                              /\ b + segs[b].index.slots[k].off < a
      BY <1>1, <2>1, <3>1 DEF Tiled, Apart, Sound, SlotsOK
    <3>3. QED
      BY <1>1, <1>3, <1>4, <2>1, <2>4, <3>2
  <2>5. QED
    BY <1>4, <2>2, <2>3, <2>4
<1>8. Tiled(new)
  BY <1>5, <1>6, <1>7 DEF Tiled, Apart
<1>9. Remembers(new, A, G)
  <2>1. \A b \in DOMAIN new : IsLast(b, DOMAIN new) => b = off
    BY <1>5, OneLast
  <2>2. \A g \in G, b \in DOMAIN new : g < b
    <3>1. \A g \in G : g < a
      BY <1>1 DEF Remembers
    <3>2. QED
      BY <1>1, <1>3, <1>4, <3>1 DEF Remembers
  <2>3. QED
    BY <1>2, <1>4, <1>5, <2>1, <2>2 DEF Remembers, off
<1>10. QED
  BY <1>5, <1>8, <1>9 DEF new, t, off

(* Fewer acknowledged offsets are easier to remember. *)
LEMMA RemembersLess ==
  ASSUME NEW segs, NEW A, NEW B, B \subseteq A, NEW G, Remembers(segs, A, G)
  PROVE  Remembers(segs, B, G)
BY DEF Remembers

(* What opening makes of files that hold no more than the segments did. *)
LEMMA OpenedTiled ==
  ASSUME NEW segs, Tiled(segs), NEW A, NEW G, Remembers(segs, A, G),
         NEW l, IsLast(l, DOMAIN segs),
         NEW files, DOMAIN files \subseteq DOMAIN segs, l \in DOMAIN files,
         \A b \in DOMAIN files : Derived(b, segs[b], newSegment(b, files[b])),
         GoesOn(segs[l], newSegment(l, files[l]))
  PROVE  Tiled(Opened(files)) /\ Remembers(Opened(files), A, G)
<1> DEFINE new == Opened(files)
<1>1. DOMAIN new = DOMAIN files /\ \A b \in DOMAIN files : new[b] = newSegment(b, files[b])
  BY DEF Opened
<1> HIDE DEF new
<1>2. Tiled(new)
  BY <1>1, DerivedTiled
<1>3. Remembers(new, A, G)
  BY <1>1, DerivedRemembers
<1>4. QED
  BY <1>2, <1>3 DEF new

(* The process dies, between two operations. *)
LEMMA LeftTiled ==
  ASSUME NEW segs, Tiled(segs), NEW A, NEW G, Remembers(segs, A, G),
         NEW l, IsLast(l, DOMAIN segs)
  PROVE  Tiled(Opened(LeftBy(segs))) /\ Remembers(Opened(LeftBy(segs)), A, G)
<1> DEFINE files == LeftBy(segs)
<1>1. DOMAIN files = DOMAIN segs /\ \A b \in DOMAIN segs : files[b] = SegmentAfterCrash(segs[b])
  BY DEF LeftBy
<1>2. l \in DOMAIN segs /\ \A b \in DOMAIN segs : b \in Nat /\ Sound(b, segs[b])
  BY DEF IsLast, Tiled
<1> HIDE DEF files
<1>3. \A b \in DOMAIN files : /\ Derived(b, segs[b], newSegment(b, files[b]))
                              /\ GoesOn(segs[b], newSegment(b, files[b]))
  BY <1>1, <1>2, CrashDerives
<1>4. Tiled(Opened(files)) /\ Remembers(Opened(files), A, G)
  BY <1>1, <1>2, <1>3, OpenedTiled
<1>5. QED
  BY <1>4 DEF files
-----------------------------------------------------------------------------
(* What the invariant says while the log is open. *)
LEMMA OpenFacts ==
  ASSUME KInv, proc = "open"
  PROVE  /\ Seen = segments /\ Tiled(segments) /\ Remembers(segments, acked, gone)
         /\ IsLast(activeSegment, DOMAIN segments) /\ activeSegment \in DOMAIN segments
         /\ acked \in SUBSET Nat /\ gone \in SUBSET Nat
BY DEF KInv, Seen, IsLast

(* How the invariant is shown of a log that is open in the next state ... *)
LEMMA StaysOpen ==
  ASSUME proc' = "open", acked' \subseteq Nat, gone' \subseteq Nat, Tiled(segments'),
         Remembers(segments', acked', gone'), IsLast(activeSegment', DOMAIN segments')
  PROVE  KInv'
<1>1. Seen' = segments'
  BY DEF Seen
<1>2. QED
  BY <1>1 DEF KInv

(* ... and of one that is not. *)
LEMMA NotOpen ==
  ASSUME proc' \in {"down", "closed"}, acked' \subseteq Nat, gone' \subseteq Nat,
         Tiled(segments'), Tiled(Opened(dir')), Remembers(Opened(dir'), acked', gone')
  PROVE  KInv'
<1>1. Seen' = Opened(dir')
  BY DEF Seen, Opened
<1>2. QED
  BY <1>1 DEF KInv

(* A directory without files, or no segments. *)
LEMMA NothingTiled ==
  /\ Tiled(EmptyMap) /\ Tiled(Opened(EmptyMap))
  /\ Remembers(Opened(EmptyMap), {}, {})
<1>1. DOMAIN EmptyMap = {} /\ DOMAIN Opened(EmptyMap) = {}
  BY DEF EmptyMap, Opened
<1>2. QED
  BY <1>1 DEF Tiled, Apart, Remembers

(* The process dies, and opening the files would make a sound log. *)
LEMMA DiesInv ==
  ASSUME KInv, UNCHANGED <<acked, gone>>, NEW files, DieLeaving(files),
         Tiled(Opened(files)), Remembers(Opened(files), acked, gone)
  PROVE  KInv'
<1>1. /\ proc' = "down" /\ segments' = EmptyMap /\ dir' = files
      /\ acked' = acked /\ gone' = gone /\ acked \subseteq Nat /\ gone \subseteq Nat
  BY DEF DieLeaving, KInv
<1>2. Tiled(segments')
  BY <1>1, NothingTiled
<1>3. QED
  BY <1>1, <1>2, NotOpen

(* Open. *)
LEMMA OpenInv ==
  ASSUME KInv, Open, UNCHANGED <<acked, gone>>
  PROVE  KInv'
<1>1. /\ proc = "down" /\ proc' = "open" /\ acked' = acked /\ gone' = gone
      /\ acked \subseteq Nat /\ gone \subseteq Nat
  BY DEF Open, KInv
<1>2. /\ Tiled(Opened(dir)) /\ Remembers(Opened(dir), acked, gone)
      /\ DOMAIN Opened(dir) = DOMAIN dir
  BY <1>1 DEF KInv, Seen, Opened
<1>3. CASE DOMAIN dir # {}
  <2>1. segments' = Opened(dir) /\ IsLast(activeSegment', DOMAIN dir)
    BY <1>3 DEF Open, Bases, Opened
  <2>2. QED
    BY <1>1, <1>2, <2>1, StaysOpen
<1>4. CASE DOMAIN dir = {}
  <2> DEFINE t == newSegment(InitialOffset, NewFiles)
  <2>1. InitialOffset \in Nat
    BY LogAssumption, StoreAssumption DEF Offset
  <2>2. Sound(InitialOffset, t) /\ t.nextOffset = InitialOffset
    BY <2>1, FreshSound DEF NewFiles
  <2>3. /\ DOMAIN segments' = {InitialOffset} /\ segments'[InitialOffset] = t
        /\ activeSegment' = InitialOffset
    BY <1>4 DEF Open, Bases
  <2> HIDE DEF t
  <2>4. IsLast(activeSegment', DOMAIN segments')
    BY <2>1, <2>3 DEF IsLast
  <2>5. Tiled(segments')
    BY <2>1, <2>2, <2>3 DEF Tiled, Apart
  <2>6. acked = {} /\ gone = {}
    BY <1>2, <1>4 DEF Remembers
  <2>7. Remembers(segments', acked', gone')
    BY <1>1, <2>6 DEF Remembers
  <2>8. QED
    BY <1>1, <2>4, <2>5, <2>7, StaysOpen
<1>5. QED
  BY <1>3, <1>4

(* A segment gets another store: the effect of Read, and of a refused Append. *)
LEMMA NewStoreTiled ==
  ASSUME NEW segs, Tiled(segs), NEW A, NEW G, Remembers(segs, A, G),
         NEW l, IsLast(l, DOMAIN segs), NEW b \in DOMAIN segs, NEW t,
         t.index = segs[b].index, t.nextOffset = segs[b].nextOffset
  PROVE  LET new == [segs EXCEPT ![b] = t]
         IN  Tiled(new) /\ Remembers(new, A, G) /\ IsLast(l, DOMAIN new)
<1> DEFINE new == [segs EXCEPT ![b] = t]
<1>1. /\ DOMAIN new = DOMAIN segs /\ l \in DOMAIN new
      /\ \A c \in DOMAIN segs : /\ c \in Nat /\ Sound(c, segs[c])
                                /\ new[c].index = segs[c].index
                                /\ new[c].nextOffset = segs[c].nextOffset
  BY DEF IsLast, Tiled
<1> HIDE DEF new
<1>2. \A c \in DOMAIN new : Derived(c, segs[c], new[c]) /\ GoesOn(segs[c], new[c])
  BY <1>1, SameIndexDerives
<1>3. Tiled(new)
  BY <1>1, <1>2, DerivedTiled
<1>4. Remembers(new, A, G) /\ IsLast(l, DOMAIN new)
  BY <1>1, <1>2, DerivedRemembers
<1>5. QED
  BY <1>3, <1>4 DEF new

(* Read. *)
LEMMA ReadInv ==
  ASSUME KInv, NEW off \in Offset, Read(off), UNCHANGED <<acked, gone>>
  PROVE  KInv'
<1>1. /\ proc = "open" /\ proc' = proc /\ activeSegment' = activeSegment
      /\ acked' = acked /\ gone' = gone
  BY DEF Read
<1>2. PICK b \in DOMAIN segments : segments' = [segments EXCEPT ![b] = SegmentFlush(@)]
  BY DEF Read
<1> DEFINE t == SegmentFlush(segments[b])
<1>3. t.index = segments[b].index /\ t.nextOffset = segments[b].nextOffset
  BY DEF SegmentFlush
<1>4. segments' = [segments EXCEPT ![b] = t]
  BY <1>2
<1> HIDE DEF t
<1>5. Tiled(segments') /\ Remembers(segments', acked, gone) /\ IsLast(activeSegment, DOMAIN segments')
  BY <1>1, <1>3, <1>4, OpenFacts, NewStoreTiled
<1>6. QED
  BY <1>1, <1>5, OpenFacts, StaysOpen

(* The segments after a refused Append. *)
LEMMA RefusedTiled ==
  ASSUME KInv, CanAppend, NEW v
  PROVE  LET new == [segments EXCEPT ![activeSegment] = SegmentRefuse(@, v)]
         IN  Tiled(new) /\ Remembers(new, acked, gone) /\ IsLast(activeSegment, DOMAIN new)
<1> DEFINE t == SegmentRefuse(segments[activeSegment], v)
<1>1. proc = "open"
  BY DEF CanAppend
<1>2. t.index = segments[activeSegment].index /\ t.nextOffset = segments[activeSegment].nextOffset
  BY DEF SegmentRefuse
<1> HIDE DEF t
<1>3. LET new == [segments EXCEPT ![activeSegment] = t]
      IN  Tiled(new) /\ Remembers(new, acked, gone) /\ IsLast(activeSegment, DOMAIN new)
  BY <1>1, <1>2, OpenFacts, NewStoreTiled
<1>4. QED
  BY <1>3 DEF t

(* An Append that the index refuses. *)
LEMMA RefusedInv ==
  ASSUME KInv, NEW v \in Value, AppendRefused(v), UNCHANGED <<acked, gone>>
  PROVE  KInv'
<1>1. /\ CanAppend /\ proc = "open" /\ proc' = proc /\ activeSegment' = activeSegment
      /\ segments' = [segments EXCEPT ![activeSegment] = SegmentRefuse(@, v)]
      /\ acked' = acked /\ gone' = gone
  BY DEF AppendRefused, CanAppend
<1>2. Tiled(segments') /\ Remembers(segments', acked, gone) /\ IsLast(activeSegment, DOMAIN segments')
  BY <1>1, RefusedTiled
<1>3. QED
  BY <1>1, <1>2, OpenFacts, StaysOpen

(* The segments after an Append that the index takes. *)
LEMMA AppendedTiled ==
  ASSUME KInv, CanAppend, IndexHasRoom(segments[activeSegment].index), NEW v
  PROVE  LET new == [segments EXCEPT ![activeSegment] = Appended(v)]
             off == segments[activeSegment].nextOffset
         IN  /\ Tiled(new) /\ IsLast(activeSegment, DOMAIN new)
             /\ off \in Nat /\ activeSegment <= off /\ activeSegment \in Nat
             /\ new[activeSegment].nextOffset = off + 1
             /\ Appended(v).nextOffset = off + 1
             /\ \A k \in Slots :
                   activeSegment + new[activeSegment].index.slots[k].off < off + 1
             /\ \A x \in acked \cup {off} : x < off + 1
             /\ Remembers(new, acked \cup {off}, gone)
             /\ Remembers(new, acked, gone)
<1> DEFINE new == [segments EXCEPT ![activeSegment] = Appended(v)]
           off == segments[activeSegment].nextOffset
<1>1. proc = "open"
  BY DEF CanAppend
<1>2. activeSegment \in Nat /\ off \in Nat /\ activeSegment <= off
  BY <1>1, OpenFacts DEF Tiled, Sound
<1>3. /\ Tiled(new) /\ DOMAIN new = DOMAIN segments
      /\ new[activeSegment].nextOffset = off + 1
      /\ \A k \in Slots : activeSegment + new[activeSegment].index.slots[k].off
                             < new[activeSegment].nextOffset
      /\ \A x \in acked \cup {off} : x < new[activeSegment].nextOffset
      /\ Remembers(new, acked \cup {off}, gone)
  BY <1>1, OpenFacts, AppendTiled DEF Appended
<1>4. new[activeSegment] = Appended(v)
  BY <1>1, OpenFacts
<1> HIDE DEF new, off
<1>5. Remembers(new, acked, gone)
  BY <1>3, RemembersLess
<1>6. QED
  BY <1>1, <1>2, <1>3, <1>4, <1>5, OpenFacts DEF new, off

(* An Append to the active segment, whether or not the caller is told. *)
LEMMA InPlaceInv ==
  ASSUME KInv, NEW v \in Value, AppendInPlace(v), UNCHANGED gone,
         acked' \in {acked, acked \cup {segments[activeSegment].nextOffset}}
  PROVE  KInv'
<1> DEFINE off == segments[activeSegment].nextOffset
<1>1. /\ CanAppend /\ IndexHasRoom(segments[activeSegment].index)
      /\ proc = "open" /\ proc' = proc /\ activeSegment' = activeSegment
      /\ segments' = [segments EXCEPT ![activeSegment] = Appended(v)]
      /\ gone' = gone
  BY DEF AppendInPlace, CanAppend
<1>2. /\ Tiled(segments') /\ IsLast(activeSegment, DOMAIN segments') /\ off \in Nat
      /\ Remembers(segments', acked \cup {off}, gone) /\ Remembers(segments', acked, gone)
  BY <1>1, AppendedTiled
<1>3. acked' \subseteq Nat /\ Remembers(segments', acked', gone)
  BY <1>1, <1>2, OpenFacts
<1>4. QED
  BY <1>1, <1>2, <1>3, OpenFacts, StaysOpen

(* The segments after an Append that rolls over. *)
LEMMA RolledTiled ==
  ASSUME KInv, CanAppend, IndexHasRoom(segments[activeSegment].index), NEW v
  PROVE  LET old == segments[activeSegment].nextOffset
             off == Appended(v).nextOffset
             new == Put([segments EXCEPT ![activeSegment] = Appended(v)],
                        off, newSegment(off, NewFiles))
         IN  /\ Tiled(new) /\ IsLast(off, DOMAIN new) /\ old \in Nat
             /\ Remembers(new, acked \cup {old}, gone) /\ Remembers(new, acked, gone)
<1> DEFINE old == segments[activeSegment].nextOffset
           off == Appended(v).nextOffset
           mid == [segments EXCEPT ![activeSegment] = Appended(v)]
           new == Put(mid, off, newSegment(off, NewFiles))
<1>1. gone \in SUBSET Nat
  BY DEF KInv
<1>2. /\ Tiled(mid) /\ IsLast(activeSegment, DOMAIN mid)
      /\ old \in Nat /\ activeSegment \in Nat /\ activeSegment <= old
      /\ mid[activeSegment].nextOffset = old + 1 /\ off = old + 1
      /\ \A k \in Slots : activeSegment + mid[activeSegment].index.slots[k].off < old + 1
      /\ \A x \in acked \cup {old} : x < old + 1
      /\ Remembers(mid, acked \cup {old}, gone)
  BY AppendedTiled
<1> HIDE DEF mid, old, off
<1>3. activeSegment < mid[activeSegment].nextOffset /\ mid[activeSegment].nextOffset = off
  BY <1>2
<1>4. Tiled(new) /\ Remembers(new, acked \cup {old}, gone) /\ IsLast(off, DOMAIN new)
  BY <1>1, <1>2, <1>3, RollTiled
<1> HIDE DEF new
<1>5. Remembers(new, acked, gone)
  BY <1>4, RemembersLess
<1>6. QED
  BY <1>2, <1>4, <1>5 DEF new, mid, old, off

(* An Append that rolls over to a new segment. *)
LEMMA RollInv ==
  ASSUME KInv, NEW v \in Value, AppendRoll(v), UNCHANGED gone,
         acked' = acked \cup {segments[activeSegment].nextOffset}
  PROVE  KInv'
<1> DEFINE off == Appended(v).nextOffset
<1>1. /\ CanAppend /\ IndexHasRoom(segments[activeSegment].index)
      /\ proc = "open" /\ proc' = proc /\ activeSegment' = off
      /\ segments' = Put([segments EXCEPT ![activeSegment] = Appended(v)],
                         off, newSegment(off, NewFiles))
      /\ gone' = gone
  BY DEF AppendRoll, CanAppend
<1>2. /\ Tiled(segments') /\ IsLast(off, DOMAIN segments')
      /\ segments[activeSegment].nextOffset \in Nat
      /\ Remembers(segments', acked', gone)
  BY <1>1, RolledTiled
<1> HIDE DEF off
<1>3. acked' \subseteq Nat /\ gone' \subseteq Nat
  BY <1>1, <1>2, OpenFacts
<1>4. QED
  BY <1>1, <1>2, <1>3, StaysOpen

(* Death between two operations. *)
LEMMA CrashInv ==
  ASSUME KInv, Crash, UNCHANGED <<acked, gone>>
  PROVE  KInv'
<1>1. proc = "open" /\ DieLeaving(LeftBy(segments))
  BY DEF Crash
<1>2. Tiled(Opened(LeftBy(segments))) /\ Remembers(Opened(LeftBy(segments)), acked, gone)
  BY <1>1, OpenFacts, LeftTiled
<1>3. QED
  BY <1>1, <1>2, DiesInv

(* Death inside Append. *)
LEMMA CrashInAppendInv ==
  ASSUME KInv, NEW v \in Value, CrashInAppend(v), UNCHANGED <<acked, gone>>
  PROVE  KInv'
<1> DEFINE wrote   == [segments EXCEPT ![activeSegment] = SegmentRefuse(@, v)]
           indexed == [segments EXCEPT ![activeSegment] = Appended(v)]
           off     == Appended(v).nextOffset
           files   == Put(LeftBy(indexed), off, NewFiles)
<1>1. CanAppend /\ proc = "open"
  BY DEF CrashInAppend, CanAppend
<1>2. CASE DieLeaving(LeftBy(wrote))
  <2>1. Tiled(wrote) /\ Remembers(wrote, acked, gone) /\ IsLast(activeSegment, DOMAIN wrote)
    BY <1>1, RefusedTiled
  <2> HIDE DEF wrote
  <2>2. Tiled(Opened(LeftBy(wrote))) /\ Remembers(Opened(LeftBy(wrote)), acked, gone)
    BY <2>1, LeftTiled
  <2>3. QED
    BY <1>2, <2>2, DiesInv
<1>3. CASE IndexHasRoom(segments[activeSegment].index) /\ DieLeaving(LeftBy(indexed))
  <2>1. Tiled(indexed) /\ Remembers(indexed, acked, gone) /\ IsLast(activeSegment, DOMAIN indexed)
    BY <1>1, <1>3, AppendedTiled
  <2> HIDE DEF indexed
  <2>2. Tiled(Opened(LeftBy(indexed))) /\ Remembers(Opened(LeftBy(indexed)), acked, gone)
    BY <2>1, LeftTiled
  <2>3. QED
    BY <1>3, <2>2, DiesInv
<1>4. CASE IndexHasRoom(segments[activeSegment].index) /\ DieLeaving(files)
  <2> DEFINE t    == newSegment(off, NewFiles)
             segs == Put(indexed, off, t)
  <2>1. Tiled(segs) /\ IsLast(off, DOMAIN segs) /\ Remembers(segs, acked, gone)
    BY <1>1, <1>4, RolledTiled
  <2>2. /\ DOMAIN files = DOMAIN segs /\ files[off] = NewFiles /\ segs[off] = t
        /\ off \in DOMAIN files
        /\ \A b \in DOMAIN files : b # off => files[b] = SegmentAfterCrash(segs[b])
    BY DEF Put, LeftBy
  <2> HIDE DEF files, segs, indexed, off
  <2>3. \A b \in DOMAIN segs : b \in Nat /\ Sound(b, segs[b])
    BY <2>1 DEF Tiled
  <2>4. /\ Derived(off, segs[off], newSegment(off, files[off]))
        /\ GoesOn(segs[off], newSegment(off, files[off]))
    <3>1. newSegment(off, files[off]) = segs[off]
      BY <2>2
    <3>2. QED
      BY <2>2, <2>3, <3>1, SameIndexDerives
  <2>5. \A b \in DOMAIN files : Derived(b, segs[b], newSegment(b, files[b]))
    BY <2>2, <2>3, <2>4, CrashDerives
  <2>6. Tiled(Opened(files)) /\ Remembers(Opened(files), acked, gone)
    BY <2>1, <2>2, <2>4, <2>5, OpenedTiled
  <2>7. QED
    BY <1>4, <2>6, DiesInv
<1>5. QED
  BY <1>2, <1>3, <1>4 DEF CrashInAppend

(* Close. *)
LEMMA CloseInv ==
  ASSUME KInv, Close, UNCHANGED <<acked, gone>>
  PROVE  KInv'
<1> DEFINE files == [b \in DOMAIN segments |-> SegmentClose(segments[b])]
<1>1. /\ proc = "open" /\ proc' = "closed" /\ dir' = files /\ segments' = segments
      /\ acked' = acked /\ gone' = gone
  BY DEF Close
<1>2. /\ DOMAIN files = DOMAIN segments
      /\ \A b \in DOMAIN segments : files[b] = SegmentClose(segments[b])
  OBVIOUS
<1> HIDE DEF files
<1>3. \A b \in DOMAIN segments : b \in Nat /\ Sound(b, segments[b])
  BY <1>1, OpenFacts DEF Tiled
<1>4. \A b \in DOMAIN files : /\ Derived(b, segments[b], newSegment(b, files[b]))
                              /\ GoesOn(segments[b], newSegment(b, files[b]))
  BY <1>2, <1>3, CloseDerives
<1>5. Tiled(Opened(files)) /\ Remembers(Opened(files), acked, gone)
  BY <1>1, <1>2, <1>4, OpenFacts, OpenedTiled
<1>6. QED
  BY <1>1, <1>5, OpenFacts, NotOpen

(* Remove, after which nothing is remembered. *)
LEMMA RemoveInv ==
  ASSUME KInv, Remove, acked' = {}, gone' = {}
  PROVE  KInv'
<1>1. proc = "open" /\ proc' = "closed" /\ dir' = EmptyMap /\ segments' = segments
  BY DEF Remove
<1>2. QED
  BY <1>1, OpenFacts, NothingTiled, NotOpen

(* Exit. *)
LEMMA ExitInv ==
  ASSUME KInv, Exit, UNCHANGED <<acked, gone>>
  PROVE  KInv'
<1>1. /\ proc = "closed" /\ proc' = "down" /\ dir' = dir /\ segments' = EmptyMap
      /\ acked' = acked /\ gone' = gone
  BY DEF Exit
<1>2. /\ Tiled(Opened(dir)) /\ Remembers(Opened(dir), acked, gone)
      /\ acked \subseteq Nat /\ gone \subseteq Nat
  BY <1>1 DEF KInv, Seen, Opened
<1>3. QED
  BY <1>1, <1>2, NothingTiled, NotOpen

(* A caller that keeps a record keeps the active segment. *)
LEMMA KeepsActive ==
  ASSUME KInv, proc = "open", TrailingLogs > 0, NEW lowest \in CompactArgs
  PROVE  lowest \in Nat /\ activeSegment \in Kept(lowest)
<1>1. TrailingLogs \in Nat /\ \A n \in Offset : n \in Nat
  BY LogAssumption, StoreAssumption DEF Offset
<1>2. lowest \in Nat
  BY <1>1 DEF CompactArgs
<1>3. PICK h \in Nat : IsHighest(h) /\ lowest + TrailingLogs <= h
  BY <1>1 DEF CompactArgs
<1>4. /\ activeSegment \in DOMAIN segments /\ segments[activeSegment].nextOffset \in Nat
      /\ \A b \in DOMAIN segments : IsLast(b, DOMAIN segments) => b = activeSegment
  BY OpenFacts, OneLast DEF Tiled, Sound
<1>5. h = IF segments[activeSegment].nextOffset = 0 THEN 0
          ELSE segments[activeSegment].nextOffset - 1
  BY <1>3, <1>4 DEF IsHighest
<1>6. segments[activeSegment].nextOffset > lowest + 1
  BY <1>1, <1>2, <1>3, <1>4, <1>5
<1>7. QED
  BY <1>2, <1>4, <1>6 DEF Kept

(* Truncate removes offsets that all lie before the segments it keeps. *)
LEMMA CompactInv ==
  ASSUME KInv, TrailingLogs > 0, Compact, UNCHANGED acked,
         gone' = gone \cup (OffsetsOf(Seen) \ OffsetsOf(Seen)')
  PROVE  KInv'
<1>1. PICK lowest \in CompactArgs : Truncate(lowest)
  BY DEF Compact
<1> DEFINE K   == Kept(lowest)
           new == Restrict(segments, K)
<1>2. /\ proc = "open" /\ proc' = "open" /\ activeSegment' = activeSegment
      /\ segments' = new /\ acked' = acked
  BY <1>1 DEF Truncate
<1>3. lowest \in Nat /\ activeSegment \in K
  BY <1>2, KeepsActive
<1>4. /\ DOMAIN new = K /\ K \subseteq DOMAIN segments
      /\ \A b \in K : new[b] = segments[b]
  BY DEF Restrict, Kept
<1> HIDE DEF new
<1>5. \A b \in DOMAIN segments : /\ b \in Nat /\ Sound(b, segments[b])
                                 /\ segments[b].nextOffset \in Nat
                                 /\ b <= segments[b].nextOffset
  BY <1>2, OpenFacts DEF Tiled, Sound
<1>6. \A b \in K : Derived(b, segments[b], new[b]) /\ GoesOn(segments[b], new[b])
  BY <1>4, <1>5, SameIndexDerives
<1>7. Tiled(new)
  BY <1>2, <1>4, <1>6, OpenFacts, DerivedTiled
<1>8. Remembers(new, acked, gone) /\ IsLast(activeSegment, DOMAIN new)
  BY <1>2, <1>3, <1>4, <1>6, OpenFacts, DerivedRemembers
<1>9. OffsetsOf(Seen) = OffsetsOf(segments) /\ OffsetsOf(Seen)' = OffsetsOf(new)
  BY <1>2 DEF Seen, OffsetsOf
<1>10. ASSUME NEW x \in OffsetsOf(segments), x \notin OffsetsOf(new)
       PROVE  x \in Nat /\ \A c \in K : x < c
  <2>1. PICK b \in DOMAIN segments : x \in b .. segments[b].nextOffset - 1
    BY DEF OffsetsOf
  <2>2. x \in Nat /\ b <= x /\ x < segments[b].nextOffset
    BY <1>5, <2>1
  <2>3. b \notin K
    BY <1>4, <1>10, <2>1 DEF OffsetsOf
  <2>4. segments[b].nextOffset <= lowest + 1
    BY <1>3, <1>5, <2>3 DEF Kept
  <2>5. ASSUME NEW c \in K PROVE x < c
    <3>1. /\ c \in DOMAIN segments /\ c \in Nat /\ segments[c].nextOffset \in Nat
          /\ segments[c].nextOffset > lowest + 1
      BY <1>4, <1>5 DEF Kept
    <3>2. c < b => segments[c].nextOffset <= b
      BY <1>2, <3>1, OpenFacts DEF Tiled, Apart
    <3>3. b < c
      BY <1>3, <1>5, <2>3, <2>4, <3>1, <3>2
    <3>4. segments[b].nextOffset <= c
      BY <1>2, <3>1, <3>3, OpenFacts DEF Tiled, Apart
    <3>5. QED
      BY <1>5, <2>2, <3>1, <3>4
  <2>6. QED
    BY <2>2, <2>5
<1> HIDE DEF K
<1>11. gone' \subseteq Nat /\ \A g \in gone', c \in DOMAIN new : g < c
  <2>1. \A g \in gone' : g \in gone \/ (g \in OffsetsOf(segments) /\ g \notin OffsetsOf(new))
    BY <1>9
  <2>2. \A g \in gone : g \in Nat /\ \A c \in DOMAIN new : g < c
    BY <1>2, <1>8, OpenFacts DEF Remembers
  <2>3. QED
    BY <1>4, <1>10, <2>1, <2>2
<1>12. Remembers(new, acked, gone')
  BY <1>3, <1>4, <1>8, <1>11 DEF Remembers
<1>13. acked' \subseteq Nat
  BY <1>2, OpenFacts
<1>14. QED
  BY <1>2, <1>7, <1>8, <1>11, <1>12, <1>13, StaysOpen

(* Death inside Truncate, before it reaches the active segment. *)
LEMMA CrashInTruncateInv ==
  ASSUME KInv, TrailingLogs > 0, NEW lowest \in CompactArgs, CrashInTruncate(lowest),
         UNCHANGED <<acked, gone>>
  PROVE  KInv'
<1>1. proc = "open"
  BY DEF CrashInTruncate
<1>2. PICK b \in DOMAIN segments \ Kept(lowest) :
         LET others == LeftBy(Restrict(segments, {c \in DOMAIN segments : c > b}))
         IN  \/ DieLeaving(others)
             \/ DieLeaving(Put(others, b, [store |-> StoreFlush(segments[b].store),
                                           index |-> EmptyIndex]))
  BY DEF CrashInTruncate
<1> DEFINE above  == {c \in DOMAIN segments : c > b}
           others == LeftBy(Restrict(segments, above))
           emptied == [store |-> StoreFlush(segments[b].store), index |-> EmptyIndex]
           files  == Put(others, b, emptied)
           l      == activeSegment
<1>3. /\ Tiled(segments) /\ Remembers(segments, acked, gone) /\ IsLast(l, DOMAIN segments)
      /\ \A c \in DOMAIN segments : c \in Nat /\ Sound(c, segments[c])
  BY <1>1, OpenFacts DEF Tiled
<1>4. l \in above /\ b \notin above /\ b \in DOMAIN segments /\ b \in Nat
  <2>1. l # b /\ l \in DOMAIN segments
    BY <1>1, <1>2, KeepsActive, OpenFacts
  <2>2. QED
    BY <1>2, <1>3, <2>1 DEF IsLast
<1>5. /\ DOMAIN others = above /\ above \subseteq DOMAIN segments
      /\ \A c \in above : others[c] = SegmentAfterCrash(segments[c])
  BY DEF LeftBy, Restrict
<1>6. /\ DOMAIN files = above \cup {b} /\ files[b] = emptied
      /\ \A c \in above : files[c] = others[c]
  BY <1>4, <1>5 DEF Put
<1>7. DieLeaving(others) \/ DieLeaving(files)
  BY <1>2
<1>8. /\ Sound(b, newSegment(b, emptied)) /\ newSegment(b, emptied).nextOffset = b
      /\ \A k \in Slots : newSegment(b, emptied).index.slots[k].off = 0
  BY <1>4, FreshSound
<1> HIDE DEF others, files, above, emptied, l
<1>9. \A c \in above : /\ Derived(c, segments[c], newSegment(c, others[c]))
                       /\ GoesOn(segments[c], newSegment(c, others[c]))
  BY <1>3, <1>5, CrashDerives
<1>10. Derived(b, segments[b], newSegment(b, emptied))
  BY <1>8 DEF Derived
<1>11. CASE DieLeaving(others)
  <2>1. Tiled(Opened(others)) /\ Remembers(Opened(others), acked, gone)
    BY <1>3, <1>4, <1>5, <1>9, OpenedTiled
  <2>2. QED
    BY <1>11, <2>1, DiesInv
<1>12. CASE DieLeaving(files)
  <2>1. /\ DOMAIN files \subseteq DOMAIN segments /\ l \in DOMAIN files
        /\ \A c \in DOMAIN files : Derived(c, segments[c], newSegment(c, files[c]))
        /\ GoesOn(segments[l], newSegment(l, files[l]))
    BY <1>4, <1>5, <1>6, <1>9, <1>10
  <2>2. Tiled(Opened(files)) /\ Remembers(Opened(files), acked, gone)
    BY <1>3, <2>1, OpenedTiled
  <2>3. QED
    BY <1>12, <2>2, DiesInv
<1>13. QED
  BY <1>7, <1>11, <1>12
-----------------------------------------------------------------------------
(* The invariant holds before the log is first opened. *)
LEMMA InitKInv == CrashInit => KInv
<1>1. SUFFICES ASSUME CrashInit PROVE KInv
  OBVIOUS
<1>2. /\ proc = "down" /\ segments = EmptyMap /\ dir = EmptyMap
      /\ acked = {} /\ gone = {}
  BY <1>1 DEF CrashInit, Init
<1>3. Seen = Opened(dir)
  BY <1>2 DEF Seen, Opened
<1>4. QED
  BY <1>2, <1>3, NothingTiled DEF KInv

(* Every step of the log and every death of its process keeps it. *)
LEMMA StepKInv ==
  ASSUME TrailingLogs > 0, KInv, [CrashNext]_crashVars
  PROVE  KInv'
<1>1. CASE UNCHANGED crashVars
  BY <1>1 DEF KInv, Seen, crashVars
<1>2. ASSUME NEW v \in Value, AppendAcked(v), UNCHANGED gone,
             acked' = acked \cup {segments[activeSegment].nextOffset}
      PROVE  KInv'
  BY <1>2, RollInv, InPlaceInv DEF AppendAcked
<1>3. ASSUME NEW v \in Value, AppendFailed(v), UNCHANGED <<acked, gone>>
      PROVE  KInv'
  BY <1>3, RefusedInv, InPlaceInv DEF AppendFailed
<1>4. CASE /\ Compact /\ UNCHANGED acked
           /\ gone' = gone \cup (OffsetsOf(Seen) \ OffsetsOf(Seen)')
  BY <1>4, CompactInv
<1>5. CASE Remove /\ acked' = {} /\ gone' = {}
  BY <1>5, RemoveInv
<1>6. CASE UNCHANGED <<acked, gone>> /\ \E v \in Value : CrashInAppend(v)
  BY <1>6, CrashInAppendInv
<1>7. CASE UNCHANGED <<acked, gone>> /\ \E off \in Offset : Read(off)
  BY <1>7, ReadInv
<1>8. CASE UNCHANGED <<acked, gone>> /\ \E lowest \in CompactArgs : CrashInTruncate(lowest)
  BY <1>8, CrashInTruncateInv
<1>9. CASE UNCHANGED <<acked, gone>> /\ (Open \/ Close \/ Exit \/ Crash)
  BY <1>9, OpenInv, CloseInv, ExitInv, CrashInv
<1>10. QED
  BY <1>1, <1>2, <1>3, <1>4, <1>5, <1>6, <1>7, <1>8, <1>9 DEF CrashNext

(* After any deaths and restarts the segments, open or in the files, own
   disjoint offsets above all that was truncated, and an active segment that
   takes records continues after all that was acknowledged. *)
THEOREM CrashInvariance ==
  ASSUME TrailingLogs > 0
  PROVE  CrashSpec => []KInv
<1>1. KInv /\ [CrashNext]_crashVars => KInv'
  BY StepKInv
<1>2. QED
  BY <1>1, InitKInv, PTL DEF CrashSpec

(* Log.Read finds an offset in at most one segment, also after a death inside
   Append's roll-over or inside Truncate. *)
THEOREM OneOwnerAlways ==
  ASSUME TrailingLogs > 0
  PROVE  CrashSpec => []OneOwner
<1>1. KInv => OneOwner
  <2>1. SUFFICES ASSUME KInv, NEW b \in DOMAIN segments, NEW c \in DOMAIN segments,
                        NEW off \in Offset, Owns(segments, b, off), Owns(segments, c, off)
                 PROVE  b = c
    BY DEF OneOwner
  <2>2. /\ b \in Nat /\ c \in Nat /\ off \in Nat
        /\ segments[b].nextOffset \in Nat /\ segments[c].nextOffset \in Nat
        /\ b < c => segments[b].nextOffset <= c
        /\ c < b => segments[c].nextOffset <= b
    <3>1. /\ DOMAIN segments \subseteq Nat /\ Apart(segments)
          /\ \A d \in DOMAIN segments : Sound(d, segments[d])
      BY <2>1 DEF KInv, Tiled
    <3>2. b \in Nat /\ c \in Nat /\ off \in Nat
      BY <3>1, StoreAssumption DEF Offset
    <3>3. segments[b].nextOffset \in Nat /\ segments[c].nextOffset \in Nat
      BY <3>1 DEF Sound
    <3>4. (b < c => segments[b].nextOffset <= c) /\ (c < b => segments[c].nextOffset <= b)
      BY <3>1 DEF Apart
    <3>5. QED
      BY <3>2, <3>3, <3>4
  <2>3. QED
    BY <2>1, <2>2 DEF Owns
<1>2. QED
  BY <1>1, CrashInvariance, PTL

(* No restart, and nothing a crash left of an index, brings an offset back
   that a completed Truncate removed. *)
THEOREM TruncatedStaysGoneAlways ==
  ASSUME TrailingLogs > 0
  PROVE  CrashSpec => []TruncatedStaysGone
<1>1. KInv => TruncatedStaysGone
  <2>1. SUFFICES ASSUME KInv, NEW x \in OffsetsOf(Seen), x \in gone
                 PROVE  FALSE
    BY DEF TruncatedStaysGone
  <2>2. PICK b \in DOMAIN Seen : x \in b .. Seen[b].nextOffset - 1
    BY DEF OffsetsOf
  <2>3. b \in Nat /\ Seen[b].nextOffset \in Nat /\ x \in Nat
    BY <2>1 DEF KInv, Tiled, Sound
  <2>4. x < b
    BY <2>1 DEF KInv, Remembers
  <2>5. QED
    BY <2>2, <2>3, <2>4
<1>2. QED
  BY <1>1, CrashInvariance, PTL

(* Log.Append returns no offset twice, whichever deaths lie between two calls:
   a log that reopens with too small a next offset refuses every record. *)
THEOREM AckedOnceAlways ==
  ASSUME TrailingLogs > 0
  PROVE  CrashSpec => AckedOnce
<1>1. KInv => \A v \in Value : AppendAcked(v) =>
                 segments[activeSegment].nextOffset \notin acked
  <2>1. SUFFICES ASSUME KInv, NEW v \in Value, AppendAcked(v)
                 PROVE  segments[activeSegment].nextOffset \notin acked
    OBVIOUS
  <2>2. proc = "open" /\ IndexHasRoom(segments[activeSegment].index)
    BY <2>1 DEF AppendAcked, AppendRoll, AppendInPlace, CanAppend
  <2>3. /\ segments[activeSegment].nextOffset \in Nat
        /\ \A a \in acked : a < segments[activeSegment].nextOffset
    BY <2>1, <2>2, OpenFacts DEF Remembers, Tiled, Sound
  <2>4. QED
    BY <2>3
<1>2. KInv => [\A v \in Value : AppendAcked(v) =>
                 segments[activeSegment].nextOffset \notin acked]_crashVars
  BY <1>1
<1>3. QED
  BY <1>2, CrashInvariance, PTL DEF AckedOnce
-----------------------------------------------------------------------------
(* Every frame of a store ends within its size. *)
WholeFrames(s) ==
    /\ s = [data |-> s.data, size |-> s.size, flushed |-> s.flushed]
    /\ s.size \in Int /\ s.flushed \in Int
    /\ DOMAIN s.data \subseteq Int /\ s.data \in [DOMAIN s.data -> Record]
    /\ \A p \in DOMAIN s.data : p + FrameLen(s.data[p]) <= s.size

(* The entries of an index. *)
Mapped(i) ==
    /\ i = [slots |-> i.slots, size |-> i.size]
    /\ i.slots = [k \in Slots |-> i.slots[k]]
    /\ \A k \in Slots : i.slots[k].off \in Nat
    /\ i.size \in Nat /\ i.size <= MaxIndexBytes

FilesOK(f) == WholeFrames(f.store) /\ Mapped(f.index)

(* The offset after the last slot of the mapping. *)
AfterLastSlot(b, slots) ==
    LET k == (MaxIndexBytes \div entryWidth) - 1
    IN  IF k >= 0 THEN b + slots[k].off + 1 ELSE b

(* A segment goes on where its files would, once its index is full. *)
Restorable(b, s) ==
    /\ s = [nextOffset |-> s.nextOffset, store |-> s.store, index |-> s.index]
    /\ FilesOK(s)
    /\ s.nextOffset \in Nat /\ b <= s.nextOffset
    /\ s.index.size = MaxIndexBytes => s.nextOffset = AfterLastSlot(b, s.index.slots)

(* The inductive invariant for what a crash leaves of full segments; it holds
   whatever callers truncate. *)
FInv ==
    /\ DOMAIN segments \subseteq Nat /\ activeSegment \in Nat
    /\ \A b \in DOMAIN segments : Restorable(b, segments[b])
    /\ DOMAIN dir \subseteq Nat
    /\ \A b \in DOMAIN dir : FilesOK(dir[b])
    /\ proc = "open" => \A b \in DOMAIN segments : b <= activeSegment

(* A frame has a length. *)
LEMMA FrameLens == \A r \in Record : FrameLen(r) \in Nat
  BY StoreAssumption DEF FrameLen, LenWidth

(* What stays buffered is a number of bytes. *)
LEMMA BufferedInt ==
  ASSUME NEW b \in Int, NEW w \in Int
  PROVE  Buffered(b, w) \in Int
  BY StoreAssumption DEF Buffered

(* store.Append adds a whole frame at the end. *)
LEMMA AppendFrames ==
  ASSUME NEW s, WholeFrames(s), NEW r \in Record
  PROVE  WholeFrames(StoreAppend(s, r))
<1> DEFINE t == StoreAppend(s, r)
           left == Buffered(Buffered(s.size - s.flushed, LenWidth), RecordLen(r))
<1>1. s.size \in Int /\ s.flushed \in Int /\ FrameLen(r) \in Nat /\ RecordLen(r) \in Nat
  BY StoreAssumption, FrameLens DEF WholeFrames
<1>2. left \in Int
  <2>1. s.size - s.flushed \in Int /\ LenWidth \in Int
    BY <1>1 DEF LenWidth
  <2>2. Buffered(s.size - s.flushed, LenWidth) \in Int
    BY <2>1, BufferedInt
  <2>3. QED
    BY <1>1, <2>2, BufferedInt
<1> HIDE DEF left
<1>3. t = [data |-> Put(s.data, s.size, r), size |-> s.size + FrameLen(r),
           flushed |-> (s.size + FrameLen(r)) - left]
  BY DEF StoreAppend, left
<1> HIDE DEF t
<1>4. /\ t = [data |-> t.data, size |-> t.size, flushed |-> t.flushed]
      /\ t.size = s.size + FrameLen(r) /\ t.size \in Int /\ t.flushed \in Int
      /\ t.data = Put(s.data, s.size, r)
  BY <1>1, <1>2, <1>3
<1>5. /\ DOMAIN t.data = DOMAIN s.data \cup {s.size}
      /\ t.data \in [DOMAIN t.data -> Record]
      /\ \A p \in DOMAIN t.data : t.data[p] = IF p = s.size THEN r ELSE s.data[p]
  BY <1>4 DEF Put, WholeFrames
<1>6. ASSUME NEW p \in DOMAIN t.data PROVE p + FrameLen(t.data[p]) <= t.size
  <2>1. CASE p = s.size
    BY <1>1, <1>4, <1>5, <2>1
  <2>2. CASE p # s.size
    <3>1. p \in Int /\ t.data[p] = s.data[p] /\ s.data[p] \in Record
          /\ p + FrameLen(s.data[p]) <= s.size
      BY <1>5, <2>2 DEF WholeFrames
    <3>2. FrameLen(s.data[p]) \in Nat
      BY <3>1, FrameLens
    <3>3. QED
      BY <1>1, <1>4, <3>1, <3>2
  <2>3. QED
    BY <2>1, <2>2
<1>7. DOMAIN t.data \subseteq Int
  BY <1>1, <1>5 DEF WholeFrames
<1>8. WholeFrames(t)
  BY <1>4, <1>5, <1>6, <1>7 DEF WholeFrames
<1>9. QED
  BY <1>8 DEF t

(* A flush, and a death, leave whole frames. *)
LEMMA LeftFrames ==
  ASSUME NEW s, WholeFrames(s)
  PROVE  WholeFrames(StoreFlush(s)) /\ WholeFrames(StoreAfterCrash(s))
<1>1. WholeFrames(StoreFlush(s))
  <2> DEFINE t == StoreFlush(s)
  <2>1. t = [data |-> t.data, size |-> t.size, flushed |-> t.flushed]
        /\ t.data = s.data /\ t.size = s.size /\ t.flushed = s.size
    BY DEF StoreFlush
  <2> HIDE DEF t
  <2>2. WholeFrames(t)
    BY <2>1 DEF WholeFrames
  <2>3. QED
    BY <2>2 DEF t
<1>2. WholeFrames(StoreAfterCrash(s))
  <2> DEFINE t == StoreAfterCrash(s)
             whole == {p \in DOMAIN s.data : p + FrameLen(s.data[p]) <= s.flushed}
  <2>1. t = [data |-> t.data, size |-> t.size, flushed |-> t.flushed]
        /\ t.data = Restrict(s.data, whole) /\ t.size = s.flushed /\ t.flushed = s.flushed
    BY DEF StoreAfterCrash
  <2> HIDE DEF t
  <2>2. t.data \in [whole -> Record] /\ DOMAIN t.data = whole
        /\ \A p \in whole : t.data[p] = s.data[p]
    BY <2>1 DEF Restrict, WholeFrames
  <2>3. WholeFrames(t)
    BY <2>1, <2>2 DEF WholeFrames
  <2>4. QED
    BY <2>3 DEF t
<1>3. QED
  BY <1>1, <1>2

(* The files a segment leaves when it is closed or its process dies, and those
   of a new one. *)
LEMMA LeftFiles ==
  ASSUME NEW s, FilesOK(s)
  PROVE  /\ FilesOK(SegmentClose(s)) /\ FilesOK(SegmentAfterCrash(s))
         /\ FilesOK([store |-> StoreFlush(s.store), index |-> EmptyIndex])
         /\ FilesOK(NewFiles)
<1>1. WholeFrames(StoreFlush(s.store)) /\ WholeFrames(StoreAfterCrash(s.store)) /\ Mapped(s.index)
  BY LeftFrames DEF FilesOK
<1>2. Mapped(IndexAfterCrash(s.index))
  <2> DEFINE i == IndexAfterCrash(s.index)
  <2>1. i = [slots |-> i.slots, size |-> i.size] /\ i.slots = s.index.slots
        /\ i.size = MaxIndexBytes
    BY DEF IndexAfterCrash
  <2> HIDE DEF i
  <2>2. Mapped(i)
    BY <1>1, <2>1 DEF Mapped
  <2>3. QED
    BY <2>2 DEF i
<1>3. Mapped(EmptyIndex)
  BY DEF Mapped, EmptyIndex, ZeroEntry
<1>4. WholeFrames(EmptyStore)
  BY DEF WholeFrames, EmptyStore, EmptyMap
<1>5. QED
  BY <1>1, <1>2, <1>3, <1>4 DEF FilesOK, SegmentClose, SegmentAfterCrash, NewFiles

(* What newSegment makes of the files. *)
LEMMA OpenedRestorable ==
  ASSUME NEW b \in Nat, NEW f, FilesOK(f)
  PROVE  Restorable(b, newSegment(b, f))
<1> DEFINE i == newIndex(f.index)
           k == LastSlot(i)
           t == newSegment(b, f)
<1>1. /\ i = [slots |-> i.slots, size |-> i.size] /\ i.size = f.index.size
      /\ i.slots = [j \in Slots |-> i.slots[j]]
      /\ \A j \in Slots : i.slots[j] = IF (j + 1) * 12 <= f.index.size
                                       THEN f.index.slots[j] ELSE ZeroEntry
  BY DEF newIndex
<1>2. f.index.size \in Nat /\ f.index.size <= MaxIndexBytes /\ \A j \in Slots : f.index.slots[j].off \in Nat
  BY DEF FilesOK, Mapped
<1>3. ZeroEntry.off = 0
  BY DEF ZeroEntry
<1> HIDE DEF i
<1>4. Mapped(i)
  BY <1>1, <1>2, <1>3 DEF Mapped
<1>5. /\ t = [nextOffset |-> t.nextOffset, store |-> t.store, index |-> t.index]
      /\ t.store = f.store /\ t.index = i
      /\ t.nextOffset = IF k >= 0 /\ IndexHas(i, k) THEN b + i.slots[k].off + 1 ELSE b
  BY DEF newSegment, i
<1> HIDE DEF t
<1>6. k = (f.index.size \div 12) - 1
  BY <1>1 DEF LastSlot
<1> HIDE DEF k
<1>7. k >= 0 => k \in Slots /\ i.slots[k].off \in Nat /\ IndexHas(i, k)
  <2>1. SUFFICES ASSUME k >= 0 PROVE k \in Slots /\ i.slots[k].off \in Nat /\ IndexHas(i, k)
    OBVIOUS
  <2>2. k \in Nat /\ (k + 1) * 12 <= f.index.size /\ f.index.size # 0
    BY <1>2, <1>6, <2>1
  <2>3. k \in Slots
    BY <1>2, <2>2, SlotFits
  <2>4. QED
    BY <1>1, <1>4, <2>2, <2>3 DEF Mapped, IndexHas
<1>8. t.nextOffset \in Nat /\ b <= t.nextOffset
  BY <1>5, <1>7
<1>9. f.index.size = MaxIndexBytes => t.nextOffset = AfterLastSlot(b, i.slots)
  <2>1. f.index.size = MaxIndexBytes => (MaxIndexBytes \div 12) - 1 = k
    BY <1>6
  <2>2. QED
    BY <1>5, <1>7, <2>1 DEF AfterLastSlot
<1>10. Restorable(b, t)
  BY <1>1, <1>4, <1>5, <1>8, <1>9 DEF Restorable, FilesOK
<1>11. QED
  BY <1>10 DEF t

(* A record that Append writes. *)
LEMMA RecordOf ==
  ASSUME NEW v \in Value, NEW o \in Offset
  PROVE  [value |-> v, offset |-> o] \in Record
  BY DEF Record

(* segment.Append, with and without room in the index, and a flush. *)
LEMMA AppendRestorable ==
  ASSUME NEW b \in Nat, NEW s, Restorable(b, s), NEW v \in Value, s.nextOffset \in Offset
  PROVE  /\ Restorable(b, SegmentRefuse(s, v))
         /\ IndexHasRoom(s.index) => /\ Restorable(b, SegmentAppend(s, b, v))
                                     /\ SegmentAppend(s, b, v).nextOffset = s.nextOffset + 1
<1> DEFINE r == [value |-> v, offset |-> s.nextOffset]
           st == StoreAppend(s.store, r)
<1>1. WholeFrames(st)
  BY RecordOf, AppendFrames DEF Restorable, FilesOK
<1>2. Restorable(b, SegmentRefuse(s, v))
  <2> DEFINE t == SegmentRefuse(s, v)
  <2>1. /\ t = [nextOffset |-> t.nextOffset, store |-> t.store, index |-> t.index]
        /\ t.nextOffset = s.nextOffset /\ t.store = st /\ t.index = s.index
    BY DEF SegmentRefuse
  <2> HIDE DEF t, st
  <2>2. Restorable(b, t)
    BY <1>1, <2>1 DEF Restorable, FilesOK
  <2>3. QED
    BY <2>2 DEF t
<1>3. ASSUME IndexHasRoom(s.index)
      PROVE  /\ Restorable(b, SegmentAppend(s, b, v))
             /\ SegmentAppend(s, b, v).nextOffset = s.nextOffset + 1
  <2> DEFINE t == SegmentAppend(s, b, v)
             i == IndexWrite(s.index, s.nextOffset - b, s.store.size)
             k == s.index.size \div 12
             e == [off |-> s.nextOffset - b, pos |-> s.store.size]
  <2>1. /\ t = [nextOffset |-> t.nextOffset, store |-> t.store, index |-> t.index]
        /\ t.nextOffset = s.nextOffset + 1 /\ t.store = st /\ t.index = i
    BY DEF SegmentAppend
  <2>2. /\ i = [slots |-> i.slots, size |-> i.size]
        /\ i.slots = [s.index.slots EXCEPT ![k] = e] /\ i.size = s.index.size + 12
    BY DEF IndexWrite
  <2>3. Mapped(s.index) /\ s.nextOffset \in Nat /\ b <= s.nextOffset
    BY DEF Restorable, FilesOK
  <2>4. s.index.size \in Nat /\ s.index.size + 12 <= MaxIndexBytes
    BY <1>3, <2>3 DEF Mapped, IndexHasRoom
  <2>5. k \in Slots
    <3>1. k \in Nat /\ (k + 1) * 12 <= MaxIndexBytes
      BY <2>4
    <3>2. QED
      BY <3>1, SlotFits
  <2>6. e.off = s.nextOffset - b /\ e.off \in Nat
    BY <2>3
  <2> HIDE DEF t, st, i, e
  <2>7. /\ i.slots = [j \in Slots |-> i.slots[j]] /\ i.slots[k] = e
        /\ \A j \in Slots : i.slots[j] = IF j = k THEN e ELSE s.index.slots[j]
    <3>1. DOMAIN s.index.slots = Slots
      BY <2>3 DEF Mapped
    <3>2. QED
      BY <2>2, <2>5, <3>1
  <2>8. Mapped(i)
    BY <2>2, <2>3, <2>4, <2>6, <2>7 DEF Mapped
  <2>9. i.size = MaxIndexBytes => t.nextOffset = AfterLastSlot(b, i.slots)
    <3>1. SUFFICES ASSUME i.size = MaxIndexBytes PROVE t.nextOffset = AfterLastSlot(b, i.slots)
      OBVIOUS
    <3>2. (MaxIndexBytes \div 12) - 1 = k /\ k >= 0
      BY <2>2, <2>4, <3>1
    <3> HIDE DEF k
    <3>3. AfterLastSlot(b, i.slots) = b + i.slots[k].off + 1
      BY <3>2 DEF AfterLastSlot
    <3>4. QED
      BY <2>1, <2>3, <2>6, <2>7, <3>3
  <2>10. Restorable(b, t)
    BY <1>1, <2>1, <2>3, <2>8, <2>9 DEF Restorable, FilesOK
  <2>11. QED
    BY <2>1, <2>10 DEF t
<1>4. QED
  BY <1>2, <1>3

(* segment.Read flushes the store. *)
LEMMA FlushRestorable ==
  ASSUME NEW b \in Nat, NEW s, Restorable(b, s)
  PROVE  Restorable(b, SegmentFlush(s))
<1> DEFINE t == SegmentFlush(s)
<1>1. /\ t = [nextOffset |-> t.nextOffset, store |-> t.store, index |-> t.index]
      /\ t.nextOffset = s.nextOffset /\ t.store = StoreFlush(s.store) /\ t.index = s.index
  BY DEF SegmentFlush
<1>2. WholeFrames(StoreFlush(s.store))
  BY LeftFrames DEF Restorable, FilesOK
<1> HIDE DEF t
<1>3. Restorable(b, t)
  BY <1>1, <1>2 DEF Restorable, FilesOK
<1>4. QED
  BY <1>3 DEF t

(* The files that a death leaves of a full and flushed segment open as the
   segment. *)
LEMMA Survives ==
  ASSUME NEW b \in Nat, NEW s, Restorable(b, s),
         s.index.size = MaxIndexBytes, s.store.flushed = s.store.size
  PROVE  newSegment(b, SegmentAfterCrash(s)) = s
<1> DEFINE f == SegmentAfterCrash(s)
           i == newIndex(f.index)
           k == LastSlot(i)
           t == newSegment(b, f)
<1>1. WholeFrames(s.store) /\ Mapped(s.index)
  BY DEF Restorable, FilesOK
<1>2. f.store = s.store
  <2> DEFINE whole == {p \in DOMAIN s.store.data :
                          p + FrameLen(s.store.data[p]) <= s.store.flushed}
  <2>1. whole = DOMAIN s.store.data
    BY <1>1 DEF WholeFrames
  <2>2. Restrict(s.store.data, whole) = s.store.data
    BY <1>1, <2>1 DEF WholeFrames, Restrict
  <2>3. f.store = [data |-> Restrict(s.store.data, whole),
                   size |-> s.store.flushed, flushed |-> s.store.flushed]
    BY DEF SegmentAfterCrash, StoreAfterCrash
  <2>4. QED
    BY <1>1, <2>2, <2>3 DEF WholeFrames
<1>3. f.index.slots = s.index.slots /\ f.index.size = MaxIndexBytes
  BY DEF SegmentAfterCrash, IndexAfterCrash
<1> HIDE DEF f
<1>4. i = s.index
  <2>1. \A j \in Slots : (j + 1) * 12 <= MaxIndexBytes
    <3>1. \A j \in Slots : j \in Nat
      BY DEF Slots
    <3>2. QED
      BY <3>1, SlotFits
  <2>2. [j \in Slots |-> IF (j + 1) * 12 <= f.index.size THEN f.index.slots[j] ELSE ZeroEntry]
        = [j \in Slots |-> s.index.slots[j]]
    BY <1>3, <2>1
  <2>3. i = [slots |-> [j \in Slots |-> s.index.slots[j]], size |-> MaxIndexBytes]
    BY <1>3, <2>2 DEF newIndex
  <2>4. s.index.slots = [j \in Slots |-> s.index.slots[j]]
        /\ s.index = [slots |-> s.index.slots, size |-> s.index.size]
    BY <1>1 DEF Mapped
  <2>5. QED
    BY <2>3, <2>4
<1>5. t = [nextOffset |-> IF k >= 0 /\ IndexHas(i, k) THEN b + i.slots[k].off + 1 ELSE b,
           store |-> f.store, index |-> i]
  BY DEF newSegment
<1> HIDE DEF t, i
<1>6. k = (MaxIndexBytes \div 12) - 1
  BY <1>4 DEF LastSlot
<1> HIDE DEF k
<1>7. k >= 0 => IndexHas(i, k)
  BY <1>4, <1>6 DEF IndexHas
<1>8. AfterLastSlot(b, s.index.slots) = IF k >= 0 THEN b + i.slots[k].off + 1 ELSE b
  BY <1>4, <1>6 DEF AfterLastSlot
<1>9. s.nextOffset = IF k >= 0 /\ IndexHas(i, k) THEN b + i.slots[k].off + 1 ELSE b
  BY <1>7, <1>8 DEF Restorable
<1>10. t = [nextOffset |-> s.nextOffset, store |-> s.store, index |-> s.index]
  BY <1>2, <1>4, <1>5, <1>9
<1>11. QED
  BY <1>10 DEF Restorable, t, f

-----------------------------------------------------------------------------
(* All segments, or all files, of a log. *)
AllRestorable(segs) ==
    DOMAIN segs \subseteq Nat /\ \A b \in DOMAIN segs : Restorable(b, segs[b])

AllFilesOK(files) ==
    DOMAIN files \subseteq Nat /\ \A b \in DOMAIN files : FilesOK(files[b])

(* The files of a new segment. *)
LEMMA NewFilesOK == FilesOK(NewFiles)
<1>1. Mapped(EmptyIndex)
  BY DEF Mapped, EmptyIndex, ZeroEntry
<1>2. WholeFrames(EmptyStore)
  BY DEF WholeFrames, EmptyStore, EmptyMap
<1>3. QED
  BY <1>1, <1>2 DEF FilesOK, NewFiles

(* The files a death leaves of all segments. *)
LEMMA LeftByOK ==
  ASSUME NEW segs, AllRestorable(segs)
  PROVE  /\ AllFilesOK(LeftBy(segs)) /\ DOMAIN LeftBy(segs) = DOMAIN segs
         /\ \A b \in DOMAIN segs : LeftBy(segs)[b] = SegmentAfterCrash(segs[b])
<1>1. DOMAIN LeftBy(segs) = DOMAIN segs
      /\ \A b \in DOMAIN segs : LeftBy(segs)[b] = SegmentAfterCrash(segs[b])
  BY DEF LeftBy
<1>2. \A b \in DOMAIN segs : FilesOK(SegmentAfterCrash(segs[b]))
  BY LeftFiles DEF AllRestorable, Restorable
<1>3. QED
  BY <1>1, <1>2 DEF AllFilesOK, AllRestorable

(* One more pair of files. *)
LEMMA PutFilesOK ==
  ASSUME NEW files, AllFilesOK(files), NEW b \in Nat, NEW f, FilesOK(f)
  PROVE  AllFilesOK(Put(files, b, f))
  BY DEF AllFilesOK, Put

(* One segment that changes, or one more. *)
LEMMA ChangedRestorable ==
  ASSUME NEW segs, AllRestorable(segs), NEW b \in Nat, NEW s, Restorable(b, s)
  PROVE  AllRestorable([segs EXCEPT ![b] = s]) /\ AllRestorable(Put(segs, b, s))
<1>1. AllRestorable([segs EXCEPT ![b] = s])
  <2> DEFINE t == [segs EXCEPT ![b] = s]
  <2>1. DOMAIN t = DOMAIN segs /\ \A c \in DOMAIN segs : t[c] = IF c = b THEN s ELSE segs[c]
    OBVIOUS
  <2> HIDE DEF t
  <2>2. AllRestorable(t)
    BY <2>1 DEF AllRestorable
  <2>3. QED
    BY <2>2 DEF t
<1>2. AllRestorable(Put(segs, b, s))
  BY DEF AllRestorable, Put
<1>3. QED
  BY <1>1, <1>2

(* A process that dies over files that are well formed. *)
LEMMA DiesF ==
  ASSUME NEW files, AllFilesOK(files), DieLeaving(files)
  PROVE  FInv'
<1>1. proc' = "down" /\ segments' = EmptyMap /\ activeSegment' = InitialOffset /\ dir' = files
  BY DEF DieLeaving
<1>2. DOMAIN EmptyMap = {} /\ InitialOffset \in Nat
  BY StoreAssumption, LogAssumption DEF EmptyMap, Offset
<1>3. QED
  BY <1>1, <1>2 DEF FInv, AllFilesOK

(* The active segment of a log that can append. *)
LEMMA CanAppendF ==
  ASSUME FInv, CanAppend, NEW v \in Value
  PROVE  LET a == activeSegment
             s == segments[a]
         IN  /\ a \in Nat /\ a \in DOMAIN segments /\ s.nextOffset \in Nat /\ a <= s.nextOffset
             /\ \A b \in DOMAIN segments : b \in Nat /\ b <= a
             /\ AllRestorable(segments)
             /\ AllRestorable([segments EXCEPT ![a] = SegmentRefuse(@, v)])
             /\ IndexHasRoom(s.index) =>
                   /\ AllRestorable([segments EXCEPT ![a] = Appended(v)])
                   /\ Appended(v).nextOffset = s.nextOffset + 1
<1> DEFINE a == activeSegment
           s == segments[a]
<1>1. a \in Nat /\ a \in DOMAIN segments /\ Restorable(a, s) /\ AllRestorable(segments)
      /\ \A b \in DOMAIN segments : b \in Nat /\ b <= a
  BY DEF FInv, CanAppend, AllRestorable
<1>2. s.nextOffset \in Nat /\ a <= s.nextOffset /\ s.nextOffset \in Offset
  BY <1>1, StoreAssumption DEF Restorable, CanAppend, Offset
<1>3. /\ Restorable(a, SegmentRefuse(s, v))
      /\ IndexHasRoom(s.index) => /\ Restorable(a, SegmentAppend(s, a, v))
                                  /\ SegmentAppend(s, a, v).nextOffset = s.nextOffset + 1
  BY <1>1, <1>2, AppendRestorable
<1>4. AllRestorable([segments EXCEPT ![a] = SegmentRefuse(s, v)])
  BY <1>1, <1>3, ChangedRestorable
<1>5. IndexHasRoom(s.index) => AllRestorable([segments EXCEPT ![a] = Appended(v)])
  BY <1>1, <1>3, ChangedRestorable DEF Appended
<1>6. QED
  BY <1>1, <1>2, <1>3, <1>4, <1>5 DEF Appended

(* Append. *)
LEMMA AppendF ==
  ASSUME FInv, NEW v \in Value, AppendRefused(v) \/ AppendInPlace(v) \/ AppendRoll(v)
  PROVE  FInv'
<1> DEFINE s == segments[activeSegment]
           wrote == [segments EXCEPT ![activeSegment] = SegmentRefuse(@, v)]
           indexed == [segments EXCEPT ![activeSegment] = Appended(v)]
           off == Appended(v).nextOffset
<1>1. CanAppend /\ UNCHANGED <<proc, dir>>
  BY DEF AppendRefused, AppendInPlace, AppendRoll
<1>2. /\ activeSegment \in Nat /\ s.nextOffset \in Nat /\ activeSegment <= s.nextOffset
      /\ \A b \in DOMAIN segments : b \in Nat /\ b <= activeSegment
      /\ AllRestorable(wrote)
      /\ IndexHasRoom(s.index) => /\ AllRestorable(indexed)
                                  /\ off = s.nextOffset + 1
  BY <1>1, CanAppendF
<1>3. DOMAIN wrote = DOMAIN segments /\ DOMAIN indexed = DOMAIN segments
  OBVIOUS
<1> HIDE DEF s, wrote, indexed, off
<1>4. AllFilesOK(dir')
  BY <1>1 DEF FInv, AllFilesOK
<1>5. AllRestorable(segments') /\ activeSegment' \in Nat
      /\ \A b \in DOMAIN segments' : b <= activeSegment'
  <2>1. CASE AppendRefused(v)
    <3>1. segments' = wrote /\ activeSegment' = activeSegment
      BY <2>1 DEF AppendRefused, wrote
    <3>2. QED
      BY <1>2, <1>3, <3>1
  <2>2. CASE AppendInPlace(v)
    <3>1. segments' = indexed /\ activeSegment' = activeSegment /\ IndexHasRoom(s.index)
      BY <2>2 DEF AppendInPlace, indexed, s
    <3>2. QED
      BY <1>2, <1>3, <3>1
  <2>3. CASE AppendRoll(v)
    <3>1. /\ segments' = Put(indexed, off, newSegment(off, NewFiles))
          /\ activeSegment' = off /\ IndexHasRoom(s.index)
      BY <2>3 DEF AppendRoll, indexed, s, off
    <3>2. off \in Nat /\ off = s.nextOffset + 1 /\ AllRestorable(indexed)
      BY <1>2, <3>1
    <3>3. AllRestorable(segments')
      BY <3>1, <3>2, NewFilesOK, OpenedRestorable, ChangedRestorable
    <3>4. DOMAIN segments' = DOMAIN segments \cup {off}
      BY <1>3, <3>1 DEF Put
    <3>5. QED
      BY <1>2, <3>1, <3>2, <3>3, <3>4
  <2>4. QED
    BY <2>1, <2>2, <2>3
<1>6. QED
  BY <1>4, <1>5 DEF FInv, AllRestorable, AllFilesOK

(* A death inside Append. *)
LEMMA CrashInAppendF ==
  ASSUME FInv, NEW v \in Value, CrashInAppend(v)
  PROVE  FInv'
<1> DEFINE wrote == [segments EXCEPT ![activeSegment] = SegmentRefuse(@, v)]
           indexed == [segments EXCEPT ![activeSegment] = Appended(v)]
           off == Appended(v).nextOffset
<1>1. CanAppend
  BY DEF CrashInAppend
<1>2. /\ AllRestorable(wrote)
      /\ IndexHasRoom(segments[activeSegment].index) => AllRestorable(indexed) /\ off \in Nat
  <2>1. /\ AllRestorable(wrote) /\ segments[activeSegment].nextOffset \in Nat
        /\ IndexHasRoom(segments[activeSegment].index) =>
              /\ AllRestorable(indexed)
              /\ off = segments[activeSegment].nextOffset + 1
    BY <1>1, CanAppendF
  <2> HIDE DEF wrote, indexed, off
  <2>2. QED
    BY <2>1
<1>3. /\ AllFilesOK(LeftBy(wrote))
      /\ IndexHasRoom(segments[activeSegment].index) =>
            AllFilesOK(LeftBy(indexed)) /\ AllFilesOK(Put(LeftBy(indexed), off, NewFiles))
  BY <1>2, LeftByOK, NewFilesOK, PutFilesOK
<1>4. PICK files : AllFilesOK(files) /\ DieLeaving(files)
  BY <1>3 DEF CrashInAppend
<1>5. QED
  BY <1>4, DiesF

(* A death inside Truncate. *)
LEMMA CrashInTruncateF ==
  ASSUME FInv, NEW lowest, CrashInTruncate(lowest)
  PROVE  FInv'
<1>1. PICK b \in DOMAIN segments :
         LET above  == {c \in DOMAIN segments : c > b}
             others == LeftBy(Restrict(segments, above))
         IN  \/ DieLeaving(others)
             \/ DieLeaving(Put(others, b, [store |-> StoreFlush(segments[b].store),
                                           index |-> EmptyIndex]))
  BY DEF CrashInTruncate
<1> DEFINE above  == {c \in DOMAIN segments : c > b}
           others == LeftBy(Restrict(segments, above))
           f == [store |-> StoreFlush(segments[b].store), index |-> EmptyIndex]
<1>2. AllRestorable(Restrict(segments, above))
  BY DEF FInv, AllRestorable, Restrict
<1>3. AllFilesOK(others) /\ b \in Nat /\ FilesOK(f)
  BY <1>2, LeftByOK, LeftFiles DEF FInv, Restorable
<1>4. AllFilesOK(Put(others, b, f))
  BY <1>3, PutFilesOK
<1>5. DieLeaving(others) \/ DieLeaving(Put(others, b, f))
  BY <1>1
<1> HIDE DEF others, f
<1>6. QED
  BY <1>3, <1>4, <1>5, DiesF

(* Open. *)
LEMMA OpenF ==
  ASSUME FInv, Open
  PROVE  FInv'
<1> DEFINE f(b) == IF b \in DOMAIN dir THEN dir[b] ELSE NewFiles
<1>1. /\ segments' = [b \in Bases |-> newSegment(b, f(b))]
      /\ IsLast(activeSegment', Bases) /\ dir' = EmptyMap
  BY DEF Open
<1>2. Bases \subseteq Nat
  BY StoreAssumption, LogAssumption DEF FInv, Bases, Offset
<1>3. \A b \in Bases : FilesOK(f(b))
  BY NewFilesOK DEF FInv
<1> HIDE DEF f
<1>4. \A b \in Bases : Restorable(b, newSegment(b, f(b)))
  BY <1>2, <1>3, OpenedRestorable
<1>5. DOMAIN dir' = {}
  BY <1>1 DEF EmptyMap
<1>6. DOMAIN segments' = Bases /\ \A b \in Bases : segments'[b] = newSegment(b, f(b))
  BY <1>1
<1>7. QED
  BY <1>1, <1>2, <1>4, <1>5, <1>6 DEF FInv, IsLast

(* Read, Truncate, Close, Remove, Exit and a death between two operations. *)
LEMMA OtherF ==
  ASSUME FInv, \/ \E off \in Offset : Read(off)
               \/ Compact \/ Close \/ Remove \/ Exit \/ Crash
  PROVE  FInv'
<1>1. AllRestorable(segments) /\ AllFilesOK(dir)
  BY DEF FInv, AllRestorable, AllFilesOK
<1>2. DOMAIN EmptyMap = {} /\ InitialOffset \in Nat
  BY StoreAssumption, LogAssumption DEF EmptyMap, Offset
<1>3. ASSUME NEW off \in Offset, Read(off) PROVE FInv'
  <2>1. PICK b \in DOMAIN segments : segments' = [segments EXCEPT ![b] = SegmentFlush(@)]
    BY <1>3 DEF Read
  <2>2. UNCHANGED <<proc, activeSegment, dir>>
    BY <1>3 DEF Read
  <2>3. b \in Nat /\ Restorable(b, SegmentFlush(segments[b]))
    BY FlushRestorable DEF FInv
  <2>4. AllRestorable(segments') /\ DOMAIN segments' = DOMAIN segments
    BY <1>1, <2>1, <2>3, ChangedRestorable
  <2>5. QED
    BY <2>2, <2>4 DEF FInv, AllRestorable
<1>4. ASSUME Compact PROVE FInv'
  <2>1. PICK lowest : Truncate(lowest)
    BY <1>4 DEF Compact
  <2>2. UNCHANGED <<proc, activeSegment, dir>> /\ DOMAIN segments' \subseteq DOMAIN segments
        /\ \A b \in DOMAIN segments' : segments'[b] = segments[b]
    BY <2>1 DEF Truncate, Restrict, Kept
  <2>3. QED
    BY <2>2 DEF FInv
<1>5. ASSUME Close PROVE FInv'
  <2>1. /\ proc' = "closed" /\ UNCHANGED <<segments, activeSegment>>
        /\ DOMAIN dir' = DOMAIN segments
        /\ \A b \in DOMAIN segments : dir'[b] = SegmentClose(segments[b])
    BY <1>5 DEF Close
  <2>2. \A b \in DOMAIN segments : FilesOK(SegmentClose(segments[b]))
    BY LeftFiles DEF FInv, Restorable
  <2>3. QED
    BY <2>1, <2>2 DEF FInv
<1>6. ASSUME Remove PROVE FInv'
  BY <1>2, <1>6 DEF Remove, FInv
<1>7. ASSUME Exit PROVE FInv'
  BY <1>2, <1>7 DEF Exit, FInv
<1>8. ASSUME Crash PROVE FInv'
  <2>1. DieLeaving(LeftBy(segments))
    BY <1>8 DEF Crash
  <2>2. QED
    BY <1>1, <2>1, LeftByOK, DiesF
<1>9. QED
  BY <1>3, <1>4, <1>5, <1>6, <1>7, <1>8

(* The invariant holds from the start and is kept by every step. *)
LEMMA FullInvariance == CrashSpec => []FInv
<1>1. CrashInit => FInv
  BY StoreAssumption, LogAssumption DEF CrashInit, Init, FInv, EmptyMap, Offset
<1>2. FInv /\ [CrashNext]_crashVars => FInv'
  <2>1. SUFFICES ASSUME FInv, [CrashNext]_crashVars PROVE FInv'
    OBVIOUS
  <2>2. CASE UNCHANGED crashVars
    BY <2>1, <2>2 DEF FInv, crashVars
  <2>3. CASE CrashNext
    BY <2>1, <2>3, AppendF, CrashInAppendF, CrashInTruncateF, OpenF, OtherF
       DEF CrashNext, AppendAcked, AppendFailed
  <2>4. QED
    BY <2>1, <2>2, <2>3
<1>3. QED
  BY <1>1, <1>2, PTL DEF CrashSpec

(* A death, also one inside Append, leaves the files of every other segment
   that is full and flushed so that the next process opens it as it was,
   whatever callers truncate and whichever deaths came before. *)
THEOREM FullSegmentsSurviveAlways == CrashSpec => FullSegmentsSurvive
<1> DEFINE A == Crash \/ (\E v \in Value : CrashInAppend(v)) =>
                    \A b \in DOMAIN segments \ {activeSegment} :
                        /\ segments[b].index.size = MaxIndexBytes
                        /\ segments[b].store.flushed = segments[b].store.size
                        => newSegment(b, dir'[b]) = segments[b]
<1>1. FInv => A
  <2>1. SUFFICES ASSUME FInv, Crash \/ (\E v \in Value : CrashInAppend(v)),
                        NEW b \in DOMAIN segments \ {activeSegment},
                        segments[b].index.size = MaxIndexBytes,
                        segments[b].store.flushed = segments[b].store.size
                 PROVE  newSegment(b, dir'[b]) = segments[b]
    OBVIOUS
  <2>2. b \in Nat /\ Restorable(b, segments[b]) /\ AllRestorable(segments)
    BY <2>1 DEF FInv, AllRestorable
  <2>3. newSegment(b, SegmentAfterCrash(segments[b])) = segments[b]
    BY <2>1, <2>2, Survives
  <2>4. dir'[b] = SegmentAfterCrash(segments[b])
    <3>1. CASE Crash
      BY <2>2, <3>1, LeftByOK DEF Crash, DieLeaving
    <3>2. ASSUME NEW v \in Value, CrashInAppend(v)
          PROVE  dir'[b] = SegmentAfterCrash(segments[b])
      <4> DEFINE wrote == [segments EXCEPT ![activeSegment] = SegmentRefuse(@, v)]
                 indexed == [segments EXCEPT ![activeSegment] = Appended(v)]
                 off == Appended(v).nextOffset
      <4>1. CanAppend
        BY <3>2 DEF CrashInAppend
      <4>2. /\ b <= activeSegment /\ activeSegment \in Nat
            /\ activeSegment <= segments[activeSegment].nextOffset
            /\ segments[activeSegment].nextOffset \in Nat
            /\ IndexHasRoom(segments[activeSegment].index) =>
                  off = segments[activeSegment].nextOffset + 1
        BY <2>1, <3>2, <4>1, CanAppendF
      <4>3. DOMAIN wrote = DOMAIN segments /\ wrote[b] = segments[b]
            /\ DOMAIN indexed = DOMAIN segments /\ indexed[b] = segments[b]
        OBVIOUS
      <4> HIDE DEF wrote, indexed
      <4>4. LeftBy(wrote)[b] = SegmentAfterCrash(segments[b])
            /\ LeftBy(indexed)[b] = SegmentAfterCrash(segments[b])
            /\ b \in DOMAIN LeftBy(indexed)
        BY <4>3 DEF LeftBy
      <4>5. \/ dir' = LeftBy(wrote) \/ dir' = LeftBy(indexed)
            \/ /\ dir' = Put(LeftBy(indexed), off, NewFiles)
               /\ IndexHasRoom(segments[activeSegment].index)
        BY <3>2 DEF CrashInAppend, DieLeaving, wrote, indexed
      <4> HIDE DEF off
      <4>6. CASE /\ dir' = Put(LeftBy(indexed), off, NewFiles)
                 /\ IndexHasRoom(segments[activeSegment].index)
        <5>1. b # off
          BY <2>2, <4>2, <4>6
        <5>2. QED
          BY <4>4, <4>6, <5>1 DEF Put
      <4>7. QED
        BY <4>4, <4>5, <4>6
    <3>3. QED
      BY <2>1, <3>1, <3>2
  <2>5. QED
    BY <2>3, <2>4
<1>2. FInv => [A]_crashVars
  BY <1>1
<1>3. QED
  BY <1>2, FullInvariance, PTL DEF FullSegmentsSurvive
===============================================================================
