-------------------------------- MODULE Store --------------------------------
(***************************************************************************)
(* The store file of a segment (internal/log/store.go): length-prefixed    *)
(* records written through a bufio.Writer.                                 *)
(*                                                                         *)
(* A store is [data, size, flushed]:                                       *)
(*   data     the record that starts at each byte position written so far; *)
(*   size     store.size, the number of bytes appended;                    *)
(*   flushed  how many of those bytes are in the file, the rest being in   *)
(*            the bufio.Writer of the process.                             *)
(* Bytes themselves are abstracted: a frame is known by its position, its  *)
(* record and its length.                                                  *)
(***************************************************************************)
EXTENDS Naturals, Functions

CONSTANTS
    Value,          \* payloads of records (Record.value)
    MaxOffset,      \* bound: the largest offset a record gets
    RecordLen(_),   \* bytes proto.Marshal makes of a record
    BufSize         \* capacity of a bufio.Writer (4096 in Go)

Offset == 0 .. MaxOffset
Record == [value : Value, offset : Offset]

ASSUME StoreAssumption ==
    /\ MaxOffset \in Nat
    /\ \A r \in Record : RecordLen(r) \in Nat
    /\ BufSize \in Nat \ {0}

LenWidth == 8

(* The empty map, and the map f with x bound to y. *)
EmptyMap == [x \in {} |-> x]

Put(f, x, y) == [z \in DOMAIN f \cup {x} |-> IF z = x THEN y ELSE f[z]]

FrameLen(r) == LenWidth + RecordLen(r)

(* newStore on a file that O_CREATE has just made. *)
EmptyStore == [data |-> EmptyMap, size |-> 0, flushed |-> 0]

(***************************************************************************)
(* Bytes that stay buffered when w bytes are written to a bufio.Writer     *)
(* that holds b: they are buffered if they fit; otherwise the buffer is    *)
(* filled and written out, and a remainder larger than the buffer goes     *)
(* straight to the file.                                                   *)
(***************************************************************************)
Buffered(b, w) ==
    LET rest == b + w - BufSize
    IN  IF b + w <= BufSize THEN b + w
        ELSE IF b = 0 \/ rest > BufSize THEN 0 ELSE rest

(* A faulty store.Append that forgets the length prefix in the size. *)
StoreAppendNoPrefix(s, r) ==
    LET size == s.size + RecordLen(r)
        left == Buffered(Buffered(s.size - s.flushed, LenWidth), RecordLen(r))
    IN  [data |-> Put(s.data, s.size, r), size |-> size, flushed |-> size - left]

(* store.Append: the length and the record are two writes to the buffer. *)
StoreAppend(s, r) ==
    LET size == s.size + FrameLen(r)
        left == Buffered(Buffered(s.size - s.flushed, LenWidth), RecordLen(r))
    IN  [data |-> Put(s.data, s.size, r), size |-> size, flushed |-> size - left]

(* buf.Flush, which store.Read, ReadAt and Close all begin with. *)
StoreFlush(s) == [data |-> s.data, size |-> s.size, flushed |-> s.size]

(***************************************************************************)
(* store.Read finds a record only where a frame starts.  At or beyond the  *)
(* end of the file it returns io.EOF; inside a frame it would take data    *)
(* for a length.                                                           *)
(***************************************************************************)
StoreHas(s, pos) == pos \in DOMAIN s.data

(***************************************************************************)
(* The store file left by a process that dies without Close, as newStore   *)
(* finds it: the buffered bytes are gone and a frame that was only partly  *)
(* written out is torn.                                                    *)
(***************************************************************************)
StoreAfterCrash(s) ==
    LET whole == {p \in DOMAIN s.data : p + FrameLen(s.data[p]) <= s.flushed}
    IN  [data |-> Restrict(s.data, whole), size |-> s.flushed, flushed |-> s.flushed]

StoreType(s) ==
    /\ DOMAIN s.data \subseteq Nat
    /\ s.data \in [DOMAIN s.data -> Record]
    /\ s.size \in Nat
    /\ s.flushed \in Nat
=============================================================================
