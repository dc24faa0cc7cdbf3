----------------------------- MODULE PebbleStore -----------------------------
(***************************************************************************)
(* internal/raftpebble/store.go: raft's entries and stable values in one   *)
(* ordered key-value database, told apart by the first byte of the key.    *)
(* Keys are sequences of bytes, indexes fixed-width big-endian integers.   *)
(*                                                                         *)
(* The database (pebble) and its one caller (raft) are external.  No write *)
(* is synced (Sync: false): a crash falls back to a state between two      *)
(* writes.  Raft stores entries from its last index on, deletes a prefix   *)
(* of its log to compact it and a suffix when the leader disagrees.        *)
(* Pebble reports events while it opens, runs and closes; each starts a    *)
(* worker that tells the user's callback how busy the database is.         *)
(***************************************************************************)
EXTENDS Naturals, Sequences, FiniteSets, Functions

CONSTANTS
    Base, Width,    \* values of a byte and bytes of an index (256 and 8)
    MaxIndex,       \* bound: the greatest index raft reaches; below the
                    \* greatest integer, where max + 1 would wrap around
    MaxBatch,       \* bound: entries of one StoreLogs
    MaxOlder,       \* bound: writes between two syncs
    MaxWorkers,     \* bound: workers at a time
    Entry,          \* contents of log entries
    Key, Val        \* keys (sequences of bytes) and values of the stable store

(* Powers of Base. *)
Pow[n \in Nat] == IF n = 0 THEN 1 ELSE Base * Pow[n - 1]

ASSUME PebbleAssumption ==
    /\ Base \in Nat \ {0, 1} /\ Width \in Nat \ {0}
    /\ MaxIndex \in 1 .. Pow[Width] - 2
    /\ MaxBatch \in Nat /\ MaxWorkers \in Nat
    /\ Key \subseteq Seq(0 .. Base - 1)

VARIABLES
    db,         \* the database: a function on the keys it has
    older,      \* the databases a crash may fall back to
    phase,      \* "opening", "open", "stopping" or "closing"; dbSet is closed
                \* from "open" on
    workers,    \* workers of notify that have not looked at dbSet yet
    told        \* the callback was called since New

life == <<phase, workers, told>>
vars == <<db, older, life>>

prefixLog == <<0>>
prefixConf == <<1>>

(* Integers of Width bytes wrap around. *)
Word(u) == u % Pow[Width]

uint64ToBytes(u) == [i \in 1 .. Width |-> (u \div Pow[Width - i]) % Base]

bytesToUint64(b) == CHOOSE u \in 0 .. Pow[Width] - 1 : uint64ToBytes(u) = b

LogKey(i) == prefixLog \o uint64ToBytes(i)

(* The order of keys: bytes.Compare. *)
Before(a, b) ==
    \/ Len(a) < Len(b) /\ SubSeq(b, 1, Len(a)) = a
    \/ \E i \in DOMAIN a \cap DOMAIN b :
          a[i] < b[i] /\ \A j \in 1 .. i - 1 : a[j] = b[j]

Within(d, lower, upper) == {k \in DOMAIN d : ~Before(k, lower) /\ Before(k, upper)}

(* What an iterator with the bounds of the log's keys finds at its ends;
   0 when it finds nothing. *)
IndexOf(k) == bytesToUint64(SubSeq(k, Len(prefixLog) + 1, Len(k)))

FirstIndex ==
    LET keys == Within(db, prefixLog, prefixConf)
    IN  IF keys = {} THEN 0
        ELSE IndexOf(CHOOSE k \in keys : \A x \in keys : ~Before(x, k))

LastIndex ==
    LET keys == Within(db, prefixLog, prefixConf)
    IN  IF keys = {} THEN 0
        ELSE IndexOf(CHOOSE k \in keys : \A x \in keys : ~Before(k, x))

Init ==
    /\ db = <<>>
    /\ older = {}
    /\ phase = "opening"
    /\ workers = 0
    /\ told = FALSE

-----------------------------------------------------------------------------
Write(d) ==
    /\ phase = "open"
    /\ Cardinality(older) < MaxOlder
    /\ db' = d
    /\ older' = older \cup {db}
    /\ UNCHANGED life

Put(d, keys, v) == [k \in DOMAIN d \cup keys |-> IF k \in keys THEN v ELSE d[k]]

(* StoreLogs: one batch, with the key of each entry's own index. *)
StoreLogs(first, n, e) == Write(Put(db, {LogKey(i) : i \in first .. first + n - 1}, e))

(* A faulty DeleteRange that takes the end of pebble's range for inclusive. *)
DeleteRangeHalfOpen(min, max) ==
    Write(Restrict(db, DOMAIN db \ Within(db, LogKey(min), LogKey(max))))

(* A faulty DeleteRange whose end has the prefix of the stable keys. *)
DeleteRangeIntoConf(min, max) ==
    Write(Restrict(db, DOMAIN db \
        Within(db, LogKey(min), prefixConf \o uint64ToBytes(Word(max + 1)))))

(* DeleteRange(min, max): pebble's range is half open, so it ends at max + 1. *)
DeleteRange(min, max) ==
    Write(Restrict(db, DOMAIN db \ Within(db, LogKey(min), LogKey(Word(max + 1)))))

(* A faulty Set that leaves the prefix out. *)
SetBare(k, v) == Write(Put(db, {k}, v))

Set(k, v) == Write(Put(db, {prefixConf \o k}, v))

(* Pebble syncs in the background. *)
Sync ==
    /\ older' = {}
    /\ UNCHANGED <<db, life>>

(* The process dies, and the next one calls New. *)
Crash ==
    /\ db' \in older \cup {db}
    /\ older' = {}
    /\ phase' = "opening" /\ workers' = 0 /\ told' = FALSE

-----------------------------------------------------------------------------
(* A log file is created, a flush or a compaction ends. *)
notify ==
    /\ workers < MaxWorkers
    /\ workers' = workers + 1
    /\ UNCHANGED <<db, older, phase, told>>

(* The worker: nothing happens before dbSet is closed. *)
Worker ==
    /\ workers > 0
    /\ workers' = workers - 1
    /\ told' = (told \/ phase # "opening")
    /\ UNCHANGED <<db, older, phase>>

(* A faulty New that makes do with the event of pebble.Open. *)
NewQuiet ==
    /\ phase = "opening"
    /\ phase' = "open"
    /\ UNCHANGED <<db, older, workers, told>>

(* New has the database: setEventListener closes dbSet and forces an event. *)
New ==
    /\ phase = "opening"
    /\ phase' = "open"
    /\ workers' = workers + 1
    /\ UNCHANGED <<db, older, told>>

(* Close stops the event listener, which waits for the workers there are... *)
Close ==
    /\ phase = "open"
    /\ phase' = "stopping"
    /\ UNCHANGED <<db, older, workers, told>>

Stopped ==
    /\ phase = "stopping"
    /\ workers = 0
    /\ phase' = "closing"
    /\ UNCHANGED <<db, older, workers, told>>

(* ... and closes the database, whose last events may start workers again.
   Then the process ends; the next one calls New. *)
Closed ==
    /\ phase = "closing"
    /\ older' = {}
    /\ phase' = "opening" /\ workers' = 0 /\ told' = FALSE
    /\ UNCHANGED db

-----------------------------------------------------------------------------
(* The calls raft makes. *)
Next ==
    \/ \E first \in 1 .. MaxIndex, n \in 1 .. MaxBatch, e \in Entry :
          /\ LastIndex # 0 => first = LastIndex + 1
          /\ first + n - 1 <= MaxIndex
          /\ StoreLogs(first, n, e)
    \/ \E max \in FirstIndex .. LastIndex : FirstIndex # 0 /\ DeleteRange(FirstIndex, max)
    \/ \E min \in FirstIndex .. LastIndex : FirstIndex # 0 /\ DeleteRange(min, LastIndex)
    \/ \E k \in Key, v \in Val : Set(k, v)
    \/ Sync
    \/ Crash
    \/ notify \/ Worker
    \/ New \/ Close \/ Stopped \/ Closed

(* Workers run. *)
Spec == Init /\ [][Next]_vars /\ WF_vars(Worker)

-----------------------------------------------------------------------------
(* The entries and the values a database holds for raft. *)
Indexes(d) == {i \in 1 .. Pow[Width] - 1 : LogKey(i) \in DOMAIN d}
LogsOf(d) == [i \in Indexes(d) |-> d[LogKey(i)]]
StableOf(d) == [k \in {x \in Key : prefixConf \o x \in DOMAIN d} |-> d[prefixConf \o k]]

R == INSTANCE RaftStore WITH
        logs <- LogsOf(db),
        stable <- StableOf(db),
        older <- {<<LogsOf(d), StableOf(d)>> : d \in older}

(* Every variable holds a value of its kind; no key is outside the two ranges. *)
TypeOK ==
    /\ \A d \in {db} \cup older :
          /\ DOMAIN d \subseteq {LogKey(i) : i \in 1 .. MaxIndex} \cup {prefixConf \o k : k \in Key}
          /\ \A k \in DOMAIN d : d[k] \in Entry \cup Val
    /\ phase \in {"opening", "open", "stopping", "closing"}
    /\ workers \in 0 .. MaxWorkers + 1
    /\ told \in BOOLEAN

(* What the log's keys hold has no gap for any sequence of raft's calls, and
   crashes in between: FirstIndex .. LastIndex are the indexes stored. *)
NoGap ==
    Indexes(db) = IF LastIndex = 0 THEN {} ELSE FirstIndex .. LastIndex

(* On byte keys in one database the store does what raft expects of an entry
   store and of a value store: "a pebble based LogStore StableStore". *)
ImplementsRaftStore == R!Spec

(* The callback hears of an opened store, whether or not the worker of the
   event that pebble.Open issued looked at dbSet too early: "force a
   WALCreated event as the one issued when opening the DB didn't get
   handled". *)
OpenIsTold == phase = "open" ~> told \/ phase = "opening"
=============================================================================
