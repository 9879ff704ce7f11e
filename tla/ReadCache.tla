------------------------------- MODULE ReadCache -------------------------------
(***************************************************************************)
(* The short memory for panel reads (panel_read_cache.py): equal GETs of   *)
(* the panel share one answer for eight seconds, one of them asks the      *)
(* handler and the others wait behind its lock.  A panel write empties the *)
(* memory before its handler runs.                                         *)
(*                                                                         *)
(* The panel is one asyncio process: a step is the code between two        *)
(* awaits.  What the panel shows is counted in panel writes: version v of  *)
(* the database is what the first v of them left.  Writes of agents and    *)
(* Bitrix leave the memory alone on purpose and are not counted.           *)
(***************************************************************************)
EXTENDS Naturals, Sequences, FiniteSets, SequencesExt

CONSTANTS
    Keys,        \* path, query and cookie of a read
    Readers,     \* cacheable GETs at the same time
    Writers,     \* panel writes at the same time
    MaxWrites,   \* bound on the writes that commit
    MaxEntries,  \* _MAX_ENTRIES
    MaxLocks,    \* 200 in the code
    NoKey, NoLock

ASSUME CacheAssumption ==
    /\ MaxWrites \in Nat
    /\ MaxEntries \in Nat
    /\ MaxLocks \in Nat
    /\ IsFiniteSet(Keys) /\ IsFiniteSet(Readers)
    /\ NoKey \notin Keys
    /\ NoLock \notin Nat

VARIABLES
    db,      \* the version of the database
    store,   \* _STORE, oldest entry first: every entry lives equally long
    lockOf,  \* lockOf[k]: the lock in _LOCKS for k
    held,    \* the locks a reader holds
    reader,  \* reader[r]: a GET inside the middleware
    writer,  \* writer[w]: an unsafe request inside the middleware
    acked    \* history: the newest version a finished write has answered for

vars == <<db, store, lockOf, held, reader, writer, acked>>

-------------------------------------------------------------------------------
(* A lock object is told from another one only while somebody refers to    *)
(* it, so this many names are enough.                                      *)
Locks == 1..(Cardinality(Keys) + Cardinality(Readers))
Versions == 0..MaxWrites

(* Kind "skip" is the status 0 of _remember: this answer is not kept.      *)
(* "clean" is history: no panel write was under way from the moment the    *)
(* answer was read until it was stored.                                    *)
Entry == [key : Keys, kind : {"kept", "skip"}, ver : Versions, clean : BOOLEAN]

(* "floor" is history: what finished writes had answered for when the read *)
(* came in.  An answered read shows version "ver".                         *)
Reader == [pc : {"idle", "waiting", "fetching", "fetched", "direct", "answered"},
           key : Keys \cup {NoKey}, lock : Locks \cup {NoLock}, ver : Versions,
           floor : Versions, clean : BOOLEAN]
IdleReader == [pc |-> "idle", key |-> NoKey, lock |-> NoLock, ver |-> 0,
               floor |-> 0, clean |-> FALSE]

(* A writer that has committed holds the version it made. *)
Writer == [pc : {"idle", "open", "committed"}, ver : Versions]
IdleWriter == [pc |-> "idle", ver |-> 0]

(* One type invariant; the sequence stands for a dict, so no key is in it  *)
(* twice.                                                                  *)
TypeOK ==
    /\ db \in Versions
    /\ store \in Seq(Entry)
    /\ \A i, j \in DOMAIN store : store[i].key = store[j].key => i = j
    /\ lockOf \in [Keys -> Locks \cup {NoLock}]
    /\ held \in SUBSET Locks
    /\ reader \in [Readers -> Reader]
    /\ writer \in [Writers -> Writer]
    /\ acked \in Versions

Init ==
    /\ db = 0
    /\ store = <<>>
    /\ lockOf = [k \in Keys |-> NoLock]
    /\ held = {}
    /\ reader = [r \in Readers |-> IdleReader]
    /\ writer = [w \in Writers |-> IdleWriter]
    /\ acked = 0

-------------------------------------------------------------------------------
EntriesOf(k) == {i \in DOMAIN store : store[i].key = k}
Missing(k) == EntriesOf(k) = {}
PlaceOf(k) == CHOOSE i \in EntriesOf(k) : TRUE
HitOf(k) == store[PlaceOf(k)]
Others(k) == IF Missing(k) THEN store ELSE RemoveAt(store, PlaceOf(k))

Answered(r, ver) ==
    reader' = [reader EXCEPT ![r].pc = "answered", ![r].lock = NoLock, ![r].ver = ver]

(* Mutated form of RememberIn: what is not kept gets its own status, not 0.*)
RememberStatus(entry) ==
    Append(Others(entry.key),
           IF entry.kind = "kept" THEN entry ELSE [entry EXCEPT !.kind = "error"])

(* _remember: the entry of this key is replaced.  Only an answer that is   *)
(* kept makes room, by one entry.                                          *)
RememberIn(entry) ==
    LET full == Append(Others(entry.key), entry)
    IN  IF entry.kind = "kept" /\ Len(full) > MaxEntries THEN Tail(full) ELSE full

-------------------------------------------------------------------------------
(* Reads. *)

(* Mutated form of LockFor: the table is emptied one lock too early. *)
LockForEarly(k, fresh) ==
    IF lockOf[k] # NoLock THEN lockOf
    ELSE IF Cardinality({j \in Keys : lockOf[j] # NoLock}) >= MaxLocks - 1
           THEN [j \in Keys |-> IF j = k THEN fresh ELSE NoLock]
           ELSE [lockOf EXCEPT ![k] = fresh]

(* _LOCKS with a lock for k in it.  A full table forgets all other locks,  *)
(* those readers hold and wait for included.                               *)
LockFor(k, fresh) ==
    IF lockOf[k] # NoLock THEN lockOf
    ELSE IF Cardinality({j \in Keys : lockOf[j] # NoLock}) >= MaxLocks
           THEN [j \in Keys |-> IF j = k THEN fresh ELSE NoLock]
           ELSE [lockOf EXCEPT ![k] = fresh]

UnusedLocks == Locks \ ({lockOf[k] : k \in Keys} \cup {reader[r].lock : r \in Readers})

Arrived(pc, k, lock, ver) ==
    [pc |-> pc, key |-> k, lock |-> lock, ver |-> ver, floor |-> acked, clean |-> FALSE]

(* A read comes in and finds an answer, a note that there is none to share,*)
(* or nothing: then it queues up for the lock of its key.                  *)
ReadHit(r, k) ==
    /\ reader[r].pc = "idle"
    /\ ~Missing(k)
    /\ reader' = [reader EXCEPT ![r] =
           Arrived(IF HitOf(k).kind = "kept" THEN "answered" ELSE "direct",
                   k, NoLock, HitOf(k).ver)]
    /\ UNCHANGED <<db, store, lockOf, held, writer, acked>>

ReadMiss(r, k) ==
    LET fresh == CHOOSE l \in UnusedLocks : \A m \in UnusedLocks : l <= m
    IN  /\ reader[r].pc = "idle"
        /\ Missing(k)
        /\ lockOf' = LockFor(k, fresh)
        /\ reader' = [reader EXCEPT ![r] =
               Arrived("waiting", k, lockOf'[k], 0)]
        /\ UNCHANGED <<db, store, held, writer, acked>>

(* The lock is granted and the store is looked up again.  A hit gives the  *)
(* lock back at once.                                                      *)
Acquire(r) ==
    LET k == reader[r].key
    IN  /\ reader[r].pc = "waiting"
        /\ reader[r].lock \notin held
        /\ IF Missing(k)
             THEN /\ held' = held \cup {reader[r].lock}
                  /\ reader' = [reader EXCEPT ![r].pc = "fetching"]
             ELSE /\ UNCHANGED held
                  /\ IF HitOf(k).kind = "kept" THEN Answered(r, HitOf(k).ver)
                     ELSE reader' = [reader EXCEPT ![r].pc = "direct", ![r].lock = NoLock]
        /\ UNCHANGED <<db, store, lockOf, writer, acked>>

(* The handler reads the database. *)
Query(r) ==
    /\ reader[r].pc = "fetching"
    /\ reader' = [reader EXCEPT ![r].pc = "fetched", ![r].ver = db,
                                ![r].clean = \A w \in Writers : writer[w].pc = "idle"]
    /\ UNCHANGED <<db, store, lockOf, held, writer, acked>>

(* The last part of the answer is sent: it is remembered, or a note that   *)
(* it was an error, too large or no JSON.                                  *)
Finish(r) ==
    /\ reader[r].pc = "fetched"
    /\ \E kind \in {"kept", "skip"} :
          store' = RememberIn([key |-> reader[r].key, kind |-> kind,
                               ver |-> reader[r].ver, clean |-> reader[r].clean])
    /\ held' = held \ {reader[r].lock}
    /\ Answered(r, reader[r].ver)
    /\ UNCHANGED <<db, lockOf, writer, acked>>

(* Mutated form of Break: the lock is not given back. *)
BreakLocked(r) ==
    /\ reader[r].pc \in {"fetching", "fetched"}
    /\ reader' = [reader EXCEPT ![r] = IdleReader]
    /\ UNCHANGED <<db, store, lockOf, held, writer, acked>>

(* The handler raises, or the client is gone: nothing is remembered. *)
Break(r) ==
    /\ reader[r].pc \in {"fetching", "fetched"}
    /\ held' = held \ {reader[r].lock}
    /\ reader' = [reader EXCEPT ![r] = IdleReader]
    /\ UNCHANGED <<db, store, lockOf, writer, acked>>

(* A reader that was told not to share asks the handler itself. *)
Direct(r) ==
    /\ reader[r].pc = "direct"
    /\ Answered(r, db)
    /\ UNCHANGED <<db, store, lockOf, held, writer, acked>>

Leave(r) ==
    /\ reader[r].pc = "answered"
    /\ reader' = [reader EXCEPT ![r] = IdleReader]
    /\ UNCHANGED <<db, store, lockOf, held, writer, acked>>

(* The eight seconds of the oldest entry are over. *)
Expire ==
    /\ store # <<>>
    /\ store' = Tail(store)
    /\ UNCHANGED <<db, lockOf, held, reader, writer, acked>>

-------------------------------------------------------------------------------
(* Writes. *)

(* History: an answer that was read and not stored yet is not clean now. *)
Overlapped == [r \in Readers |-> [reader[r] EXCEPT !.clean = FALSE]]

(* Mutated form of WriteBegin: the memory is emptied of skip notes only.   *)
WriteBeginNotes(w) ==
    /\ writer[w].pc = "idle"
    /\ store' = SelectSeq(store, LAMBDA entry : entry.kind = "kept")
    /\ writer' = [writer EXCEPT ![w].pc = "open"]
    /\ reader' = Overlapped
    /\ UNCHANGED <<db, lockOf, held, acked>>

(* The memory is dropped, then the handler runs. *)
WriteBegin(w) ==
    /\ writer[w].pc = "idle"
    /\ store' = <<>>
    /\ writer' = [writer EXCEPT ![w].pc = "open"]
    /\ reader' = Overlapped
    /\ UNCHANGED <<db, lockOf, held, acked>>

WriteCommit(w) ==
    /\ writer[w].pc = "open"
    /\ db < MaxWrites
    /\ db' = db + 1
    /\ writer' = [writer EXCEPT ![w] = [pc |-> "committed", ver |-> db + 1]]
    /\ UNCHANGED <<store, lockOf, held, reader, acked>>

(* The handler answers; one that refused has changed nothing. *)
WriteEnd(w) ==
    /\ writer[w].pc # "idle"
    /\ acked' = IF writer[w].ver > acked THEN writer[w].ver ELSE acked
    /\ writer' = [writer EXCEPT ![w] = IdleWriter]
    /\ UNCHANGED <<db, store, lockOf, held, reader>>

-------------------------------------------------------------------------------
ReaderStep(r) == Acquire(r) \/ Query(r) \/ Finish(r) \/ Break(r) \/ Direct(r)

Next ==
    \/ \E r \in Readers :
          \/ \E k \in Keys : ReadHit(r, k) \/ ReadMiss(r, k)
          \/ ReaderStep(r)
          \/ Leave(r)
    \/ Expire
    \/ \E w \in Writers : WriteBegin(w) \/ WriteCommit(w) \/ WriteEnd(w)

Spec == Init /\ [][Next]_vars

(* A handler ends, and asyncio.Lock wakes its waiters in the order they    *)
(* came, so a waiting read is not passed over for ever.                    *)
Fairness ==
    \A r \in Readers : WF_vars(ReaderStep(r)) /\ SF_vars(Acquire(r))

FairSpec == Spec /\ Fairness

-------------------------------------------------------------------------------
(* "One of them talks to Postgres; the rest wait for that answer": no two  *)
(* readers of one key are in the handler under the lock, while the table   *)
(* of locks does not overflow.                                             *)
OneTalks ==
    \A r, s \in Readers :
        /\ r # s
        /\ reader[r].pc \in {"fetching", "fetched"}
        /\ reader[s].pc \in {"fetching", "fetched"}
        => reader[r].key # reader[s].key

(* An old answer is shown only if the read that fetched it overlapped a    *)
(* panel write: any other entry is what the database says now.             *)
CleanIsCurrent ==
    \A i \in DOMAIN store : store[i].kind = "kept" /\ store[i].clean => store[i].ver = db

(* No read waits for ever behind the lock of its key. *)
ReadEnds == \A r \in Readers : reader[r].pc = "waiting" ~> reader[r].pc # "waiting"

(* "A write drops the memory so the next read is fresh": a read that comes *)
(* in after a write has answered shows what the write left.                *)
FreshAfterWrite ==
    \A r \in Readers : reader[r].pc = "answered" => reader[r].ver >= reader[r].floor
================================================================================
