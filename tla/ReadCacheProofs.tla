---------------------------- MODULE ReadCacheProofs ----------------------------
(***************************************************************************)
(* Proofs about ReadCache, for any number of keys, reads and writes, and   *)
(* any size of the memory and of the table of locks.                       *)
(***************************************************************************)
EXTENDS ReadCache, CommonLemmas

-------------------------------------------------------------------------------
(* The inductive invariant. *)

Queued(r) == reader[r].pc \in {"waiting", "fetching", "fetched"}
Holding(r) == reader[r].pc \in {"fetching", "fetched"}

(* A read refers to a lock from the miss until it gives the lock back. *)
LockWhileQueued ==
    \A r \in Readers : /\ Queued(r) <=> reader[r].lock # NoLock
                       /\ Queued(r) => reader[r].key \in Keys

(* asyncio.Lock: the held locks are those of the readers in the handler,   *)
(* and no two of them have the same one.                                   *)
LocksAreExclusive ==
    /\ held = {reader[r].lock : r \in {s \in Readers : Holding(s)}}
    /\ \A r, s \in Readers :
          Holding(r) /\ Holding(s) /\ reader[r].lock = reader[s].lock => r = s

(* The table of locks holds one lock for each key. *)
TableFits == Cardinality(Keys) <= MaxLocks

(* In a table that never overflows the readers of a key all refer to the   *)
(* lock the table has for it.                                              *)
TableIsCurrent ==
    TableFits => \A r \in Readers : Queued(r) => lockOf[reader[r].key] = reader[r].lock

(* What is clean is what the database says, and nothing is clean while a   *)
(* panel write is under way: it may commit at any moment.                  *)
CleanReads ==
    \A r \in Readers : reader[r].clean =>
        reader[r].pc \in {"fetched", "answered"} /\ reader[r].ver = db
CleanEntries == \A i \in DOMAIN store : store[i].clean => store[i].ver = db
WritesMakeUnclean ==
    (\E w \in Writers : writer[w].pc # "idle") =>
        /\ \A r \in Readers : ~reader[r].clean
        /\ \A i \in DOMAIN store : ~store[i].clean

LockInv == LockWhileQueued /\ LocksAreExclusive /\ TableIsCurrent
CleanInv == CleanReads /\ CleanEntries /\ WritesMakeUnclean
CacheInv == TypeOK /\ LockInv /\ CleanInv

-------------------------------------------------------------------------------
(* The memory as a sequence.                                               *)

ElementsOf(s) == {s[i] : i \in DOMAIN s}
Distinct(s) == \A i, j \in DOMAIN s : s[i].key = s[j].key => i = j

(* The oldest entry is dropped. *)
LEMMA TailOfStore ==
    ASSUME NEW s \in Seq(Entry), s # <<>>, Distinct(s)
    PROVE  /\ Tail(s) \in Seq(Entry) /\ Distinct(Tail(s))
           /\ \A i \in DOMAIN Tail(s) : \E j \in DOMAIN s : Tail(s)[i] = s[j]
<1> DEFINE t == Tail(s)
<1>1. /\ t \in Seq(Entry) /\ Len(s) \in Nat \ {0} /\ DOMAIN t = 1..(Len(s) - 1)
      /\ \A i \in DOMAIN t : i + 1 \in DOMAIN s /\ t[i] = s[i + 1]
  BY TailPlaces
<1> HIDE DEF t
<1>2. Distinct(t)
  <2> SUFFICES ASSUME NEW i \in DOMAIN t, NEW j \in DOMAIN t, t[i].key = t[j].key
               PROVE  i = j
    BY DEF Distinct
  <2>1. i + 1 = j + 1
    BY <1>1 DEF Distinct
  <2> QED
    BY <1>1, <2>1
<1> QED
  BY <1>1, <1>2 DEF t

(* One entry is taken out. *)
LEMMA RemoveFromStore ==
    ASSUME NEW s \in Seq(Entry), NEW p \in DOMAIN s, Distinct(s)
    PROVE  /\ RemoveAt(s, p) \in Seq(Entry) /\ Distinct(RemoveAt(s, p))
           /\ \A i \in DOMAIN RemoveAt(s, p) : \E j \in DOMAIN s \ {p} : RemoveAt(s, p)[i] = s[j]
<1> DEFINE t == RemoveAt(s, p)
<1>1. t \in Seq(Entry) /\ \E place : KeptPlaces(s, p, t, place)
  BY RemovedPlaces
<1> HIDE DEF t
<1>2. PICK place : KeptPlaces(s, p, t, place)
  BY <1>1
<1>3. Distinct(t)
  BY <1>2 DEF Distinct, KeptPlaces
<1>4. \A i \in DOMAIN t : \E j \in DOMAIN s \ {p} : t[i] = s[j]
  BY <1>2 DEF KeptPlaces
<1> QED
  BY <1>1, <1>3, <1>4 DEF t

(* A new entry comes last. *)
LEMMA AppendToStore ==
    ASSUME NEW s \in Seq(Entry), NEW e \in Entry, Distinct(s),
           \A i \in DOMAIN s : s[i].key # e.key
    PROVE  /\ Append(s, e) \in Seq(Entry) /\ Append(s, e) # <<>> /\ Distinct(Append(s, e))
           /\ \A i \in DOMAIN Append(s, e) :
                 Append(s, e)[i] = e \/ \E j \in DOMAIN s : Append(s, e)[i] = s[j]
<1> DEFINE t == Append(s, e)
<1>1. /\ t \in Seq(Entry) /\ t # <<>>
      /\ Len(s) + 1 \notin DOMAIN s /\ DOMAIN t = DOMAIN s \cup {Len(s) + 1}
      /\ \A i \in DOMAIN s : t[i] = s[i]
      /\ t[Len(s) + 1] = e
  BY AppendedPlaces
<1> HIDE DEF t
<1>2. Distinct(t)
  BY <1>1 DEF Distinct
<1> QED
  BY <1>1, <1>2 DEF t

(* What _remember leaves: no key twice, and no entry but the new one that  *)
(* was not there before.                                                   *)
LEMMA RememberedStore ==
    ASSUME TypeOK, NEW e \in Entry
    PROVE  /\ RememberIn(e) \in Seq(Entry) /\ Distinct(RememberIn(e))
           /\ \A i \in DOMAIN RememberIn(e) :
                 RememberIn(e)[i] = e \/ \E j \in DOMAIN store : RememberIn(e)[i] = store[j]
<1> USE DEF TypeOK
<1>1. Distinct(store)
  BY DEF Distinct
<1>2. /\ Others(e.key) \in Seq(Entry) /\ Distinct(Others(e.key))
      /\ \A i \in DOMAIN Others(e.key) :
            Others(e.key)[i].key # e.key /\ \E j \in DOMAIN store : Others(e.key)[i] = store[j]
  <2>1. CASE Missing(e.key)
    BY <1>1, <2>1 DEF Others, Missing, EntriesOf
  <2>2. CASE ~Missing(e.key)
    <3>1. PlaceOf(e.key) \in DOMAIN store /\ store[PlaceOf(e.key)].key = e.key
      BY <2>2 DEF PlaceOf, Missing, EntriesOf
    <3>2. \A j \in DOMAIN store \ {PlaceOf(e.key)} : store[j].key # e.key
      BY <1>1, <3>1 DEF Distinct
    <3> QED
      BY <1>1, <2>2, <3>1, <3>2, RemoveFromStore DEF Others
  <2> QED
    BY <2>1, <2>2
<1> DEFINE full == Append(Others(e.key), e)
<1>3. /\ full \in Seq(Entry) /\ full # <<>> /\ Distinct(full)
      /\ \A i \in DOMAIN full : full[i] = e \/ \E j \in DOMAIN store : full[i] = store[j]
  BY <1>2, AppendToStore
<1>4. RememberIn(e) \in {full, Tail(full)}
  BY DEF RememberIn
<1> HIDE DEF full
<1>5. CASE RememberIn(e) = full
  BY <1>3, <1>5
<1>6. CASE RememberIn(e) = Tail(full)
  <2>1. /\ Tail(full) \in Seq(Entry) /\ Distinct(Tail(full))
        /\ \A i \in DOMAIN Tail(full) : \E j \in DOMAIN full : Tail(full)[i] = full[j]
    BY <1>3, TailOfStore
  <2> QED
    BY <1>3, <1>6, <2>1
<1> QED
  BY <1>4, <1>5, <1>6

(* A hit is an entry of its key. *)
LEMMA HitIsEntry ==
    ASSUME TypeOK, NEW k \in Keys, ~Missing(k)
    PROVE  PlaceOf(k) \in DOMAIN store /\ HitOf(k) = store[PlaceOf(k)] /\ HitOf(k) \in Entry
<1>1. PlaceOf(k) \in DOMAIN store
  BY DEF Missing, EntriesOf, PlaceOf
<1> QED
  BY <1>1 DEF HitOf, TypeOK

-------------------------------------------------------------------------------
(* A read that misses gets a lock that nobody refers to: there are as many *)
(* names as keys and reads, and this read refers to none yet.              *)
LEMMA FreshLock ==
    ASSUME TypeOK, LockWhileQueued, NEW r \in Readers, reader[r].pc = "idle"
    PROVE  (CHOOSE l \in UnusedLocks : \A m \in UnusedLocks : l <= m) \in Locks
<1> USE CacheAssumption DEF TypeOK
<1> DEFINE n == Cardinality(Keys) + Cardinality(Readers)
           others == Readers \ {r}
           lockAt == [s \in others |-> reader[s].lock]
           inTable == {lockOf[k] : k \in Keys}
           inUse == {lockAt[s] : s \in others}
<1>1. Cardinality(Keys) \in Nat /\ Cardinality(Readers) \in Nat
  BY FS_CardinalityType
<1>2. IsFiniteSet(Locks) /\ Cardinality(Locks) = n
  <2>1. 1 \in Int /\ n \in Int
    BY <1>1
  <2>2. IsFiniteSet(1..n) /\ Cardinality(1..n) = IF 1 > n THEN 0 ELSE n - 1 + 1
    BY <2>1, FS_Interval
  <2> QED
    BY <1>1, <2>2 DEF Locks
<1>3. IsFiniteSet(inTable) /\ Cardinality(inTable) <= Cardinality(Keys)
  <2>1. lockOf \in Surjection(Keys, inTable)
    BY DEF Surjection
  <2> HIDE DEF inTable
  <2> QED
    BY <2>1, FS_Surjection
<1>4. IsFiniteSet(others) /\ Cardinality(others) = Cardinality(Readers) - 1
  BY FS_RemoveElement
<1>5. IsFiniteSet(inUse) /\ Cardinality(inUse) <= Cardinality(others)
  <2>1. lockAt \in Surjection(others, inUse)
    BY DEF Surjection
  <2> HIDE DEF inUse, lockAt, others
  <2> QED
    BY <1>4, <2>1, FS_Surjection
<1>6. IsFiniteSet(inTable \cup inUse) /\ Cardinality(inTable \cup inUse) < n
  <2> HIDE DEF inTable, inUse, others
  <2>1. /\ IsFiniteSet(inTable \cup inUse)
        /\ Cardinality(inTable \cup inUse)
             = Cardinality(inTable) + Cardinality(inUse) - Cardinality(inTable \cap inUse)
    BY <1>3, <1>5, FS_Union
  <2>2. IsFiniteSet(inTable \cap inUse)
    BY <1>3, FS_Intersection
  <2>3. Cardinality(inTable \cap inUse) \in Nat
    BY <2>2, FS_CardinalityType
  <2>4. Cardinality(inTable) \in Nat /\ Cardinality(inUse) \in Nat
    BY <1>3, <1>5, FS_CardinalityType
  <2> QED
    BY <1>1, <1>3, <1>4, <1>5, <2>1, <2>3, <2>4
<1>7. \E l \in Locks : l \notin inTable \cup inUse
  <2> SUFFICES ASSUME Locks \subseteq inTable \cup inUse
               PROVE  FALSE
    OBVIOUS
  <2> HIDE DEF inTable, inUse
  <2>1. Cardinality(Locks) <= Cardinality(inTable \cup inUse)
    BY <1>6, FS_Subset
  <2>2. Cardinality(inTable \cup inUse) \in Nat
    BY <1>6, FS_CardinalityType
  <2> QED
    BY <1>1, <1>2, <1>6, <2>1, <2>2
<1>8. UnusedLocks # {}
  <2>1. reader[r].lock = NoLock
    BY DEF LockWhileQueued, Queued
  <2>2. \A l \in Locks : l # NoLock
    BY <1>1 DEF Locks
  <2> QED
    BY <1>7, <2>1, <2>2 DEF UnusedLocks
<1>9. \E l \in UnusedLocks : \A m \in UnusedLocks : l <= m
  <2>1. UnusedLocks \in SUBSET (1..n)
    BY DEF UnusedLocks, Locks
  <2> QED
    <3>1. n \in Nat
      BY <1>1
    <3> HIDE DEF n
    <3> QED
      BY <1>8, <2>1, <3>1, LeastMember
<1> QED
  BY <1>9 DEF UnusedLocks

-------------------------------------------------------------------------------
(* What each step makes of its reader.                                     *)

At(pc, key, lock, ver, floor, clean) ==
    [pc |-> pc, key |-> key, lock |-> lock, ver |-> ver, floor |-> floor, clean |-> clean]
Moves(r, new) == reader' = [reader EXCEPT ![r] = new]
Answer(r, ver) == At("answered", reader[r].key, NoLock, ver, reader[r].floor, reader[r].clean)

LEMMA AnsweredMoves ==
    ASSUME TypeOK, NEW r \in Readers, NEW ver, Answered(r, ver)
    PROVE  Moves(r, Answer(r, ver))
<1>1. reader \in [Readers -> Reader] /\ reader[r] \in Reader
  BY DEF TypeOK
<1>2. [reader EXCEPT ![r].pc = "answered", ![r].lock = NoLock, ![r].ver = ver][r] = Answer(r, ver)
  BY <1>1 DEF Answer, At, Reader
<1>3. reader' = [reader EXCEPT ![r].pc = "answered", ![r].lock = NoLock, ![r].ver = ver]
  BY DEF Answered
<1> HIDE DEF Reader
<1> QED
  BY <1>1, <1>2, <1>3 DEF Moves

LEMMA ReadHitMoves ==
    ASSUME TypeOK, NEW r \in Readers, NEW k \in Keys, ReadHit(r, k)
    PROVE  \E pc \in {"answered", "direct"}, ver \in Versions :
              Moves(r, At(pc, k, NoLock, ver, acked, FALSE))
<1>1. HitOf(k).ver \in Versions
  BY HitIsEntry DEF ReadHit, Entry
<1>2. reader' = [reader EXCEPT ![r] =
          At(IF HitOf(k).kind = "kept" THEN "answered" ELSE "direct", k, NoLock,
             HitOf(k).ver, acked, FALSE)]
  BY DEF ReadHit, Arrived, At
<1> QED
  BY <1>1, <1>2 DEF Moves

LEMMA ReadMissMoves ==
    ASSUME TypeOK, LockWhileQueued, NEW r \in Readers, NEW k \in Keys, ReadMiss(r, k)
    PROVE  \E fresh \in Locks :
              /\ lockOf' = LockFor(k, fresh)
              /\ Moves(r, At("waiting", k, lockOf'[k], 0, acked, FALSE))
<1> DEFINE fresh == CHOOSE l \in UnusedLocks : \A m \in UnusedLocks : l <= m
<1>1. fresh \in Locks
  BY FreshLock DEF ReadMiss
<1> HIDE DEF fresh
<1>2. lockOf' = LockFor(k, fresh)
  BY DEF ReadMiss, fresh
<1>3. reader' = [reader EXCEPT ![r] = At("waiting", k, lockOf'[k], 0, acked, FALSE)]
  BY DEF ReadMiss, Arrived, At
<1> QED
  BY <1>1, <1>2, <1>3 DEF Moves

LEMMA AcquireMoves ==
    ASSUME TypeOK, LockWhileQueued, NEW r \in Readers, Acquire(r)
    PROVE  \/ /\ held' = held \cup {reader[r].lock}
              /\ Moves(r, At("fetching", reader[r].key, reader[r].lock, reader[r].ver,
                             reader[r].floor, reader[r].clean))
           \/ /\ UNCHANGED held
              /\ \E ver \in Versions : Moves(r, Answer(r, ver))
           \/ /\ UNCHANGED held
              /\ Moves(r, At("direct", reader[r].key, NoLock, reader[r].ver,
                             reader[r].floor, reader[r].clean))
<1> USE DEF TypeOK
<1>1. reader[r].key \in Keys
  BY DEF Acquire, LockWhileQueued, Queued
<1>2. CASE Missing(reader[r].key)
  BY <1>2 DEF Acquire, Moves, At, Reader
<1>3. CASE ~Missing(reader[r].key) /\ HitOf(reader[r].key).kind = "kept"
  <2>1. HitOf(reader[r].key).ver \in Versions
    BY <1>1, <1>3, HitIsEntry DEF Entry
  <2>2. Moves(r, Answer(r, HitOf(reader[r].key).ver)) /\ UNCHANGED held
    BY <1>3 DEF Acquire, Answered, Answer, Moves, At, Reader
  <2> QED
    BY <2>1, <2>2
<1>4. CASE ~Missing(reader[r].key) /\ HitOf(reader[r].key).kind # "kept"
  BY <1>4 DEF Acquire, Moves, At, Reader
<1> QED
  BY <1>2, <1>3, <1>4

LEMMA QueryMoves ==
    ASSUME TypeOK, NEW r \in Readers, Query(r)
    PROVE  Moves(r, At("fetched", reader[r].key, reader[r].lock, db, reader[r].floor,
                       \A w \in Writers : writer[w].pc = "idle"))
<1> DEFINE quiet == \A w \in Writers : writer[w].pc = "idle"
<1>1. reader' = [reader EXCEPT ![r].pc = "fetched", ![r].ver = db, ![r].clean = quiet]
  BY DEF Query
<1> HIDE DEF quiet
<1>2. reader \in [Readers -> Reader] /\ reader[r] \in Reader
  BY DEF TypeOK
<1>3. [reader EXCEPT ![r].pc = "fetched", ![r].ver = db, ![r].clean = quiet][r]
        = At("fetched", reader[r].key, reader[r].lock, db, reader[r].floor, quiet)
  BY <1>2 DEF At, Reader
<1>4. Moves(r, At("fetched", reader[r].key, reader[r].lock, db, reader[r].floor, quiet))
  <2> HIDE DEF Reader
  <2> QED
    BY <1>1, <1>2, <1>3 DEF Moves
<1> QED
  BY <1>4 DEF quiet

LEMMA FinishMoves ==
    ASSUME TypeOK, NEW r \in Readers, Finish(r)
    PROVE  Moves(r, Answer(r, reader[r].ver))
BY AnsweredMoves DEF Finish

LEMMA DirectMoves ==
    ASSUME TypeOK, NEW r \in Readers, Direct(r)
    PROVE  Moves(r, Answer(r, db))
BY AnsweredMoves DEF Direct

LEMMA IdleMoves ==
    ASSUME NEW r \in Readers, Break(r) \/ Leave(r)
    PROVE  Moves(r, At("idle", NoKey, NoLock, 0, 0, FALSE))
BY DEF Break, Leave, Moves, At, IdleReader

(* Steps that move one reader, and steps that move none.                   *)
ReadStep(r) == (\E k \in Keys : ReadHit(r, k) \/ ReadMiss(r, k)) \/ ReaderStep(r) \/ Leave(r)

(* What Finish stores. *)
LEMMA FinishStores ==
    ASSUME TypeOK, LockWhileQueued, NEW r \in Readers, Finish(r)
    PROVE  \E e \in Entry : /\ e.ver = reader[r].ver /\ e.clean = reader[r].clean
                            /\ store' = RememberIn(e)
<1>1. PICK kind \in {"kept", "skip"} :
          store' = RememberIn([key |-> reader[r].key, kind |-> kind,
                               ver |-> reader[r].ver, clean |-> reader[r].clean])
  BY DEF Finish
<1>2. reader[r].key \in Keys /\ reader[r].ver \in Versions /\ reader[r].clean \in BOOLEAN
  BY DEF Finish, LockWhileQueued, Queued, TypeOK, Reader
<1>3. [key |-> reader[r].key, kind |-> kind,
       ver |-> reader[r].ver, clean |-> reader[r].clean] \in Entry
  BY <1>2 DEF Entry
<1> QED
  BY <1>1, <1>3

(* Every variable keeps its shape, and the store its keys. *)
LEMMA TypeStep ==
    ASSUME TypeOK, LockWhileQueued, Next
    PROVE  TypeOK'
<1> USE CacheAssumption DEF TypeOK
<1>1. ASSUME NEW r \in Readers, NEW new \in Reader, Moves(r, new)
      PROVE  reader' \in [Readers -> Reader]
  BY <1>1 DEF Moves
<1>2. 0 \in Versions
  BY DEF Versions
<1>3. ASSUME NEW r \in Readers, NEW pc \in {"idle", "waiting", "fetching", "fetched", "direct", "answered"},
             NEW key \in Keys \cup {NoKey}, NEW lock \in Locks \cup {NoLock},
             NEW ver \in Versions, NEW floor \in Versions, NEW clean \in BOOLEAN,
             Moves(r, At(pc, key, lock, ver, floor, clean))
      PROVE  reader' \in [Readers -> Reader]
  <2>1. At(pc, key, lock, ver, floor, clean) \in Reader
    BY DEF At, Reader
  <2> QED
    BY <1>1, <1>3, <2>1
<1>4. ASSUME NEW r \in Readers
      PROVE  /\ reader[r].key \in Keys \cup {NoKey} /\ reader[r].lock \in Locks \cup {NoLock}
             /\ reader[r].ver \in Versions /\ reader[r].floor \in Versions
             /\ reader[r].clean \in BOOLEAN
  BY DEF Reader
<1>5. ASSUME NEW r \in Readers, ReadStep(r)
      PROVE  reader' \in [Readers -> Reader]
  <2>1. ASSUME NEW k \in Keys, ReadHit(r, k)
        PROVE  reader' \in [Readers -> Reader]
    BY <1>3, <2>1, ReadHitMoves
  <2>2. ASSUME NEW k \in Keys, ReadMiss(r, k)
        PROVE  reader' \in [Readers -> Reader]
    <3>1. PICK fresh \in Locks : /\ lockOf' = LockFor(k, fresh)
                                 /\ Moves(r, At("waiting", k, lockOf'[k], 0, acked, FALSE))
      BY <2>2, ReadMissMoves
    <3>2. lockOf'[k] \in Locks \cup {NoLock}
      BY <3>1 DEF LockFor
    <3> QED
      BY <1>2, <1>3, <3>1, <3>2
  <2>3. CASE Acquire(r)
    <3>1. CASE Moves(r, At("fetching", reader[r].key, reader[r].lock, reader[r].ver,
                             reader[r].floor, reader[r].clean))
      BY <1>3, <1>4, <3>1
    <3>2. ASSUME NEW ver \in Versions, Moves(r, Answer(r, ver))
          PROVE  reader' \in [Readers -> Reader]
      BY <1>3, <1>4, <3>2 DEF Answer
    <3>3. CASE Moves(r, At("direct", reader[r].key, NoLock, reader[r].ver,
                             reader[r].floor, reader[r].clean))
      BY <1>3, <1>4, <3>3
    <3> QED
      BY <2>3, <3>1, <3>2, <3>3, AcquireMoves
  <2>4. CASE Query(r)
    <3> DEFINE quiet == \A w \in Writers : writer[w].pc = "idle"
    <3>1. Moves(r, At("fetched", reader[r].key, reader[r].lock, db, reader[r].floor, quiet))
      BY <2>4, QueryMoves
    <3>2. quiet \in BOOLEAN
      OBVIOUS
    <3> HIDE DEF quiet
    <3> QED
      BY <1>3, <1>4, <3>1, <3>2
  <2>5. CASE Finish(r)
    BY <1>3, <1>4, <2>5, FinishMoves DEF Answer
  <2>6. CASE Direct(r)
    BY <1>3, <1>4, <2>6, DirectMoves DEF Answer
  <2>7. CASE Break(r) \/ Leave(r)
    BY <1>2, <1>3, <2>7, IdleMoves
  <2> QED
    BY <1>5, <2>1, <2>2, <2>3, <2>4, <2>5, <2>6, <2>7 DEF ReadStep, ReaderStep
<1>6. ASSUME NEW r \in Readers, ReadStep(r)
      PROVE  /\ UNCHANGED <<db, writer, acked>>
             /\ lockOf' \in [Keys -> Locks \cup {NoLock}] /\ held' \in SUBSET Locks
  <2>1. UNCHANGED <<db, writer, acked>>
    BY <1>6 DEF ReadStep, ReaderStep, ReadHit, ReadMiss, Acquire, Query, Finish, Break, Direct, Leave
  <2>2. ASSUME NEW k \in Keys, ReadMiss(r, k)
        PROVE  lockOf' \in [Keys -> Locks \cup {NoLock}]
    BY <2>2, ReadMissMoves DEF LockFor
  <2>3. lockOf' = lockOf \/ \E k \in Keys : ReadMiss(r, k)
    BY <1>6 DEF ReadStep, ReaderStep, ReadHit, Acquire, Query, Finish, Break, Direct, Leave
  <2>4. CASE Acquire(r)
    <3>1. reader[r].lock \in Locks
      BY <1>4, <2>4 DEF Acquire, LockWhileQueued, Queued
    <3> QED
      BY <2>4, <3>1 DEF Acquire
  <2>5. held' \subseteq held \/ Acquire(r)
    BY <1>6 DEF ReadStep, ReaderStep, ReadHit, ReadMiss, Query, Finish, Break, Direct, Leave
  <2> QED
    BY <2>1, <2>2, <2>3, <2>4, <2>5
<1>7. ASSUME NEW r \in Readers, ReadStep(r)
      PROVE  store' \in Seq(Entry) /\ Distinct(store')
  <2>1. CASE Finish(r)
    BY <2>1, FinishStores, RememberedStore
  <2>2. store' = store \/ Finish(r)
    BY <1>7 DEF ReadStep, ReaderStep, ReadHit, ReadMiss, Acquire, Query, Break, Direct, Leave
  <2> QED
    BY <2>1, <2>2 DEF Distinct
<1>8. ASSUME NEW r \in Readers, ReadStep(r)
      PROVE  TypeOK'
  BY <1>5, <1>6, <1>7, <1>8 DEF Distinct
<1>9. CASE Expire
  <2>1. store' \in Seq(Entry) /\ Distinct(store')
    <3>1. store \in Seq(Entry) /\ store # <<>> /\ Distinct(store) /\ store' = Tail(store)
      BY <1>9 DEF Expire, Distinct
    <3> QED
      BY <3>1, TailOfStore
  <2> QED
    BY <1>9, <2>1 DEF Expire, Distinct
<1>10. ASSUME NEW w \in Writers, WriteBegin(w)
       PROVE  TypeOK'
  <2>1. \A r \in Readers : [reader[r] EXCEPT !.clean = FALSE] \in Reader
    BY DEF Reader
  <2>2. reader' \in [Readers -> Reader]
    BY <1>10, <2>1 DEF WriteBegin, Overlapped
  <2>3. store' \in Seq(Entry) /\ Distinct(store')
    BY <1>10 DEF WriteBegin, Distinct
  <2>4. writer' \in [Writers -> Writer]
    BY <1>10 DEF WriteBegin, Writer
  <2> QED
    BY <1>10, <2>2, <2>3, <2>4 DEF WriteBegin, Distinct
<1>11. ASSUME NEW w \in Writers, WriteCommit(w)
       PROVE  TypeOK'
  <2>1. db + 1 \in Versions
    BY <1>11 DEF WriteCommit, Versions
  <2>2. [pc |-> "committed", ver |-> db + 1] \in Writer
    BY <2>1 DEF Writer
  <2>3. db' \in Versions /\ writer' \in [Writers -> Writer]
    BY <1>11, <2>1, <2>2 DEF WriteCommit
  <2> QED
    BY <1>11, <2>3 DEF WriteCommit
<1>12. ASSUME NEW w \in Writers, WriteEnd(w)
       PROVE  TypeOK'
  <2>1. writer[w].ver \in Versions
    BY DEF Writer
  <2>2. IdleWriter \in Writer
    BY <1>2 DEF IdleWriter, Writer
  <2> QED
    BY <1>12, <2>1, <2>2 DEF WriteEnd
<1> QED
  BY <1>8, <1>9, <1>10, <1>11, <1>12 DEF Next, ReadStep

-------------------------------------------------------------------------------
(* The locks.                                                              *)

(* A reader that goes where no lock is needed leaves without one. *)
LEMMA Unlocked ==
    ASSUME TypeOK, LockInv, NEW r \in Readers, UNCHANGED lockOf,
           NEW pc \in {"idle", "direct", "answered"}, NEW key, NEW ver, NEW floor, NEW clean,
           Moves(r, At(pc, key, NoLock, ver, floor, clean)),
           held' = held \ (IF Holding(r) THEN {reader[r].lock} ELSE {})
    PROVE  LockInv'
<1> USE DEF LockInv
<1>1. /\ reader'[r].pc = pc /\ reader'[r].lock = NoLock
      /\ \A s \in Readers \ {r} : reader'[s] = reader[s]
  BY DEF Moves, At, TypeOK
<1>2. LockWhileQueued'
  BY <1>1 DEF LockWhileQueued, Queued
<1>3. LocksAreExclusive'
  <2>1. ~Holding(r)' /\ \A s \in Readers \ {r} : Holding(s)' <=> Holding(s)
    BY <1>1 DEF Holding
  <2>2. \A s \in Readers \ {r} : Holding(r) /\ Holding(s) => reader[s].lock # reader[r].lock
    BY DEF LocksAreExclusive
  <2>3. held' = {reader'[s].lock : s \in {t \in Readers : Holding(t)'}}
    BY <1>1, <2>1, <2>2 DEF LocksAreExclusive
  <2>4. \A s, t \in Readers :
           Holding(s)' /\ Holding(t)' /\ reader'[s].lock = reader'[t].lock => s = t
    BY <1>1, <2>1 DEF LocksAreExclusive
  <2> QED
    BY <2>3, <2>4 DEF LocksAreExclusive
<1>4. TableIsCurrent'
  BY <1>1 DEF TableIsCurrent, TableFits, Queued
<1> QED
  BY <1>2, <1>3, <1>4

(* A reader that queues up refers to the lock of the table; the table is   *)
(* not full, so no other key loses its lock.                               *)
LEMMA MissLocks ==
    ASSUME TypeOK, LockInv, NEW r \in Readers, NEW k \in Keys, ReadMiss(r, k)
    PROVE  LockInv'
<1> USE DEF LockInv
<1>1. PICK fresh \in Locks : /\ lockOf' = LockFor(k, fresh)
                             /\ Moves(r, At("waiting", k, lockOf'[k], 0, acked, FALSE))
  BY ReadMissMoves
<1>2. /\ reader'[r].pc = "waiting" /\ reader'[r].key = k /\ reader'[r].lock = lockOf'[k]
      /\ \A s \in Readers \ {r} : reader'[s] = reader[s]
  BY <1>1 DEF Moves, At, TypeOK
<1>3. reader[r].pc = "idle" /\ UNCHANGED held
  BY DEF ReadMiss
<1>4. fresh # NoLock
  <2>1. Cardinality(Keys) \in Nat /\ Cardinality(Readers) \in Nat
    BY CacheAssumption, FS_CardinalityType
  <2> QED
    BY <2>1, CacheAssumption DEF Locks
<1>5. lockOf'[k] # NoLock
  BY <1>1, <1>4 DEF LockFor, TypeOK
<1>6. LockWhileQueued'
  BY <1>2, <1>5 DEF LockWhileQueued, Queued
<1>7. LocksAreExclusive'
  <2>1. ~Holding(r) /\ ~Holding(r)' /\ \A s \in Readers \ {r} : Holding(s)' <=> Holding(s)
    BY <1>2, <1>3 DEF Holding
  <2>2. held' = {reader'[s].lock : s \in {t \in Readers : Holding(t)'}}
    BY <1>2, <1>3, <2>1 DEF LocksAreExclusive
  <2> QED
    BY <1>2, <2>1, <2>2 DEF LocksAreExclusive
<1>8. ASSUME TableFits, lockOf[k] = NoLock
      PROVE  lockOf' = [lockOf EXCEPT ![k] = fresh]
  <2> DEFINE used == {j \in Keys : lockOf[j] # NoLock}
  <2>1. IsFiniteSet(Keys \ {k}) /\ Cardinality(Keys \ {k}) = Cardinality(Keys) - 1
    BY CacheAssumption, FS_RemoveElement
  <2>2. used \subseteq Keys \ {k}
    BY <1>8
  <2>3. IsFiniteSet(used) /\ Cardinality(used) <= Cardinality(Keys) - 1
    <3> HIDE DEF used
    <3> QED
      BY <2>1, <2>2, FS_Subset
  <2>4. Cardinality(used) \in Nat /\ Cardinality(Keys) \in Nat
    BY <2>3, CacheAssumption, FS_CardinalityType
  <2>5. ~(Cardinality(used) >= MaxLocks)
    <3> HIDE DEF used
    <3> QED
      BY <1>8, <2>3, <2>4, CacheAssumption DEF TableFits
  <2> QED
    BY <1>1, <1>8, <2>5 DEF LockFor
<1>9. TableIsCurrent'
  <2> SUFFICES ASSUME TableFits, NEW s \in Readers, Queued(s)'
               PROVE  lockOf'[reader'[s].key] = reader'[s].lock
    BY DEF TableIsCurrent, TableFits
  <2>1. CASE s = r
    BY <1>2, <2>1
  <2>2. CASE s # r
    <3>1. reader'[s] = reader[s] /\ Queued(s)
      BY <1>2, <2>2 DEF Queued
    <3>2. lockOf[reader[s].key] = reader[s].lock /\ reader[s].lock # NoLock /\ reader[s].key \in Keys
      BY <3>1 DEF TableIsCurrent, LockWhileQueued
    <3>3. lockOf'[reader[s].key] = lockOf[reader[s].key]
      <4>1. CASE lockOf[k] # NoLock
        BY <1>1, <4>1 DEF LockFor
      <4>2. CASE lockOf[k] = NoLock
        BY <1>8, <3>2, <4>2 DEF TypeOK
      <4> QED
        BY <4>1, <4>2
    <3> QED
      BY <3>1, <3>2, <3>3
  <2> QED
    BY <2>1, <2>2
<1> QED
  BY <1>6, <1>7, <1>9

(* A lock is granted to one reader at a time. *)
LEMMA GrantLocks ==
    ASSUME TypeOK, LockInv, NEW r \in Readers, reader[r].pc = "waiting",
           reader[r].lock \notin held, UNCHANGED lockOf, held' = held \cup {reader[r].lock},
           Moves(r, At("fetching", reader[r].key, reader[r].lock, reader[r].ver,
                       reader[r].floor, reader[r].clean))
    PROVE  LockInv'
<1> USE DEF LockInv
<1>1. /\ reader'[r].pc = "fetching" /\ reader'[r].key = reader[r].key
      /\ reader'[r].lock = reader[r].lock
      /\ \A s \in Readers \ {r} : reader'[s] = reader[s]
  BY DEF Moves, At, TypeOK
<1>2. LockWhileQueued'
  BY <1>1 DEF LockWhileQueued, Queued
<1>3. LocksAreExclusive'
  <2>1. ~Holding(r) /\ Holding(r)' /\ \A s \in Readers \ {r} : Holding(s)' <=> Holding(s)
    BY <1>1 DEF Holding
  <2>2. held' = {reader'[s].lock : s \in {t \in Readers : Holding(t)'}}
    BY <1>1, <2>1 DEF LocksAreExclusive
  <2>3. \A s \in Readers \ {r} : Holding(s) => reader[s].lock # reader[r].lock
    BY DEF LocksAreExclusive
  <2> QED
    BY <1>1, <2>1, <2>2, <2>3 DEF LocksAreExclusive
<1>4. TableIsCurrent'
  BY <1>1 DEF TableIsCurrent, TableFits, Queued
<1> QED
  BY <1>2, <1>3, <1>4

(* A step that leaves every reader its place and its lock. *)
LEMMA SameLocks ==
    ASSUME LockInv, UNCHANGED <<lockOf, held>>,
           \A r \in Readers : /\ Queued(r)' <=> Queued(r)
                              /\ Holding(r)' <=> Holding(r)
                              /\ reader'[r].key = reader[r].key
                              /\ reader'[r].lock = reader[r].lock
    PROVE  LockInv'
<1> USE DEF LockInv
<1>1. LockWhileQueued'
  BY DEF LockWhileQueued
<1>2. LocksAreExclusive'
  <2>1. held' = {reader'[s].lock : s \in {t \in Readers : Holding(t)'}}
    BY DEF LocksAreExclusive
  <2> QED
    BY <2>1 DEF LocksAreExclusive
<1>3. TableIsCurrent'
  BY DEF TableIsCurrent, TableFits
<1> QED
  BY <1>1, <1>2, <1>3

LEMMA LockStep ==
    ASSUME TypeOK, LockInv, Next
    PROVE  LockInv'
<1>1. LockWhileQueued
  BY DEF LockInv
<1>2. ASSUME NEW r \in Readers, NEW k \in Keys, ReadHit(r, k)
      PROVE  LockInv'
  <2>1. UNCHANGED <<lockOf, held>> /\ ~Holding(r)
    BY <1>2 DEF ReadHit, Holding
  <2> QED
    BY <1>2, <2>1, ReadHitMoves, Unlocked
<1>3. ASSUME NEW r \in Readers, Acquire(r)
      PROVE  LockInv'
  <2>1. UNCHANGED lockOf /\ ~Holding(r) /\ reader[r].pc = "waiting" /\ reader[r].lock \notin held
    BY <1>3 DEF Acquire, Holding
  <2>2. CASE held' = held \cup {reader[r].lock}
             /\ Moves(r, At("fetching", reader[r].key, reader[r].lock, reader[r].ver,
                             reader[r].floor, reader[r].clean))
    BY <2>1, <2>2, GrantLocks
  <2>3. ASSUME UNCHANGED held, NEW ver \in Versions, Moves(r, Answer(r, ver))
        PROVE  LockInv'
    BY <2>1, <2>3, Unlocked DEF Answer
  <2>4. CASE UNCHANGED held
             /\ Moves(r, At("direct", reader[r].key, NoLock, reader[r].ver,
                             reader[r].floor, reader[r].clean))
    BY <2>1, <2>4, Unlocked
  <2> QED
    BY <1>1, <1>3, <2>2, <2>3, <2>4, AcquireMoves
<1>4. ASSUME NEW r \in Readers, Query(r)
      PROVE  LockInv'
  <2> DEFINE quiet == \A w \in Writers : writer[w].pc = "idle"
  <2>1. Moves(r, At("fetched", reader[r].key, reader[r].lock, db, reader[r].floor, quiet))
    BY <1>4, QueryMoves
  <2>2. UNCHANGED <<lockOf, held>> /\ reader[r].pc = "fetching"
    BY <1>4 DEF Query
  <2> HIDE DEF quiet
  <2>3. /\ reader'[r].pc = "fetched" /\ reader'[r].key = reader[r].key
        /\ reader'[r].lock = reader[r].lock
        /\ \A s \in Readers \ {r} : reader'[s] = reader[s]
    BY <2>1 DEF Moves, At, TypeOK
  <2>4. \A s \in Readers : /\ Queued(s)' <=> Queued(s)
                           /\ Holding(s)' <=> Holding(s)
                           /\ reader'[s].key = reader[s].key
                           /\ reader'[s].lock = reader[s].lock
    BY <2>2, <2>3 DEF Queued, Holding
  <2> QED
    BY <2>2, <2>4, SameLocks
<1>5. ASSUME NEW r \in Readers, Finish(r) \/ Break(r)
      PROVE  LockInv'
  <2>1. UNCHANGED lockOf /\ Holding(r) /\ held' = held \ {reader[r].lock}
    BY <1>5 DEF Finish, Break, Holding
  <2>2. CASE Finish(r)
    BY <2>1, <2>2, FinishMoves, Unlocked DEF Answer
  <2>3. CASE Break(r)
    BY <2>1, <2>3, IdleMoves, Unlocked
  <2> QED
    BY <1>5, <2>2, <2>3
<1>6. ASSUME NEW r \in Readers, Direct(r) \/ Leave(r)
      PROVE  LockInv'
  <2>1. UNCHANGED <<lockOf, held>> /\ ~Holding(r)
    BY <1>6 DEF Direct, Leave, Holding
  <2>2. CASE Direct(r)
    BY <2>1, <2>2, DirectMoves, Unlocked DEF Answer
  <2>3. CASE Leave(r)
    BY <2>1, <2>3, IdleMoves, Unlocked
  <2> QED
    BY <1>6, <2>2, <2>3
<1>7. ASSUME NEW w \in Writers, WriteBegin(w)
      PROVE  LockInv'
  <2>1. UNCHANGED <<lockOf, held>> /\ reader' = Overlapped
    BY <1>7 DEF WriteBegin
  <2>2. \A r \in Readers : /\ reader'[r].pc = reader[r].pc
                           /\ reader'[r].key = reader[r].key
                           /\ reader'[r].lock = reader[r].lock
    BY <2>1 DEF Overlapped, TypeOK, Reader
  <2> QED
    BY <2>1, <2>2, SameLocks DEF Queued, Holding
<1>8. ASSUME UNCHANGED <<reader, held, lockOf>>
      PROVE  LockInv'
  BY <1>8, SameLocks DEF Queued, Holding
<1>9. CASE Expire \/ \E w \in Writers : WriteCommit(w) \/ WriteEnd(w)
  BY <1>8, <1>9 DEF Expire, WriteCommit, WriteEnd
<1> QED
  BY <1>2, <1>3, <1>4, <1>5, <1>6, <1>7, <1>9, MissLocks DEF Next, ReaderStep

-------------------------------------------------------------------------------
(* What is clean stays current.                                            *)

(* A reader moves and is not clean, or was clean already with that answer; *)
(* the memory keeps its entries, and no write starts or commits.           *)
LEMMA StaysClean ==
    ASSUME TypeOK, CleanInv, NEW r \in Readers, UNCHANGED <<db, writer, store>>,
           NEW pc, NEW key, NEW lock, NEW ver, NEW floor, NEW clean,
           Moves(r, At(pc, key, lock, ver, floor, clean)),
           clean => pc \in {"fetched", "answered"} /\ ver = db
                    /\ \A w \in Writers : writer[w].pc = "idle"
    PROVE  CleanInv'
<1>1. /\ reader'[r].pc = pc /\ reader'[r].ver = ver /\ reader'[r].clean = clean
      /\ \A s \in Readers \ {r} : reader'[s] = reader[s]
  BY DEF Moves, At, TypeOK
<1>2. CleanReads'
  BY <1>1 DEF CleanInv, CleanReads
<1>3. CleanEntries' /\ WritesMakeUnclean'
  BY <1>1 DEF CleanInv, CleanEntries, WritesMakeUnclean
<1> QED
  BY <1>2, <1>3 DEF CleanInv

LEMMA CleanStep ==
    ASSUME TypeOK, LockInv, CleanInv, Next
    PROVE  CleanInv'
<1> USE DEF TypeOK
<1> DEFINE Unclean(r) == reader[r].clean =>
               /\ reader[r].pc \in {"fetched", "answered"} /\ reader[r].ver = db
               /\ \A w \in Writers : writer[w].pc = "idle"
<1>1. \A r \in Readers : Unclean(r)
  BY DEF CleanInv, CleanReads, WritesMakeUnclean
<1>2. LockWhileQueued
  BY DEF LockInv
<1>3. ASSUME NEW r \in Readers, NEW k \in Keys, ReadHit(r, k) \/ ReadMiss(r, k)
      PROVE  CleanInv'
  <2>1. UNCHANGED <<db, writer, store>>
    BY <1>3 DEF ReadHit, ReadMiss
  <2>2. CASE ReadHit(r, k)
    BY <2>1, <2>2, ReadHitMoves, StaysClean
  <2>3. CASE ReadMiss(r, k)
    BY <1>2, <2>1, <2>3, ReadMissMoves, StaysClean
  <2> QED
    BY <1>3, <2>2, <2>3
<1>4. ASSUME NEW r \in Readers, Acquire(r)
      PROVE  CleanInv'
  <2>1. UNCHANGED <<db, writer, store>> /\ ~reader[r].clean
    BY <1>1, <1>4 DEF Acquire
  <2>2. CASE Moves(r, At("fetching", reader[r].key, reader[r].lock, reader[r].ver,
                             reader[r].floor, reader[r].clean))
    BY <2>1, <2>2, StaysClean
  <2>3. ASSUME NEW ver \in Versions, Moves(r, Answer(r, ver))
        PROVE  CleanInv'
    BY <2>1, <2>3, StaysClean DEF Answer
  <2>4. CASE Moves(r, At("direct", reader[r].key, NoLock, reader[r].ver,
                             reader[r].floor, reader[r].clean))
    BY <2>1, <2>4, StaysClean
  <2> QED
    BY <1>2, <1>4, <2>2, <2>3, <2>4, AcquireMoves
<1>5. ASSUME NEW r \in Readers, Query(r)
      PROVE  CleanInv'
  <2> DEFINE quiet == \A w \in Writers : writer[w].pc = "idle"
  <2>1. UNCHANGED <<db, writer, store>>
    BY <1>5 DEF Query
  <2>2. Moves(r, At("fetched", reader[r].key, reader[r].lock, db, reader[r].floor, quiet))
    BY <1>5, QueryMoves
  <2>3. quiet => \A w \in Writers : writer[w].pc = "idle"
    OBVIOUS
  <2> HIDE DEF quiet
  <2> QED
    BY <2>1, <2>2, <2>3, StaysClean
<1>6. ASSUME NEW r \in Readers, Finish(r)
      PROVE  CleanInv'
  <2>1. UNCHANGED <<db, writer>>
    BY <1>6 DEF Finish
  <2>2. Moves(r, Answer(r, reader[r].ver))
    BY <1>6, FinishMoves
  <2>3. /\ reader'[r].pc = "answered" /\ reader'[r].ver = reader[r].ver
        /\ reader'[r].clean = reader[r].clean
        /\ \A s \in Readers \ {r} : reader'[s] = reader[s]
    BY <2>2 DEF Moves, Answer, At
  <2>4. PICK e \in Entry : /\ e.ver = reader[r].ver /\ e.clean = reader[r].clean
                           /\ store' = RememberIn(e)
    BY <1>2, <1>6, FinishStores
  <2>5. \A i \in DOMAIN store' : store'[i] = e \/ \E j \in DOMAIN store : store'[i] = store[j]
    BY <2>4, RememberedStore
  <2>6. CleanReads'
    BY <2>1, <2>3 DEF CleanInv, CleanReads
  <2>7. CleanEntries'
    BY <1>1, <2>1, <2>4, <2>5 DEF CleanInv, CleanEntries
  <2>8. WritesMakeUnclean'
    BY <1>1, <2>1, <2>3, <2>4, <2>5 DEF CleanInv, WritesMakeUnclean
  <2> QED
    BY <2>6, <2>7, <2>8 DEF CleanInv
<1>7. ASSUME NEW r \in Readers, Break(r) \/ Direct(r) \/ Leave(r)
      PROVE  CleanInv'
  <2>1. UNCHANGED <<db, writer, store>>
    BY <1>7 DEF Break, Direct, Leave
  <2>2. CASE Break(r) \/ Leave(r)
    BY <2>1, <2>2, IdleMoves, StaysClean
  <2>3. CASE Direct(r)
    <3>1. ~reader[r].clean
      BY <1>1, <2>3 DEF Direct
    <3> QED
      BY <2>1, <2>3, <3>1, DirectMoves, StaysClean DEF Answer
  <2> QED
    BY <1>7, <2>2, <2>3
<1>8. CASE Expire
  <2>1. /\ UNCHANGED <<db, writer, reader>>
        /\ \A i \in DOMAIN store' : \E j \in DOMAIN store : store'[i] = store[j]
    BY <1>8, TailOfStore DEF Expire, Distinct
  <2> QED
    BY <2>1 DEF CleanInv, CleanReads, CleanEntries, WritesMakeUnclean
<1>9. ASSUME NEW w \in Writers, WriteBegin(w)
      PROVE  CleanInv'
  <2>1. store' = <<>> /\ \A r \in Readers : ~reader'[r].clean
    BY <1>9 DEF WriteBegin, Overlapped, Reader
  <2> QED
    BY <2>1 DEF CleanInv, CleanReads, CleanEntries, WritesMakeUnclean
<1>10. ASSUME NEW w \in Writers, WriteCommit(w)
       PROVE  CleanInv'
  <2>1. UNCHANGED <<store, reader>> /\ writer[w].pc # "idle"
    BY <1>10 DEF WriteCommit
  <2>2. (\A r \in Readers : ~reader[r].clean) /\ \A i \in DOMAIN store : ~store[i].clean
    BY <2>1 DEF CleanInv, WritesMakeUnclean
  <2> QED
    BY <2>1, <2>2 DEF CleanInv, CleanReads, CleanEntries, WritesMakeUnclean
<1>11. ASSUME NEW w \in Writers, WriteEnd(w)
       PROVE  CleanInv'
  <2>1. UNCHANGED <<db, store, reader>> /\ writer[w].pc # "idle"
    BY <1>11 DEF WriteEnd
  <2>2. (\A r \in Readers : ~reader[r].clean) /\ \A i \in DOMAIN store : ~store[i].clean
    BY <2>1 DEF CleanInv, WritesMakeUnclean
  <2> QED
    BY <2>1, <2>2 DEF CleanInv, CleanReads, CleanEntries, WritesMakeUnclean
<1> QED
  BY <1>3, <1>4, <1>5, <1>6, <1>7, <1>8, <1>9, <1>10, <1>11 DEF Next, ReaderStep

-------------------------------------------------------------------------------
LEMMA InvInit == Init => CacheInv
<1> SUFFICES ASSUME Init PROVE CacheInv
  OBVIOUS
<1> USE CacheAssumption DEF Init
<1>1. TypeOK
  <2>1. 0 \in Versions
    BY DEF Versions
  <2>2. IdleReader \in Reader /\ IdleWriter \in Writer
    BY <2>1 DEF IdleReader, Reader, IdleWriter, Writer
  <2> QED
    BY <2>1, <2>2 DEF TypeOK
<1>2. LockInv
  BY DEF LockInv, LockWhileQueued, LocksAreExclusive, TableIsCurrent, Queued, Holding, IdleReader
<1>3. CleanInv
  BY DEF CleanInv, CleanReads, CleanEntries, WritesMakeUnclean, IdleReader, IdleWriter
<1> QED
  BY <1>1, <1>2, <1>3 DEF CacheInv

LEMMA InvStep ==
    ASSUME CacheInv, [Next]_vars
    PROVE  CacheInv'
<1>1. CASE Next
  BY <1>1, TypeStep, LockStep, CleanStep DEF CacheInv, LockInv
<1>2. CASE UNCHANGED vars
  BY <1>2 DEF vars, CacheInv, TypeOK, LockInv, LockWhileQueued, LocksAreExclusive, TableIsCurrent,
              TableFits, Queued, Holding, CleanInv, CleanReads, CleanEntries, WritesMakeUnclean
<1> QED
  BY <1>1, <1>2

LEMMA CacheInvariant == Spec => []CacheInv
BY InvInit, InvStep, PTL DEF Spec

(* The memory, the table of locks, reads and writes keep their shape: no   *)
(* key has two entries, and a read that misses always gets a lock.         *)
THEOREM CacheTypeCorrect == Spec => []TypeOK
<1>1. CacheInv => TypeOK
  BY DEF CacheInv
<1> QED
  BY <1>1, CacheInvariant, PTL

(* An answer kept in the memory that no panel write overlapped is what the *)
(* database says, for any number of reads and writes of the panel.         *)
THEOREM CleanEntriesAreCurrent == Spec => []CleanIsCurrent
<1>1. CacheInv => CleanIsCurrent
  BY DEF CacheInv, CleanInv, CleanEntries, CleanIsCurrent
<1> QED
  BY <1>1, CacheInvariant, PTL

(* "One of them talks to Postgres; the rest wait for that answer": as long *)
(* as _LOCKS has room for every key, no two reads of one key are in the    *)
(* handler under the lock at once.                                         *)
THEOREM OneReaderTalks == TableFits => (Spec => []OneTalks)
<1> SUFFICES ASSUME TableFits
             PROVE  Spec => []OneTalks
  OBVIOUS
<1>1. CacheInv => OneTalks
  BY DEF CacheInv, LockInv, TableIsCurrent, LocksAreExclusive, OneTalks, Queued, Holding
<1> QED
  BY <1>1, CacheInvariant, PTL
================================================================================
