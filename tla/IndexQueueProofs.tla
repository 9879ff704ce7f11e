---------------------------- MODULE IndexQueueProofs ----------------------------
(***************************************************************************)
(* Proofs about IndexQueue, for any number of documents, requests and      *)
(* contents.                                                               *)
(***************************************************************************)
EXTENDS IndexQueue, CommonLemmas

-------------------------------------------------------------------------------
(* The inductive invariant.  Only finitely many documents were ever        *)
(* uploaded, so what a request queues can be put in an order; a request    *)
(* names such documents only, and a busy worker has a document.            *)

Known == {d \in Docs : status[d] # "none"}
KnownIsFinite == IsFiniteSet(Known)
RequestsKnown == \A e \in Editors : editor[e].docs \subseteq Known
BusyHasDoc == worker.pc # "waiting" => worker.doc \in Docs

IndexInv == TypeOK /\ KnownIsFinite /\ RequestsKnown /\ BusyHasDoc /\ PendingIsQueued

-------------------------------------------------------------------------------
(* What enqueue appends: each new document once. *)
LEMMA OrderOfSet ==
    ASSUME NEW S, IsFiniteSet(S), NEW order \in SetToSeqs(S)
    PROVE  order \in Seq(S) /\ ToSet(order) = S /\ IsInjective(order)
<1> DEFINE D == 1..Cardinality(S)
<1>1. Cardinality(S) \in Nat
  BY FS_CardinalityType
<1>2. order \in [D -> S] /\ \A i, j \in D : i # j => order[i] # order[j]
  BY DEF SetToSeqs
<1>3. order \in Seq(S)
  BY <1>1, <1>2
<1>4. IsInjective(order)
  BY <1>2 DEF IsInjective
<1>5. IsFiniteSet(D) /\ Cardinality(D) = Cardinality(S)
  <2>1. 1 \in Int /\ Cardinality(S) \in Int
    BY <1>1
  <2> QED
    BY <1>1, <2>1, FS_Interval
<1>6. order \in Injection(D, S)
  BY <1>2, <1>4 DEF Injection
<1>7. order \in Surjection(D, S)
  <2> HIDE DEF D
  <2> QED
    BY <1>5, <1>6, FS_Injection
<1>8. ToSet(order) = S
  BY <1>2, <1>7 DEF Surjection, ToSet
<1> QED
  BY <1>3, <1>4, <1>8

(* The queue after its first document was taken. *)
LEMMA TailOfQueue ==
    ASSUME NEW S, NEW s \in Seq(S), s # <<>>, IsInjective(s)
    PROVE  /\ Tail(s) \in Seq(S) /\ IsInjective(Tail(s))
           /\ Head(s) \in S /\ Head(s) \notin ToSet(Tail(s))
           /\ ToSet(s) = ToSet(Tail(s)) \cup {Head(s)}
<1> DEFINE t == Tail(s)
<1>1. /\ t \in Seq(S) /\ Len(s) \in Nat \ {0} /\ DOMAIN s = 1..Len(s) /\ Head(s) = s[1]
      /\ DOMAIN t = 1..(Len(s) - 1)
      /\ \A i \in DOMAIN t : i + 1 \in DOMAIN s /\ t[i] = s[i + 1]
      /\ \A i \in DOMAIN s : i # 1 => i - 1 \in DOMAIN t /\ t[i - 1] = s[i]
  BY TailPlaces
<1>2. Head(s) \in S
  BY <1>1
<1> HIDE DEF t
<1>3. IsInjective(t)
  BY <1>1 DEF IsInjective
<1>4. Head(s) \notin ToSet(t)
  BY <1>1 DEF IsInjective, ToSet
<1>5. ToSet(s) = ToSet(t) \cup {Head(s)}
  <2>1. ToSet(t) \subseteq ToSet(s) /\ Head(s) \in ToSet(s)
    BY <1>1 DEF ToSet
  <2>2. ASSUME NEW i \in DOMAIN s
        PROVE  s[i] \in ToSet(t) \cup {Head(s)}
    BY <1>1 DEF ToSet
  <2>3. ToSet(s) \subseteq ToSet(t) \cup {Head(s)}
    BY <2>2 DEF ToSet
  <2> QED
    BY <2>1, <2>3
<1> QED
  BY <1>1, <1>2, <1>3, <1>4, <1>5 DEF t

(* The queue after new documents were appended. *)
LEMMA AppendedQueue ==
    ASSUME NEW S, NEW s \in Seq(S), NEW t \in Seq(S), IsInjective(s), IsInjective(t),
           ToSet(s) \cap ToSet(t) = {}
    PROVE  s \o t \in Seq(S) /\ ToSet(s \o t) = ToSet(s) \cup ToSet(t) /\ IsInjective(s \o t)
<1>1. /\ s \o t \in Seq(S) /\ Len(s \o t) = Len(s) + Len(t)
      /\ \A i \in 1..(Len(s) + Len(t)) :
            (s \o t)[i] = IF i <= Len(s) THEN s[i] ELSE t[i - Len(s)]
  BY ConcatProperties
<1>2. /\ Len(s) \in Nat /\ DOMAIN s = 1..Len(s)
      /\ Len(t) \in Nat /\ DOMAIN t = 1..Len(t)
      /\ DOMAIN (s \o t) = 1..(Len(s) + Len(t))
  BY <1>1, LenProperties
<1>3. ToSet(s \o t) \subseteq ToSet(s) \cup ToSet(t)
  BY <1>1, <1>2 DEF ToSet
<1>4. \A i \in DOMAIN s : s[i] \in ToSet(s \o t)
  BY <1>1, <1>2 DEF ToSet
<1>5. \A i \in DOMAIN t : t[i] \in ToSet(s \o t)
  <2> TAKE i \in DOMAIN t
  <2>1. i + Len(s) \in 1..(Len(s) + Len(t)) /\ (s \o t)[i + Len(s)] = t[i]
    BY <1>1, <1>2
  <2> QED
    BY <1>2, <2>1 DEF ToSet
<1>6. ASSUME NEW i \in DOMAIN (s \o t), NEW j \in DOMAIN (s \o t),
             (s \o t)[i] = (s \o t)[j]
      PROVE  i = j
  <2>1. CASE i <= Len(s) /\ j <= Len(s)
    BY <1>1, <1>2, <1>6, <2>1 DEF IsInjective
  <2>2. CASE i > Len(s) /\ j > Len(s)
    <3>1. i - Len(s) \in DOMAIN t /\ j - Len(s) \in DOMAIN t
      BY <1>2, <2>2
    <3>2. t[i - Len(s)] = t[j - Len(s)]
      BY <1>1, <1>2, <1>6, <2>2
    <3>3. i - Len(s) = j - Len(s)
      BY <3>1, <3>2 DEF IsInjective
    <3> QED
      BY <1>2, <3>3
  <2>3. CASE i <= Len(s) /\ j > Len(s)
    <3>1. i \in DOMAIN s /\ j - Len(s) \in DOMAIN t /\ s[i] = t[j - Len(s)]
      BY <1>1, <1>2, <1>6, <2>3
    <3> QED
      BY <3>1 DEF ToSet
  <2>4. CASE i > Len(s) /\ j <= Len(s)
    <3>1. j \in DOMAIN s /\ i - Len(s) \in DOMAIN t /\ s[j] = t[i - Len(s)]
      BY <1>1, <1>2, <1>6, <2>4
    <3> QED
      BY <3>1 DEF ToSet
  <2> QED
    BY <1>2, <2>1, <2>2, <2>3, <2>4
<1>7. IsInjective(s \o t)
  BY <1>6 DEF IsInjective
<1>8. ToSet(s) \cup ToSet(t) \subseteq ToSet(s \o t)
  BY <1>4, <1>5 DEF ToSet
<1> QED
  BY <1>1, <1>3, <1>7, <1>8

-------------------------------------------------------------------------------
(* Every variable keeps its shape. *)
LEMMA TypeStep ==
    ASSUME TypeOK, KnownIsFinite, RequestsKnown, BusyHasDoc, Next
    PROVE  TypeOK'
<1> USE IndexAssumption DEF TypeOK, rowVars
<1>1. CASE Start
  BY <1>1 DEF Start
<1>2. CASE Exit
  <2>1. WaitingWorker \in Worker /\ IdleEditor \in Editor
    BY DEF WaitingWorker, Worker, IdleEditor, Editor
  <2>2. <<>> \in Seq(Docs)
    OBVIOUS
  <2>3. UNCHANGED rowVars /\ up' = FALSE /\ queue' = <<>> /\ pending' = {}
    BY <1>2 DEF Exit
  <2>4. worker' \in Worker /\ editor' \in [Editors -> Editor]
    BY <1>2, <2>1 DEF Exit
  <2> QED
    BY <2>2, <2>3, <2>4
<1>3. ASSUME NEW e \in Editors, NEW d \in Docs, Upload(e, d)
      PROVE  TypeOK'
  <2>1. \A goal \in AutoIndex : Saved({d}, goal) \in Editor
    BY DEF AutoIndex, Saved, Editor
  <2>2. 1 \in 0..MaxVersion
    BY <1>3 DEF Upload
  <2>3. "pending" \in Status
    BY DEF Status
  <2> QED
    BY <1>3, <2>1, <2>2, <2>3 DEF Upload
<1>4. ASSUME NEW e \in Editors, NEW docs \in SUBSET Docs,
             NEW goal \in {"none", "enqueue", "snapshot"}, Open(e, docs, goal)
      PROVE  editor' \in [Editors -> Editor]
  BY <1>4 DEF Open, SeenPending, Editor
<1>5. ASSUME NEW e \in Editors, NEW d \in Docs, PutContent(e, d)
      PROVE  TypeOK'
  <2>1. editor' \in [Editors -> Editor]
    BY <1>4, <1>5 DEF PutContent, AutoIndex
  <2>2. file[d] + 1 \in 0..MaxVersion
    BY <1>5 DEF PutContent
  <2> QED
    BY <1>5, <2>1, <2>2 DEF PutContent
<1>6. ASSUME NEW e \in Editors, WriteCorax(e)
      PROVE  TypeOK'
  <2>1. CoraxDocs \cap Rows \in SUBSET Docs
    BY DEF Rows
  <2>2. editor' \in [Editors -> Editor]
    BY <1>4, <1>6, <2>1 DEF WriteCorax
  <2>3. \A d \in CoraxDocs \cap Rows : file[d] + 1 \in 0..MaxVersion
    BY <1>6, <2>1 DEF WriteCorax
  <2>4. file' \in [Docs -> 0..MaxVersion]
    BY <1>6, <2>1, <2>3 DEF WriteCorax
  <2> QED
    BY <1>6, <2>2, <2>4 DEF WriteCorax
<1>7. ASSUME NEW e \in Editors, NEW d \in Docs, ReindexOne(e, d)
      PROVE  TypeOK'
  <2>1. editor' \in [Editors -> Editor]
    BY <1>4, <1>7 DEF ReindexOne
  <2> QED
    BY <1>7, <2>1 DEF ReindexOne
<1>8. ASSUME NEW e \in Editors, ReindexAll(e)
      PROVE  TypeOK'
  <2>1. Rows \in SUBSET Docs
    BY DEF Rows
  <2>2. editor' \in [Editors -> Editor]
    BY <1>4, <1>8, <2>1 DEF ReindexAll
  <2> QED
    BY <1>8, <2>2 DEF ReindexAll
<1>9. ASSUME NEW e \in Editors, ReindexPending(e)
      PROVE  TypeOK'
  <2>1. {d \in Rows : status[d] # "ready"} \in SUBSET Docs
    BY DEF Rows
  <2>2. editor' \in [Editors -> Editor]
    BY <1>4, <1>9, <2>1 DEF ReindexPending
  <2> QED
    BY <1>9, <2>2 DEF ReindexPending
<1>10. ASSUME NEW e \in Editors, HandlerStep(e)
       PROVE  TypeOK'
  <2>1. editor[e].docs \in SUBSET Docs /\ editor[e].goal \in {"none", "enqueue", "snapshot"}
    BY DEF Editor
  <2>2. Saved(editor[e].docs, editor[e].goal) \in Editor /\ IdleEditor \in Editor
    BY <2>1 DEF Saved, IdleEditor, Editor
  <2>3. CASE Save(e)
    <3>1. status' \in [Docs -> Status]
      BY <2>3 DEF Save, Status
    <3>2. editor' = [editor EXCEPT ![e] = Saved(editor[e].docs, editor[e].goal)]
      BY <2>3 DEF Save
    <3> QED
      BY <2>2, <2>3, <3>1, <3>2 DEF Save
  <2>4. CASE Abort(e) \/ Return(e)
    BY <2>2, <2>4 DEF Abort, Return
  <2>5. CASE Enqueue(e)
    <3> DEFINE new == editor[e].docs \ pending
    <3>1. IsFiniteSet(new)
      BY <2>1, FS_Subset DEF KnownIsFinite, RequestsKnown
    <3>2. PICK order \in SetToSeqs(new) : queue' = queue \o order
      BY <2>5 DEF Enqueue
    <3>3. order \in Seq(Docs)
      <4>1. order \in Seq(new)
        BY <3>1, <3>2, OrderOfSet
      <4> QED
        BY <2>1, <4>1
    <3>4. queue' \in Seq(Docs)
      BY <3>2, <3>3
    <3> QED
      BY <2>1, <2>2, <2>5, <3>4 DEF Enqueue
  <2> QED
    BY <1>10, <2>3, <2>4, <2>5 DEF HandlerStep
<1>11. ASSUME NEW d \in Docs, Delete(d)
       PROVE  TypeOK'
  <2>1. "gone" \in Status /\ 0 \in 0..MaxVersion
    BY DEF Status
  <2> QED
    BY <1>11, <2>1 DEF Delete
<1>12. CASE Take
  <2>1. Head(queue) \in Docs /\ Tail(queue) \in Seq(Docs)
    BY <1>12, HeadTailProperties DEF Take
  <2> QED
    BY <1>12, <2>1 DEF Take, Worker
<1>13. CASE Begin \/ Fail \/ StoreError \/ Drop \/ Close
  <2>1. status' \in [Docs -> Status]
    BY <1>13 DEF Begin, Fail, StoreError, Drop, Close, Status
  <2>2. WaitingWorker \in Worker
    BY DEF WaitingWorker, Worker
  <2>3. \A pc \in {"begun", "closing", "failing"} : [worker EXCEPT !.pc = pc] \in Worker
    BY DEF Worker
  <2>4. worker' \in Worker
    BY <1>13, <2>2, <2>3 DEF Begin, Fail, StoreError, Drop, Close
  <2> QED
    BY <1>13, <2>1, <2>4 DEF Begin, Fail, StoreError, Drop, Close
<1>14. CASE ReadFile
  <2>1. file[worker.doc] \in 0..MaxVersion
    BY <1>14 DEF ReadFile, BusyHasDoc
  <2> QED
    BY <1>14, <2>1 DEF ReadFile, Worker
<1>15. CASE Commit
  <2>1. worker.ver \in 0..MaxVersion /\ "ready" \in Status
    BY DEF Worker, Status
  <2>2. worker' \in Worker
    BY <1>15 DEF Commit, Worker
  <2> QED
    BY <1>15, <2>1, <2>2 DEF Commit
<1> QED
  BY <1>1, <1>2, <1>3, <1>5, <1>6, <1>7, <1>8, <1>9, <1>10, <1>11, <1>12, <1>13, <1>14, <1>15
     DEF Next, Request, WorkerStep

(* Only an upload makes a document known, and it makes one; no document    *)
(* becomes unknown.                                                        *)
LEMMA KnownGrows ==
    ASSUME TypeOK, BusyHasDoc, Next
    PROVE  /\ Known \subseteq Known'
           /\ Known' \subseteq Known \/ \E d \in Docs : Known' \subseteq Known \cup {d}
<1> USE DEF TypeOK, rowVars, Known
<1>1. CASE UNCHANGED status
  BY <1>1
<1>2. ASSUME NEW e \in Editors, NEW d \in Docs, Upload(e, d)
      PROVE  Known \subseteq Known' /\ Known' \subseteq Known \cup {d}
  BY <1>2 DEF Upload
<1>3. ASSUME NEW e \in Editors, Save(e)
      PROVE  Known \subseteq Known' /\ Known' \subseteq Known
  BY <1>3 DEF Save, Rows
<1>4. ASSUME NEW d \in Docs, Delete(d)
      PROVE  Known \subseteq Known' /\ Known' \subseteq Known
  BY <1>4 DEF Delete, Rows
<1>5. CASE Begin
  BY <1>5 DEF Begin, Rows
<1>6. CASE StoreError
  BY <1>6 DEF StoreError, Rows
<1>7. CASE Commit
  BY <1>7 DEF Commit, Rows
<1>8. CASE WorkerStep
  <2>1. CASE Take \/ ReadFile \/ Fail \/ Drop \/ Close
    BY <1>1, <2>1 DEF Take, ReadFile, Fail, Drop, Close
  <2> QED
    BY <1>5, <1>6, <1>7, <1>8, <2>1 DEF WorkerStep
<1>9. ASSUME NEW e \in Editors, Request(e)
      PROVE  UNCHANGED status \/ \E d \in Docs : Upload(e, d)
  BY <1>9 DEF Request, PutContent, ReindexOne, WriteCorax, ReindexAll, ReindexPending
<1>10. ASSUME NEW e \in Editors, HandlerStep(e)
       PROVE  UNCHANGED status \/ Save(e)
  BY <1>10 DEF HandlerStep, Abort, Enqueue, Return
<1>11. CASE Start \/ Exit
  BY <1>1, <1>11 DEF Start, Exit
<1> HIDE DEF Known
<1> QED
  BY <1>1, <1>2, <1>3, <1>4, <1>8, <1>9, <1>10, <1>11 DEF Next

LEMMA KnownStep ==
    ASSUME TypeOK, KnownIsFinite, BusyHasDoc, Next
    PROVE  KnownIsFinite'
<1>1. ASSUME NEW S, IsFiniteSet(S), Known' \subseteq Known \cup S
      PROVE  IsFiniteSet(Known')
  <2>1. IsFiniteSet(Known \cup S)
    BY <1>1, FS_Union DEF KnownIsFinite
  <2> QED
    BY <1>1, <2>1, FS_Subset
<1>2. IsFiniteSet({}) /\ \A d \in Docs : IsFiniteSet({d})
  BY FS_EmptySet, FS_Singleton
<1>3. CASE Known' \subseteq Known
  BY <1>1, <1>2, <1>3 DEF KnownIsFinite
<1>4. ASSUME NEW d \in Docs, Known' \subseteq Known \cup {d}
      PROVE  IsFiniteSet(Known')
  BY <1>1, <1>2, <1>4
<1> QED
  BY <1>3, <1>4, KnownGrows DEF KnownIsFinite

(* A request names documents that were uploaded. *)
LEMMA RequestsStep ==
    ASSUME TypeOK, RequestsKnown, BusyHasDoc, Next
    PROVE  RequestsKnown'
<1> USE DEF TypeOK, RequestsKnown
<1> DEFINE Names(e) == editor'[e].docs \subseteq Known'
<1>1. Known \subseteq Known'
  BY KnownGrows
<1>2. SUFFICES ASSUME NEW e \in Editors, editor'[e] # editor[e]
               PROVE  editor'[e].docs \subseteq Known'
  BY <1>1
<1>3. Rows \subseteq Known
  BY DEF Rows, Known
<1>4. ASSUME NEW docs, NEW goal, docs \subseteq Known, Open(e, docs, goal)
      PROVE  editor'[e].docs \subseteq Known'
  BY <1>1, <1>4 DEF Open
<1>5. ASSUME NEW d \in Docs, Upload(e, d)
      PROVE  editor'[e].docs \subseteq Known'
  <2>1. d \in Known'
    BY <1>5 DEF Upload, Known
  <2> QED
    BY <1>5, <2>1 DEF Upload, Saved
<1>6. ASSUME NEW d \in Docs, PutContent(e, d) \/ ReindexOne(e, d)
      PROVE  editor'[e].docs \subseteq Known'
  BY <1>3, <1>4, <1>6 DEF PutContent, ReindexOne
<1>7. CASE WriteCorax(e) \/ ReindexAll(e) \/ ReindexPending(e)
  <2>1. CoraxDocs \cap Rows \subseteq Known /\ {d \in Rows : status[d] # "ready"} \subseteq Known
    BY <1>3
  <2> QED
    BY <1>3, <1>4, <1>7, <2>1 DEF WriteCorax, ReindexAll, ReindexPending
<1>8. CASE HandlerStep(e)
  <2>1. editor'[e] \in {Saved(editor[e].docs, editor[e].goal), IdleEditor}
    BY <1>8 DEF HandlerStep, Save, Abort, Enqueue, Return
  <2> QED
    BY <1>1, <2>1 DEF Saved, IdleEditor
<1>9. CASE Exit
  BY <1>9 DEF Exit, IdleEditor
<1>10. ASSUME NEW f \in Editors, f # e, Request(f) \/ HandlerStep(f)
       PROVE  FALSE
  BY <1>2, <1>10 DEF Request, HandlerStep, Upload, PutContent, ReindexOne, WriteCorax, ReindexAll,
                     ReindexPending, Save, Abort, Enqueue, Return, Open
<1>11. CASE Start \/ WorkerStep \/ \E d \in Docs : Delete(d)
  BY <1>2, <1>11 DEF Start, WorkerStep, Delete, Take, Begin, ReadFile, Commit, Fail, StoreError, Drop, Close
<1> QED
  BY <1>5, <1>6, <1>7, <1>8, <1>9, <1>10, <1>11 DEF Next, Request

(* The worker has a document from Take until Close. *)
LEMMA BusyStep ==
    ASSUME TypeOK, BusyHasDoc, Next
    PROVE  BusyHasDoc'
<1> USE DEF TypeOK, BusyHasDoc
<1>1. CASE Take
  BY <1>1, HeadTailProperties DEF Take
<1>2. CASE Close \/ Exit
  BY <1>2 DEF Close, Exit, WaitingWorker
<1>3. CASE Begin \/ ReadFile \/ Commit \/ Fail \/ StoreError \/ Drop
  BY <1>3 DEF Begin, ReadFile, Commit, Fail, StoreError, Drop, Worker
<1>4. CASE UNCHANGED worker
  BY <1>4
<1>5. ASSUME NEW e \in Editors, Request(e) \/ HandlerStep(e)
      PROVE  UNCHANGED worker
  BY <1>5 DEF Request, HandlerStep, Upload, PutContent, ReindexOne, WriteCorax, ReindexAll,
              ReindexPending, Save, Abort, Enqueue, Return
<1>6. CASE Start \/ \E d \in Docs : Delete(d)
  BY <1>6 DEF Start, Delete
<1> QED
  BY <1>1, <1>2, <1>3, <1>4, <1>5, <1>6 DEF Next, WorkerStep

-------------------------------------------------------------------------------
(* The dedup set stays exact. *)
LEMMA QueueStep ==
    ASSUME IndexInv, Next
    PROVE  PendingIsQueued'
<1> USE DEF IndexInv, TypeOK
<1>1. CASE UNCHANGED <<queue, pending, worker>>
  BY <1>1 DEF PendingIsQueued
<1>2. CASE Exit
  BY <1>2 DEF Exit, PendingIsQueued, WaitingWorker, ToSet, IsInjective
<1>3. ASSUME NEW e \in Editors, Enqueue(e)
      PROVE  PendingIsQueued'
  <2> DEFINE new == editor[e].docs \ pending
  <2>1. new \subseteq Docs /\ IsFiniteSet(new)
    BY FS_Subset DEF KnownIsFinite, RequestsKnown, Known
  <2>2. PICK order \in SetToSeqs(new) : queue' = queue \o order
    BY <1>3 DEF Enqueue
  <2>3. order \in Seq(new) /\ ToSet(order) = new /\ IsInjective(order)
    BY <2>1, <2>2, OrderOfSet
  <2>4. order \in Seq(Docs)
    BY <2>1, <2>3, SeqMonotonic
  <2>5. ToSet(queue) \cap ToSet(order) = {}
    BY <2>3 DEF PendingIsQueued
  <2>6. ToSet(queue') = ToSet(queue) \cup new /\ IsInjective(queue')
    BY <2>2, <2>3, <2>4, <2>5, AppendedQueue DEF PendingIsQueued
  <2>7. worker.pc # "waiting" => worker.doc \notin new
    BY DEF PendingIsQueued
  <2>8. pending' = pending \cup new /\ UNCHANGED worker
    BY <1>3 DEF Enqueue
  <2> QED
    BY <2>6, <2>7, <2>8 DEF PendingIsQueued
<1>4. CASE Take
  <2>1. queue # <<>> /\ queue' = Tail(queue) /\ worker.pc = "waiting"
        /\ worker'.pc = "taken" /\ worker'.doc = Head(queue) /\ pending' = pending
    BY <1>4 DEF Take
  <2>2. /\ IsInjective(Tail(queue)) /\ Head(queue) \notin ToSet(Tail(queue))
        /\ ToSet(queue) = ToSet(Tail(queue)) \cup {Head(queue)}
    BY <2>1, TailOfQueue DEF PendingIsQueued
  <2> QED
    BY <2>1, <2>2 DEF PendingIsQueued
<1>5. CASE Begin \/ ReadFile \/ Commit \/ Fail \/ StoreError \/ Drop
  <2>1. worker.pc # "waiting" /\ worker'.pc # "waiting" /\ worker'.doc = worker.doc
    BY <1>5 DEF Begin, ReadFile, Commit, Fail, StoreError, Drop, Worker
  <2>2. UNCHANGED <<queue, pending>>
    BY <1>5 DEF Begin, ReadFile, Commit, Fail, StoreError, Drop
  <2> QED
    BY <2>1, <2>2 DEF PendingIsQueued
<1>6. CASE Close
  BY <1>6 DEF Close, PendingIsQueued, WaitingWorker
<1>7. ASSUME NEW e \in Editors, Request(e)
      PROVE  UNCHANGED <<queue, pending, worker>>
  BY <1>7 DEF Request, Upload, PutContent, ReindexOne, WriteCorax, ReindexAll, ReindexPending
<1>8. ASSUME NEW e \in Editors, Save(e) \/ Abort(e) \/ Return(e)
      PROVE  UNCHANGED <<queue, pending, worker>>
  BY <1>8 DEF Save, Abort, Return
<1>9. CASE Start \/ \E d \in Docs : Delete(d)
  BY <1>1, <1>9 DEF Start, Delete
<1> QED
  BY <1>1, <1>2, <1>3, <1>4, <1>5, <1>6, <1>7, <1>8, <1>9 DEF Next, HandlerStep, WorkerStep

LEMMA InvStep ==
    ASSUME IndexInv, [Next]_vars
    PROVE  IndexInv'
<1>1. CASE Next
  BY <1>1, TypeStep, KnownStep, RequestsStep, BusyStep, QueueStep DEF IndexInv
<1>2. CASE UNCHANGED vars
  <2> USE <1>2 DEF vars
  <2>1. TypeOK' /\ PendingIsQueued'
    BY DEF IndexInv, TypeOK, PendingIsQueued
  <2>2. KnownIsFinite' /\ RequestsKnown' /\ BusyHasDoc'
    BY DEF IndexInv, KnownIsFinite, RequestsKnown, BusyHasDoc, Known
  <2> QED
    BY <2>1, <2>2 DEF IndexInv
<1> QED
  BY <1>1, <1>2

LEMMA InvInit == Init => IndexInv
<1> SUFFICES ASSUME Init PROVE IndexInv
  OBVIOUS
<1> USE DEF Init
<1>1. TypeOK
  <2>1. WaitingWorker \in Worker /\ IdleEditor \in Editor
    BY IndexAssumption DEF WaitingWorker, Worker, IdleEditor, Editor
  <2>2. "none" \in Status /\ 0 \in 0..MaxVersion /\ <<>> \in Seq(Docs)
    BY IndexAssumption DEF Status
  <2> QED
    BY <2>1, <2>2 DEF TypeOK
<1>2. KnownIsFinite
  <2>1. Known = {}
    BY DEF Known
  <2> QED
    BY <2>1, FS_EmptySet DEF KnownIsFinite
<1>3. RequestsKnown /\ BusyHasDoc
  BY DEF RequestsKnown, BusyHasDoc, IdleEditor, WaitingWorker
<1>4. PendingIsQueued
  BY DEF PendingIsQueued, WaitingWorker, ToSet, IsInjective
<1> QED
  BY <1>1, <1>2, <1>3, <1>4 DEF IndexInv

LEMMA IndexInvariant == Spec => []IndexInv
BY InvInit, InvStep, PTL DEF Spec

(* Rows, files, queue, worker and requests of WikiRAG keep their shape,    *)
(* whatever handlers, worker steps and restarts come in between.           *)
THEOREM IndexTypeCorrect == Spec => []TypeOK
<1>1. IndexInv => TypeOK
  BY DEF IndexInv
<1> QED
  BY <1>1, IndexInvariant, PTL

(* The dedup set of wikirag_index_queue.py is exact at every moment:       *)
(* nothing stays in it that is neither queued nor being indexed, and       *)
(* nothing is queued twice.                                                *)
THEOREM DedupIsExact == Spec => []PendingIsQueued
<1>1. IndexInv => PendingIsQueued
  BY DEF IndexInv
<1> QED
  BY <1>1, IndexInvariant, PTL
================================================================================
