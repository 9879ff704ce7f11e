------------------------------- MODULE IndexQueue -------------------------------
(***************************************************************************)
(* The index queue of WikiRAG (wikirag_index_queue.py): request handlers   *)
(* put documents into it, one worker task takes them out and rebuilds      *)
(* their chunks.                                                           *)
(*                                                                         *)
(* The panel is one asyncio process, so a step here is the code between    *)
(* two awaits.  A handler reads a row, writes the file, awaits the commit  *)
(* and only then calls enqueue; the worker commits "pending", reads the    *)
(* file, awaits the embeddings and commits "ready".  Other handlers run in *)
(* between.  The queue lives in memory; rows and files survive a restart.  *)
(*                                                                         *)
(* The lifespan starts the queue before the first request and stops it     *)
(* after the last one, and the process ends with it, so "_deferred" stays  *)
(* empty and is left out.                                                  *)
(***************************************************************************)
EXTENDS Naturals, Sequences, SequencesExt

CONSTANTS
    Docs,        \* identities of the documents
    CoraxDocs,   \* those the CORAX snapshot writes
    Editors,     \* requests that change or reindex documents at the same time
    MaxVersion,  \* bound on the contents a file goes through
    NoDoc        \* the worker has no document

ASSUME IndexAssumption ==
    /\ CoraxDocs \subseteq Docs
    /\ MaxVersion \in Nat
    /\ NoDoc \notin Docs

VARIABLES
    file,      \* file[d]: the content on disk, counted; 0 without a file
    status,    \* status[d]: WikiRagDocument.index_status
    chunks,    \* chunks[d]: the content the committed chunks were made of
    up,        \* the worker task runs
    queue,     \* _q
    pending,   \* _pending
    worker,    \* the worker task inside index_document
    editor     \* editor[e]: a request inside its handler

rowVars == <<file, status, chunks>>
vars == <<file, status, chunks, up, queue, pending, worker, editor>>

-------------------------------------------------------------------------------
Status == {"none", "pending", "ready", "error", "gone"}

(* "waiting" in q.get, then the steps of index_document, then "closing":   *)
(* back in _worker, before the finally.                                    *)
Worker == [pc : {"waiting", "taken", "begun", "read", "failing", "closing"},
           doc : Docs \cup {NoDoc}, ver : 0..MaxVersion]
WaitingWorker == [pc |-> "waiting", doc |-> NoDoc, ver |-> 0]

(* "seen" are the documents the handler's session loaded as pending: the   *)
(* session writes index_status only where it changes it.  "goal" is what   *)
(* follows the commit.                                                     *)
Editor == [pc : {"idle", "open", "saved"}, docs : SUBSET Docs, seen : SUBSET Docs,
           goal : {"none", "enqueue", "snapshot"}]
IdleEditor == [pc |-> "idle", docs |-> {}, seen |-> {}, goal |-> "none"]
Saved(docs, goal) == [pc |-> "saved", docs |-> docs, seen |-> {}, goal |-> goal]
AutoIndex == {"none", "enqueue"}    \* get_auto_index is off or on

TypeOK ==
    /\ file \in [Docs -> 0..MaxVersion]
    /\ status \in [Docs -> Status]
    /\ chunks \in [Docs -> 0..MaxVersion]
    /\ up \in BOOLEAN
    /\ queue \in Seq(Docs)
    /\ pending \in SUBSET Docs
    /\ worker \in Worker
    /\ editor \in [Editors -> Editor]

Init ==
    /\ file = [d \in Docs |-> 0]
    /\ status = [d \in Docs |-> "none"]
    /\ chunks = [d \in Docs |-> 0]
    /\ up = FALSE
    /\ queue = <<>>
    /\ pending = {}
    /\ worker = WaitingWorker
    /\ editor = [e \in Editors |-> IdleEditor]

Rows == {d \in Docs : status[d] \notin {"none", "gone"}}
SeenPending(docs) == {d \in docs : status[d] = "pending"}

-------------------------------------------------------------------------------
(* The process. *)

(* start: a new asyncio.Queue and the worker task. *)
Start ==
    /\ ~up
    /\ up' = TRUE
    /\ UNCHANGED <<rowVars, queue, pending, worker, editor>>

(* stop at the end of the lifespan, or a crash.  The worker's transaction  *)
(* rolls back, the requests end, and the memory is gone with the process.  *)
Exit ==
    /\ up
    /\ up' = FALSE
    /\ queue' = <<>>
    /\ pending' = {}
    /\ worker' = WaitingWorker
    /\ editor' = [e \in Editors |-> IdleEditor]
    /\ UNCHANGED rowVars

-------------------------------------------------------------------------------
(* Requests. *)

Open(e, docs, goal) ==
    editor' = [editor EXCEPT ![e] = [pc |-> "open", docs |-> docs,
                                     seen |-> SeenPending(docs), goal |-> goal]]

(* upload_document, or a snapshot that has no row yet: file and row are    *)
(* new, the commit makes them visible.                                     *)
Upload(e, d) ==
    /\ up
    /\ editor[e].pc = "idle"
    /\ status[d] = "none"
    /\ MaxVersion > 0
    /\ file' = [file EXCEPT ![d] = 1]
    /\ status' = [status EXCEPT ![d] = "pending"]
    /\ \E goal \in AutoIndex : editor' = [editor EXCEPT ![e] = Saved({d}, goal)]
    /\ UNCHANGED <<chunks, up, queue, pending, worker>>

(* put_document_content: the row is read and the file written before the   *)
(* commit.                                                                 *)
PutContent(e, d) ==
    /\ up
    /\ editor[e].pc = "idle"
    /\ d \in Rows
    /\ file[d] < MaxVersion
    /\ file' = [file EXCEPT ![d] = @ + 1]
    /\ \E goal \in AutoIndex : Open(e, {d}, goal)
    /\ UNCHANGED <<status, chunks, up, queue, pending, worker>>

(* sync_corax_wiki_docs and import_corax_snapshot: all the files of the    *)
(* snapshot, one commit, and no enqueue.                                   *)
WriteCorax(e) ==
    LET docs == CoraxDocs \cap Rows
    IN  /\ up
        /\ editor[e].pc = "idle"
        /\ docs # {} /\ \A d \in docs : file[d] < MaxVersion
        /\ file' = [d \in Docs |-> IF d \in docs THEN file[d] + 1 ELSE file[d]]
        /\ Open(e, docs, "snapshot")
        /\ UNCHANGED <<status, chunks, up, queue, pending, worker>>

(* reindex_document, reindex_all_documents, reindex_pending_documents. *)
ReindexOne(e, d) ==
    /\ up
    /\ editor[e].pc = "idle"
    /\ d \in Rows
    /\ Open(e, {d}, "enqueue")
    /\ UNCHANGED <<rowVars, up, queue, pending, worker>>

ReindexAll(e) ==
    /\ up
    /\ editor[e].pc = "idle"
    /\ Open(e, Rows, "enqueue")
    /\ UNCHANGED <<rowVars, up, queue, pending, worker>>

ReindexPending(e) ==
    /\ up
    /\ editor[e].pc = "idle"
    /\ Open(e, {d \in Rows : status[d] # "ready"}, "enqueue")
    /\ UNCHANGED <<rowVars, up, queue, pending, worker>>

(* The commit.  It fails when a row it updates was deleted. *)
Save(e) ==
    LET touched == editor[e].docs \ editor[e].seen
    IN  /\ editor[e].pc = "open"
        /\ touched \subseteq Rows
        /\ status' = [d \in Docs |-> IF d \in touched THEN "pending" ELSE status[d]]
        /\ editor' = [editor EXCEPT ![e] = Saved(@.docs, @.goal)]
        /\ UNCHANGED <<file, chunks, up, queue, pending, worker>>

(* A commit that fails, or a request that is cancelled: the file stays. *)
Abort(e) ==
    /\ editor[e].pc = "open"
    /\ editor' = [editor EXCEPT ![e] = IdleEditor]
    /\ UNCHANGED <<rowVars, up, queue, pending, worker>>

(* enqueue: what is already pending is dropped, the rest is appended.      *)
(* A document counts as pending until the worker is done with it.          *)
Enqueue(e) ==
    LET new == editor[e].docs \ pending
    IN  /\ editor[e].pc = "saved"
        /\ editor[e].goal = "enqueue"
        /\ \E order \in SetToSeqs(new) : queue' = queue \o order
        /\ pending' = pending \cup new
        /\ editor' = [editor EXCEPT ![e] = IdleEditor]
        /\ UNCHANGED <<rowVars, up, worker>>

(* Without auto_index, and after a snapshot, the handler only answers. *)
Return(e) ==
    /\ editor[e].pc = "saved"
    /\ editor[e].goal # "enqueue"
    /\ editor' = [editor EXCEPT ![e] = IdleEditor]
    /\ UNCHANGED <<rowVars, up, queue, pending, worker>>

(* delete_document and delete_folder: the chunks and the row in one        *)
(* commit, then the file, which nobody can reach without the row.          *)
Delete(d) ==
    /\ up
    /\ d \in Rows
    /\ status' = [status EXCEPT ![d] = "gone"]
    /\ chunks' = [chunks EXCEPT ![d] = 0]
    /\ file' = [file EXCEPT ![d] = 0]
    /\ UNCHANGED <<up, queue, pending, worker, editor>>

-------------------------------------------------------------------------------
(* The worker: _worker and index_document. *)

(* Mutated form of Take: the dedup set lets go when the document is taken. *)
TakeDiscards ==
    /\ up
    /\ worker.pc = "waiting"
    /\ queue # <<>>
    /\ worker' = [pc |-> "taken", doc |-> Head(queue), ver |-> 0]
    /\ queue' = Tail(queue)
    /\ pending' = pending \ {Head(queue)}
    /\ UNCHANGED <<rowVars, up, editor>>

Take ==
    /\ up
    /\ worker.pc = "waiting"
    /\ queue # <<>>
    /\ worker' = [pc |-> "taken", doc |-> Head(queue), ver |-> 0]
    /\ queue' = Tail(queue)
    /\ UNCHANGED <<rowVars, up, pending, editor>>

(* db.get and the commit of "pending"; a missing row raises. *)
Begin ==
    /\ worker.pc = "taken"
    /\ IF worker.doc \in Rows
         THEN /\ status' = [status EXCEPT ![worker.doc] = "pending"]
              /\ worker' = [worker EXCEPT !.pc = "begun"]
         ELSE /\ worker' = [worker EXCEPT !.pc = "closing"]
              /\ UNCHANGED status
    /\ UNCHANGED <<file, chunks, up, queue, pending, editor>>

(* The file is read, without one the indexing fails. *)
ReadFile ==
    /\ worker.pc = "begun"
    /\ worker' = IF file[worker.doc] > 0
                   THEN [worker EXCEPT !.pc = "read", !.ver = file[worker.doc]]
                   ELSE [worker EXCEPT !.pc = "failing"]
    /\ UNCHANGED <<rowVars, up, queue, pending, editor>>

(* New chunks and "ready" in one commit.  A deleted row refuses it.  The   *)
(* refresh after the commit may still fail.                                *)
Commit ==
    /\ worker.pc = "read"
    /\ worker.doc \in Rows
    /\ chunks' = [chunks EXCEPT ![worker.doc] = worker.ver]
    /\ status' = [status EXCEPT ![worker.doc] = "ready"]
    /\ \E pc \in {"closing", "failing"} : worker' = [worker EXCEPT !.pc = pc]
    /\ UNCHANGED <<file, up, queue, pending, editor>>

(* Extraction, chunking or the database fails: rollback. *)
Fail ==
    /\ worker.pc \in {"begun", "read"}
    /\ worker' = [worker EXCEPT !.pc = "failing"]
    /\ UNCHANGED <<rowVars, up, queue, pending, editor>>

(* Mutated form of StoreError: a status no reader of the row knows. *)
StoreErrorRaw ==
    /\ worker.pc = "failing"
    /\ status' = IF worker.doc \in Rows
                   THEN [status EXCEPT ![worker.doc] = "failed"] ELSE status
    /\ worker' = [worker EXCEPT !.pc = "closing"]
    /\ UNCHANGED <<file, chunks, up, queue, pending, editor>>

(* The error is stored in the row, if there is one. *)
StoreError ==
    /\ worker.pc = "failing"
    /\ status' = IF worker.doc \in Rows
                   THEN [status EXCEPT ![worker.doc] = "error"] ELSE status
    /\ worker' = [worker EXCEPT !.pc = "closing"]
    /\ UNCHANGED <<file, chunks, up, queue, pending, editor>>

(* The database is away: index_document_task logs and gives the doc up. *)
Drop ==
    /\ worker.pc \in {"taken", "failing"}
    /\ worker' = [worker EXCEPT !.pc = "closing"]
    /\ UNCHANGED <<rowVars, up, queue, pending, editor>>

(* Mutated form of Close: an exception path that leaves the dedup set. *)
CloseKeeps ==
    /\ worker.pc = "closing"
    /\ worker' = WaitingWorker
    /\ UNCHANGED <<rowVars, up, queue, pending, editor>>

(* The finally of _worker. *)
Close ==
    /\ worker.pc = "closing"
    /\ pending' = pending \ {worker.doc}
    /\ worker' = WaitingWorker
    /\ UNCHANGED <<rowVars, up, queue, editor>>

-------------------------------------------------------------------------------
WorkerStep ==
    Take \/ Begin \/ ReadFile \/ Commit \/ Fail \/ StoreError \/ Drop \/ Close
Request(e) ==
    \/ \E d \in Docs : Upload(e, d) \/ PutContent(e, d) \/ ReindexOne(e, d)
    \/ WriteCorax(e) \/ ReindexAll(e) \/ ReindexPending(e)
HandlerStep(e) == Save(e) \/ Abort(e) \/ Enqueue(e) \/ Return(e)

Next ==
    \/ Start \/ Exit
    \/ \E e \in Editors : Request(e) \/ HandlerStep(e)
    \/ \E d \in Docs : Delete(d)
    \/ WorkerStep

Spec == Init /\ [][Next]_vars

(* A handler that was called ends, the worker's task is scheduled, and the *)
(* container is restarted.  Nobody has to send a request.                  *)
Fairness ==
    /\ WF_vars(Start)
    /\ WF_vars(WorkerStep)
    /\ \A e \in Editors : WF_vars(HandlerStep(e))

FairSpec == Spec /\ Fairness

-------------------------------------------------------------------------------
(* The dedup set is exact: it holds the documents in the queue, each once, *)
(* and the one the worker is busy with.  A document left in it by mistake  *)
(* could never be queued again; one missing from it would be indexed twice.*)
PendingIsQueued ==
    /\ pending = ToSet(queue) \cup (IF worker.pc = "waiting" THEN {} ELSE {worker.doc})
    /\ IsInjective(queue)
    /\ worker.pc # "waiting" => worker.doc \notin ToSet(queue)

(* What enqueue accepts does not stay in the queue. *)
Drains == \A d \in Docs : d \in pending ~> d \notin pending

(* wikirag_options.py: "Whether upload/edit/import should queue indexing   *)
(* automatically."  When a handler has called enqueue, the content of the  *)
(* file gets indexed: the document is in the queue, or the worker has it   *)
(* and has not read an older content.                                      *)
EnqueuedIsRead ==
    [][\A e \in Editors : Enqueue(e) =>
          \A d \in editor[e].docs \cap Rows :
              \/ d \in ToSet(queue')
              \/ worker.doc = d /\ worker.ver \in {0, file[d]}]_vars
================================================================================
