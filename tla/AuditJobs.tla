------------------------------- MODULE AuditJobs -------------------------------
(***************************************************************************)
(* The job queue of one audited Linux host: editors put allowlisted jobs   *)
(* into server_audit_jobs, the agent's poll leases the oldest one, runs it *)
(* and posts the result.                                                   *)
(*                                                                         *)
(* Every HTTP request of the panel is a transaction at READ COMMITTED with *)
(* several awaits, so a request is a slot that moves through its steps,    *)
(* and a step sees what other requests committed in between.  An UPDATE    *)
(* keeps its row lock until its transaction ends; "hold" is that lock.  A  *)
(* request outlives the client that gave up on it: the agent's curl stops  *)
(* after 20 s and tries the next path while the panel still works on the   *)
(* first one.                                                              *)
(*                                                                         *)
(* One host row is one instance.  Deleting the host is final here: a host  *)
(* that enrolls again under the same name gets a new row with new jobs.    *)
(***************************************************************************)
EXTENDS Naturals, FiniteSets

CONSTANTS
    MaxJobs,     \* bound on the identities server_audit_jobs hands out
    QueueMax,    \* _QUEUE_MAX
    Editors,     \* requests of editors that may run at the same time
    Pollers,     \* agent processes that poll under this host name at once
    Calls,       \* directive requests the panel may be working on at once
    Posts,       \* result requests the panel may be working on at once
    Paths,       \* addresses one poll tries: every port, two paths each
    HomePaths,   \* how many of them are on the configured port
    StatusJobs,  \* jobs whose action is "status"
    NoCall       \* no directive request is awaited

NoJob == 0
Jobs == 1..MaxJobs

ASSUME BoundAssumption ==
    /\ MaxJobs \in Nat
    /\ QueueMax \in Nat
    /\ Paths \in Nat
    /\ HomePaths \in Nat
    /\ NoCall \notin Calls

VARIABLES
    host,     \* the host row: "enabled", "disabled" or "deleted"
    status,   \* status[j]: ServerAuditJob.status, "absent" without a committed row
    code,     \* code[j]: ServerAuditJob.exit_code
    aged,     \* leased jobs whose leased_at is older than _LEASE
    nextId,   \* the sequence behind ServerAuditJob.id
    editor,   \* editor[e]: a host_job_create request
    call,     \* call[c]: an audit-directive request inside the panel
    post,     \* post[q]: an audit-job request inside the panel
    poller,   \* poller[p]: one tick of the agent
    ahead,    \* history: the jobs committed when j got its identity
    handed,   \* history: the jobs that were ever leased
    runs      \* history: runs[p][j], how often p executed j

rowVars == <<status, code, aged>>
ghostVars == <<ahead, handed, runs>>
vars == <<host, status, code, aged, nextId, editor, call, post, poller,
          ahead, handed, runs>>

-------------------------------------------------------------------------------
NoCode == 256
ExitCodes == {0, 1}          \* 0, and any failure
Status == {"absent", "pending", "leased", "done", "failed", "expired", "gone"}

Editor == [pc : {"idle", "checked", "flushed"}, job : Jobs \cup {NoJob}]
IdleEditor == [pc |-> "idle", job |-> NoJob]

Call == [pc : {"free", "new", "begun", "read", "ok", "error"},
         cut : SUBSET Jobs, hold : SUBSET Jobs, job : Jobs \cup {NoJob}]
CallAt(pc) == [pc |-> pc, cut |-> {}, hold |-> {}, job |-> NoJob]

Post == [pc : {"free", "new", "read"}, job : Jobs \cup {NoJob}, code : ExitCodes]
FreePost == [pc |-> "free", job |-> NoJob, code |-> 0]

(* A poller that asks and has not tried an address yet is between ticks. *)
Poller == [pc : {"asking", "ready", "posting"}, tries : 0..Paths,
           call : Calls \cup {NoCall}, body : Jobs \cup {NoJob},
           heard : BOOLEAN, code : ExitCodes]
IdlePoller == [pc |-> "asking", tries |-> 0, call |-> NoCall, body |-> NoJob,
               heard |-> FALSE, code |-> 0]

(* One type invariant: the shape of the rows and of every request. *)
TypeOK ==
    /\ host \in {"enabled", "disabled", "deleted"}
    /\ status \in [Jobs -> Status]
    /\ code \in [Jobs -> ExitCodes \cup {NoCode}]
    /\ aged \in SUBSET Jobs
    /\ nextId \in 1..(MaxJobs + 1)
    /\ editor \in [Editors -> Editor]
    /\ call \in [Calls -> Call]
    /\ post \in [Posts -> Post]
    /\ poller \in [Pollers -> Poller]
    /\ ahead \in [Jobs -> SUBSET Jobs]
    /\ handed \in SUBSET Jobs
    /\ runs \in [Pollers -> [Jobs -> Nat]]

Init ==
    /\ host = "enabled"
    /\ status = [j \in Jobs |-> "absent"]
    /\ code = [j \in Jobs |-> NoCode]
    /\ aged = {}
    /\ nextId = 1
    /\ editor = [e \in Editors |-> IdleEditor]
    /\ call = [c \in Calls |-> CallAt("free")]
    /\ post = [q \in Posts |-> FreePost]
    /\ poller = [p \in Pollers |-> IdlePoller]
    /\ ahead = [j \in Jobs |-> {}]
    /\ handed = {}
    /\ runs = [p \in Pollers |-> [j \in Jobs |-> 0]]

-------------------------------------------------------------------------------
(* What a statement sees: committed rows only. *)
Committed == {j \in Jobs : status[j] # "absent"}
Pending == {j \in Jobs : status[j] = "pending"}
OnlyPending == {j \in Jobs : status[j] = "pending"}  \* mutated form of Waiting
Waiting == {j \in Jobs : status[j] \in {"pending", "leased"}}
Newest(S) == CHOOSE j \in S : \A i \in S : j >= i    \* mutated form of Oldest
Oldest(S) == CHOOSE j \in S : \A i \in S : j <= i

(* No other directive request has updated row j without committing yet. *)
Unlocked(j, others) == \A c \in others : j \notin call[c].hold

-------------------------------------------------------------------------------
(* Editors: host_job_create and enqueue_job.                               *)

(* The host is enabled and fewer than _QUEUE_MAX jobs wait. *)
EnqueueCheck(e) ==
    /\ editor[e].pc = "idle"
    /\ host = "enabled"
    /\ Cardinality(Waiting) < QueueMax
    /\ editor' = [editor EXCEPT ![e].pc = "checked"]
    /\ UNCHANGED <<host, rowVars, nextId, call, post, poller, ghostVars>>

(* db.add and flush: the row has an identity, nobody else sees it.  The    *)
(* insert takes a key-share lock on the host row, and fails without one.   *)
EnqueueFlush(e) ==
    /\ editor[e].pc = "checked"
    /\ host # "deleted"
    /\ nextId \in Jobs
    /\ nextId' = nextId + 1
    /\ editor' = [editor EXCEPT ![e] = [pc |-> "flushed", job |-> nextId]]
    /\ ahead' = [ahead EXCEPT ![nextId] = Committed]
    /\ UNCHANGED <<host, rowVars, call, post, poller, handed, runs>>

EnqueueCommit(e) ==
    /\ editor[e].pc = "flushed"
    /\ status' = [status EXCEPT ![editor[e].job] = "pending"]
    /\ editor' = [editor EXCEPT ![e] = IdleEditor]
    /\ UNCHANGED <<host, code, aged, nextId, call, post, poller, ghostVars>>

(* The insert fails, the commit fails or the panel restarts: rollback. *)
EnqueueAbort(e) ==
    /\ editor[e].pc # "idle"
    /\ editor' = [editor EXCEPT ![e] = IdleEditor]
    /\ UNCHANGED <<host, rowVars, nextId, call, post, poller, ghostVars>>

(* Manage turns collection on this host off and on. *)
SetEnabled ==
    /\ host # "deleted"
    /\ host' = IF host = "enabled" THEN "disabled" ELSE "enabled"
    /\ UNCHANGED <<rowVars, nextId, editor, call, post, poller, ghostVars>>

(* Mutated form of DeleteHost: without the foreign key nothing waits. *)
DeleteHostAtOnce ==
    /\ host # "deleted"
    /\ host' = "deleted"
    /\ status' = [j \in Jobs |-> IF j \in Committed THEN "gone" ELSE "absent"]
    /\ aged' = {}
    /\ UNCHANGED <<code, nextId, editor, call, post, poller, ghostVars>>

(* delete_host: the jobs go with the row (ON DELETE CASCADE).  The delete  *)
(* waits for inserts that reference the host and for locked job rows.      *)
DeleteHost ==
    /\ host # "deleted"
    /\ \A e \in Editors : editor[e].pc # "flushed"
    /\ \A c \in Calls : call[c].hold = {}
    /\ host' = "deleted"
    /\ status' = [j \in Jobs |-> IF j \in Committed THEN "gone" ELSE "absent"]
    /\ aged' = {}
    /\ UNCHANGED <<code, nextId, editor, call, post, poller, ghostVars>>

(* The five minutes of a lease pass. *)
LeaseAges(j) ==
    /\ status[j] = "leased"
    /\ j \notin aged
    /\ aged' = aged \cup {j}
    /\ UNCHANGED <<host, status, code, nextId, editor, call, post, poller, ghostVars>>

-------------------------------------------------------------------------------
(* The panel's side of a poll: agent_audit_directive and lease_next_job.   *)

(* The request ends.  Nobody reads the answer when the agent gave up. *)
Answer(c, pc, job) ==
    call' = [call EXCEPT ![c] =
        IF \E p \in Pollers : poller[p].call = c
          THEN [CallAt(pc) EXCEPT !.job = job]
          ELSE CallAt("free")]

(* find_audit_host, the enabled test, and "now": leases that are old now   *)
(* are the ones this request may expire later.                             *)
LeaseBegin(c) ==
    /\ call[c].pc = "new"
    /\ IF host = "enabled"
         THEN call' = [call EXCEPT ![c] = [CallAt("begun") EXCEPT !.cut = aged]]
         ELSE Answer(c, "ok", NoJob)
    /\ UNCHANGED <<host, rowVars, nextId, editor, post, poller, ghostVars>>

(* Mutated form of LeaseRead: without a pending job the request answers    *)
(* before it commits, and the leases it expired roll back.                 *)
LeaseReadNoCommit(c) ==
    LET old == {j \in call[c].cut \cap aged : status[j] = "leased"}
    IN  /\ call[c].pc = "begun"
        /\ \A j \in old : Unlocked(j, Calls \ {c})
        /\ IF Pending = {}
             THEN Answer(c, "ok", NoJob)
             ELSE call' = [call EXCEPT ![c] = [pc |-> "read", cut |-> {},
                                               hold |-> old, job |-> Oldest(Pending)]]
        /\ UNCHANGED <<host, rowVars, nextId, editor, post, poller, ghostVars>>

(* The bulk UPDATE takes the leases that were old at "now" and that no     *)
(* other request renewed since, waiting for rows another request holds,    *)
(* and the SELECT picks the oldest pending job without a lock.             *)
LeaseRead(c) ==
    LET old == {j \in call[c].cut \cap aged : status[j] = "leased"}
        next == IF Pending = {} THEN NoJob ELSE Oldest(Pending)
    IN  /\ call[c].pc = "begun"
        /\ \A j \in old : Unlocked(j, Calls \ {c})
        /\ IF old = {} /\ next = NoJob
             THEN Answer(c, "ok", NoJob)
             ELSE call' = [call EXCEPT ![c] = [pc |-> "read", cut |-> {},
                                               hold |-> old, job |-> next]]
        /\ UNCHANGED <<host, rowVars, nextId, editor, post, poller, ghostVars>>

(* Mutated forms of LeasedRows: an expired lease goes back into the queue, *)
(* or is shown as failed.                                                  *)
LeasedRowsRequeue(hold, job) ==
    [j \in Jobs |-> CASE j = job -> "leased"
                      [] j # job /\ j \in hold -> "pending"
                      [] OTHER -> status[j]]
LeasedRowsFailed(hold, job) ==
    [j \in Jobs |-> CASE j = job -> "leased"
                      [] j # job /\ j \in hold -> "failed"
                      [] OTHER -> status[j]]

(* The rows after the commit: the held leases expired, the chosen row      *)
(* leased.  The UPDATE of the chosen row names its id and no status.       *)
LeasedRows(hold, job) ==
    [j \in Jobs |-> CASE j = job -> "leased"
                      [] j # job /\ j \in hold -> "expired"
                      [] OTHER -> status[j]]

LeaseCommit(c) ==
    LET hold == call[c].hold
        job == call[c].job
    IN  /\ call[c].pc = "read"
        /\ job # NoJob => status[job] # "gone" /\ Unlocked(job, Calls \ {c})
        /\ status' = LeasedRows(hold, job)
        /\ aged' = aged \ (hold \cup {job})
        /\ handed' = handed \cup ({job} \ {NoJob})
        /\ Answer(c, "ok", job)
        /\ UNCHANGED <<host, code, nextId, editor, post, poller, ahead, runs>>

(* A row is gone, the database refuses, or the panel restarts: rollback. *)
LeaseFail(c) ==
    /\ call[c].pc \in {"new", "begun", "read"}
    /\ Answer(c, "error", NoJob)
    /\ UNCHANGED <<host, rowVars, nextId, editor, post, poller, ghostVars>>

-------------------------------------------------------------------------------
(* The panel's side of a result: submit_audit_job and finish_job.          *)

(* An unknown host, an unknown job or a closed one ends the request. *)
FinishRead(q) ==
    /\ post[q].pc = "new"
    /\ post' = [post EXCEPT ![q] =
           IF status[post[q].job] \in {"leased", "pending"}
             THEN [post[q] EXCEPT !.pc = "read"]
             ELSE FreePost]
    /\ UNCHANGED <<host, rowVars, nextId, editor, call, poller, ghostVars>>

(* Mutated form of FinishStatus: the exit code's name instead of a status. *)
FinishStatusRaw(j, exit) == IF exit = 0 THEN "ok" ELSE "failed"

(* status "done" or "failed", from the action and the exit code. *)
FinishStatus(j, exit) ==
    IF j \in StatusJobs \/ exit = 0 THEN "done" ELSE "failed"

(* The UPDATE names the row's id only: the status read before the lock was *)
(* granted is not looked at again.                                         *)
FinishWrite(q) ==
    LET job == post[q].job
    IN  /\ post[q].pc = "read"
        /\ status[job] # "gone"
        /\ Unlocked(job, Calls)
        /\ status' = [status EXCEPT ![job] = FinishStatus(job, post[q].code)]
        /\ code' = [code EXCEPT ![job] = post[q].code]
        /\ aged' = aged \ {job}
        /\ post' = [post EXCEPT ![q] = FreePost]
        /\ UNCHANGED <<host, nextId, editor, call, poller, ghostVars>>

FinishFail(q) ==
    /\ post[q].pc # "free"
    /\ post' = [post EXCEPT ![q] = FreePost]
    /\ UNCHANGED <<host, rowVars, nextId, editor, call, poller, ghostVars>>

-------------------------------------------------------------------------------
(* The agent: one tick of audit_agent.sh, then run_jobs.py.                *)

(* What the tick does with the body file once the addresses are tried:     *)
(* run_jobs.py runs the job in it, without one the tick is over.           *)
AfterAsk(p, body) ==
    poller' = [poller EXCEPT ![p] =
        IF body = NoJob THEN IdlePoller
        ELSE [IdlePoller EXCEPT !.pc = "ready", !.body = body]]

(* fetch_directive reaches the panel on the next address. *)
Ask(p, c) ==
    /\ poller[p].pc = "asking"
    /\ poller[p].call = NoCall
    /\ poller[p].tries < Paths
    /\ call[c].pc = "free"
    /\ call' = [call EXCEPT ![c] = CallAt("new")]
    /\ poller' = [poller EXCEPT ![p] = [@ EXCEPT !.call = c, !.tries = poller[p].tries + 1]]
    /\ UNCHANGED <<host, rowVars, nextId, editor, post, ghostVars>>

(* The next address is not the panel.  curl leaves the body file alone, or *)
(* puts something into it that is no directive.                            *)
AskElsewhere(p) ==
    /\ poller[p].pc = "asking"
    /\ poller[p].call = NoCall
    /\ poller[p].tries < Paths
    /\ \E body \in {poller[p].body, NoJob} :
          poller' = [poller EXCEPT ![p] = [@ EXCEPT !.tries = poller[p].tries + 1, !.body = body]]
    /\ UNCHANGED <<host, rowVars, nextId, editor, call, post, ghostVars>>

(* A directive arrives and replaces the body file.  The configured port    *)
(* ends the loop; another port ends it with a "yes" and not with a "no".   *)
Receive(p) ==
    LET c == poller[p].call
    IN  /\ poller[p].pc = "asking"
        /\ c # NoCall
        /\ call[c].pc = "ok"
        /\ call' = [call EXCEPT ![c] = CallAt("free")]
        /\ \/ AfterAsk(p, call[c].job)
           \/ /\ poller[p].tries > HomePaths
              /\ poller' = [poller EXCEPT ![p] =
                     [@ EXCEPT !.call = NoCall, !.heard = TRUE, !.body = call[c].job]]
        /\ UNCHANGED <<host, rowVars, nextId, editor, post, ghostVars>>

(* The panel answers with an error: the body file is no directive. *)
ReceiveError(p) ==
    LET c == poller[p].call
    IN  /\ poller[p].pc = "asking"
        /\ c # NoCall
        /\ call[c].pc = "error"
        /\ call' = [call EXCEPT ![c] = CallAt("free")]
        /\ poller' = [poller EXCEPT ![p] = [@ EXCEPT !.call = NoCall, !.body = NoJob]]
        /\ UNCHANGED <<host, rowVars, nextId, editor, post, ghostVars>>

(* The request is left to itself; a finished one has nobody to answer. *)
Abandon(c) ==
    call' = IF c # NoCall /\ call[c].pc \in {"ok", "error"}
              THEN [call EXCEPT ![c] = CallAt("free")] ELSE call

(* No answer within 20 s, or a connection lost on the way back. *)
GiveUp(p) ==
    /\ poller[p].pc = "asking"
    /\ poller[p].call # NoCall
    /\ Abandon(poller[p].call)
    /\ \E body \in {poller[p].body, NoJob} :
          poller' = [poller EXCEPT ![p] = [@ EXCEPT !.call = NoCall, !.body = body]]
    /\ UNCHANGED <<host, rowVars, nextId, editor, post, ghostVars>>

(* Every address was tried.  A "no" from another port counts now. *)
EndAsk(p) ==
    /\ poller[p].pc = "asking"
    /\ poller[p].call = NoCall
    /\ poller[p].tries = Paths
    /\ AfterAsk(p, IF poller[p].heard THEN poller[p].body ELSE NoJob)
    /\ UNCHANGED <<host, rowVars, nextId, editor, call, post, ghostVars>>

(* execute: the effect on the host happens once the step starts. *)
RunJob(p) ==
    LET job == poller[p].body
    IN  /\ poller[p].pc = "ready"
        /\ runs' = [runs EXCEPT ![p][job] = @ + 1]
        /\ \E exit \in ExitCodes :
              poller' = [poller EXCEPT ![p] =
                  [IdlePoller EXCEPT !.pc = "posting", !.body = job, !.code = exit]]
        /\ UNCHANGED <<host, rowVars, nextId, editor, call, post, ahead, handed>>

(* _post: one attempt.  The tick goes on when the panel answers or after   *)
(* 20 s, so the request may outlive it.                                    *)
PostResult(p, q) ==
    /\ poller[p].pc = "posting"
    /\ post[q].pc = "free"
    /\ post' = [post EXCEPT ![q] = [pc |-> "new", job |-> poller[p].body,
                                    code |-> poller[p].code]]
    /\ poller' = [poller EXCEPT ![p] = IdlePoller]
    /\ UNCHANGED <<host, rowVars, nextId, editor, call, ghostVars>>

(* The tick is over its 300 s, the service restarts, the host reboots, or  *)
(* the one attempt to post does not get through.                           *)
TickEnds(p) ==
    /\ poller[p] # IdlePoller
    /\ Abandon(poller[p].call)
    /\ poller' = [poller EXCEPT ![p] = IdlePoller]
    /\ UNCHANGED <<host, rowVars, nextId, editor, post, ghostVars>>

-------------------------------------------------------------------------------
EditorStep(e) == EnqueueCheck(e) \/ EnqueueFlush(e) \/ EnqueueCommit(e) \/ EnqueueAbort(e)
CallStep(c) == LeaseBegin(c) \/ LeaseRead(c) \/ LeaseCommit(c) \/ LeaseFail(c)
PostStep(q) == FinishRead(q) \/ FinishWrite(q) \/ FinishFail(q)
PollerStep(p) ==
    \/ AskElsewhere(p) \/ Receive(p) \/ ReceiveError(p)
    \/ GiveUp(p) \/ EndAsk(p) \/ RunJob(p) \/ TickEnds(p)
    \/ \E c \in Calls : Ask(p, c)
    \/ \E q \in Posts : PostResult(p, q)

Next ==
    \/ \E e \in Editors : EditorStep(e)
    \/ SetEnabled
    \/ DeleteHost
    \/ \E j \in Jobs : LeaseAges(j)
    \/ \E c \in Calls : CallStep(c)
    \/ \E q \in Posts : PostStep(q)
    \/ \E p \in Pollers : PollerStep(p)

Spec == Init /\ [][Next]_vars

-------------------------------------------------------------------------------
(* Fairness.  Time passes; a request the panel took up ends, and the       *)
(* database does not refuse every one of them; systemd restarts the loop   *)
(* (Restart=always) and its ticks reach the panel again and again.         *)
(* Editors, posted results and lost answers get none.                      *)
Fairness ==
    /\ \A j \in Jobs : WF_vars(LeaseAges(j))
    /\ \A c \in Calls : /\ WF_vars(CallStep(c))
                        /\ SF_vars(LeaseBegin(c))
                        /\ SF_vars(LeaseRead(c))
                        /\ SF_vars(LeaseCommit(c))
    /\ \A p \in Pollers : /\ WF_vars(PollerStep(p))
                          /\ SF_vars(\E c \in Calls : Ask(p, c))

FairSpec == Spec /\ Fairness

-------------------------------------------------------------------------------
(* No agent process executes a job twice, whatever answers are lost,       *)
(* repeated or late.  With one process per host name, which is what the    *)
(* flock in audit_agent.sh ensures, every job is executed at most once.    *)
AtMostOncePerPoller ==
    \A p \in Pollers, j \in Jobs : runs[p][j] <= 1

(* A job leaves the queue only after every job whose commit the insert of  *)
(* this job could see: an editor's second job never overtakes the first.   *)
HandedInOrder ==
    \A j \in handed : \A i \in ahead[j] : status[i] # "pending"

(* The count in enqueue_job is not locked, so the limit of waiting jobs    *)
(* can be passed: by one per editor that counted before another committed, *)
(* and by one per directive request that will lease a job it read as       *)
(* pending and that closed meanwhile.  Never by more.                      *)
Reopening == {j \in Jobs : /\ status[j] \in {"done", "failed", "expired"}
                           /\ \E c \in Calls : call[c].pc = "read" /\ call[c].job = j}
QueueBound ==
    Cardinality({j \in Jobs : status[j] \in {"pending", "leased"}})
        + Cardinality({e \in Editors : editor[e].pc # "idle"})
        + Cardinality(Reopening)
      <= QueueMax - 1 + Cardinality(Editors) + Cardinality(Calls) - 1

(* A job shown as done or failed was executed on the host, and the row     *)
(* says how it ended.                                                      *)
ResultIsFromRun ==
    \A j \in Jobs : status[j] \in {"done", "failed"} =>
        /\ code[j] # NoCode
        /\ \E p \in Pollers : runs[p][j] > 0

(* With one agent process, a stored exit code is never replaced: a late or *)
(* repeated result does not overwrite the one an editor may have read.     *)
ResultStable == [][\A j \in Jobs : code[j] # NoCode => code'[j] = code[j]]_vars

(* On a host that stays enabled every job ends up closed for good: done,   *)
(* failed or expired, although a late request may lease a closed job again. *)
Settles ==
    <>[](host = "enabled") => <>[](\A j \in Jobs : status[j] \notin {"pending", "leased"})

-------------------------------------------------------------------------------
(* The abstract queue this component implements. *)
StageOf(j) ==
    CASE j \in handed -> "handed"
      [] j \notin handed /\ status[j] # "absent" -> "queued"
      [] j \notin handed /\ status[j] = "absent" ->
           IF \E e \in Editors : editor[e].pc = "flushed" /\ editor[e].job = j
             THEN "drafted" ELSE "none"

Dispatch == INSTANCE JobDispatch WITH
    Agents <- Pollers,
    stage <- [j \in Jobs |-> StageOf(j)],
    withdrawn <- (host = "deleted")

(* Every behaviour of the queue is one of JobDispatch: in order, only to   *)
(* those who were handed the job, at most once per process, and nothing    *)
(* more once the host is deleted.                                          *)
ImplementsDispatch == Dispatch!Spec

-------------------------------------------------------------------------------
(* The inductive invariant behind AtMostOncePerPoller, HandedInOrder,      *)
(* ResultIsFromRun and ImplementsDispatch.                                 *)

(* Identities from nextId on are unused; an inserted row is not committed, *)
(* belongs to one editor, and keeps the host row from being deleted.       *)
IdInv ==
    /\ \A j \in Jobs : j >= nextId => status[j] = "absent"
    /\ \A e \in Editors : editor[e].pc = "flushed" =>
          /\ editor[e].job \in Jobs
          /\ editor[e].job < nextId
          /\ status[editor[e].job] = "absent"
          /\ host # "deleted"
    /\ \A e, f \in Editors :
          editor[e].pc = "flushed" /\ editor[f].pc = "flushed"
            /\ editor[e].job = editor[f].job => e = f
    /\ \A j \in Jobs : \A i \in ahead[j] : i < j /\ status[i] # "absent"

(* The rows are gone exactly when the host is. *)
GoneInv ==
    /\ host = "deleted" => \A j \in Jobs : status[j] \in {"absent", "gone"}
    /\ host # "deleted" => \A j \in Jobs : status[j] # "gone"
    /\ \A c \in Calls : call[c].hold # {} => host # "deleted"

(* A job has left the queue exactly when its status says so, and a request *)
(* that took it there can only hand out what has left the queue.           *)
HandedInv ==
    /\ \A j \in Jobs : status[j] \in {"absent", "pending"} => j \notin handed
    /\ \A j \in Jobs : status[j] \in {"leased", "done", "failed", "expired"} => j \in handed
    /\ \A c \in Calls : call[c].hold \subseteq handed
    /\ \A c \in Calls : call[c].pc = "ok" /\ call[c].job # NoJob => call[c].job \in handed
    /\ \A p \in Pollers : poller[p].body # NoJob => poller[p].body \in handed
    /\ \A q \in Posts : post[q].pc # "free" => post[q].job \in handed

(* A request that chose a job saw no older one pending, and none became    *)
(* pending since.                                                          *)
OrderInv ==
    /\ \A c \in Calls : call[c].pc = "read" /\ call[c].job # NoJob =>
          /\ status[call[c].job] # "absent"
          /\ \A i \in ahead[call[c].job] : status[i] # "pending"
    /\ HandedInOrder

(* The answer an agent process waits for, and the job in its body file,    *)
(* are jobs it has not run.                                                *)
RunInv ==
    /\ AtMostOncePerPoller
    /\ \A p \in Pollers, j \in Jobs : runs[p][j] > 0 => j \in handed
    /\ \A p \in Pollers : poller[p].pc \in {"ready", "posting"} =>
          poller[p].body # NoJob /\ poller[p].call = NoCall
    /\ \A p \in Pollers : poller[p].pc # "posting" /\ poller[p].body # NoJob =>
          runs[p][poller[p].body] = 0
    /\ \A p \in Pollers, c \in Calls :
          poller[p].call = c /\ call[c].pc \in {"read", "ok"} /\ call[c].job # NoJob =>
            runs[p][call[c].job] = 0

(* A result on its way belongs to a job that was run. *)
ResultInv ==
    /\ \A p \in Pollers : poller[p].pc = "posting" => runs[p][poller[p].body] > 0
    /\ \A q \in Posts : post[q].pc # "free" => \E p \in Pollers : runs[p][post[q].job] > 0
    /\ ResultIsFromRun

IInv == IdInv /\ GoneInv /\ HandedInv /\ OrderInv /\ RunInv /\ ResultInv
================================================================================
