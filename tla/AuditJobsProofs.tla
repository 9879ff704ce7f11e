---------------------------- MODULE AuditJobsProofs ----------------------------
(***************************************************************************)
(* Proofs about AuditJobs, for any number of editors, agent processes,     *)
(* requests, addresses and jobs.                                           *)
(***************************************************************************)
EXTENDS AuditJobs, CommonLemmas

-------------------------------------------------------------------------------
(* Oldest is well defined: a set of rows has an oldest one. *)
LEMMA OldestIsLeast ==
    ASSUME NEW S \in SUBSET Jobs, S # {}
    PROVE  Oldest(S) \in S /\ \A i \in S : Oldest(S) <= i
BY LeastMember, BoundAssumption DEF Oldest, Jobs

-------------------------------------------------------------------------------
(* Every request, row and tick keeps its shape.                            *)

LEMMA AnswerType ==
    ASSUME TypeOK, NEW c \in Calls, NEW pc \in {"ok", "error"},
           NEW job \in Jobs \cup {NoJob}, Answer(c, pc, job)
    PROVE  call' \in [Calls -> Call]
BY DEF TypeOK, Answer, CallAt, Call

LEMMA AbandonType ==
    ASSUME TypeOK, NEW c, Abandon(c)
    PROVE  call' \in [Calls -> Call]
BY DEF TypeOK, Abandon, CallAt, Call

LEMMA EditorStepType ==
    ASSUME TypeOK, NEW e \in Editors, EditorStep(e)
    PROVE  TypeOK'
<1> USE BoundAssumption DEF TypeOK, rowVars, ghostVars
<1>1. CASE EnqueueCheck(e)
  BY <1>1 DEF EnqueueCheck, Editor
<1>2. CASE EnqueueFlush(e)
  <2>1. nextId \in Jobs /\ nextId' \in 1..(MaxJobs + 1)
    BY <1>2 DEF EnqueueFlush, Jobs
  <2>2. editor' \in [Editors -> Editor]
    BY <1>2, <2>1 DEF EnqueueFlush, Editor
  <2>3. ahead' \in [Jobs -> SUBSET Jobs]
    BY <1>2, <2>1 DEF EnqueueFlush, Committed
  <2> QED
    BY <1>2, <2>1, <2>2, <2>3 DEF EnqueueFlush
<1>3. CASE EnqueueCommit(e)
  BY <1>3 DEF EnqueueCommit, IdleEditor, Editor, Status
<1>4. CASE EnqueueAbort(e)
  BY <1>4 DEF EnqueueAbort, IdleEditor, Editor
<1> QED
  BY <1>1, <1>2, <1>3, <1>4 DEF EditorStep

LEMMA HostStepType ==
    ASSUME TypeOK, SetEnabled \/ DeleteHost \/ \E j \in Jobs : LeaseAges(j)
    PROVE  TypeOK'
<1> USE DEF TypeOK, rowVars, ghostVars
<1>1. CASE SetEnabled
  BY <1>1 DEF SetEnabled
<1>2. CASE DeleteHost
  BY <1>2 DEF DeleteHost, Status
<1>3. CASE \E j \in Jobs : LeaseAges(j)
  BY <1>3 DEF LeaseAges
<1> QED
  BY <1>1, <1>2, <1>3

LEMMA CallStepType ==
    ASSUME TypeOK, NEW c \in Calls, CallStep(c)
    PROVE  TypeOK'
<1>1. CASE LeaseBegin(c)
  <2>1. call' \in [Calls -> Call]
    <3>1. CASE host = "enabled"
      BY <1>1, <3>1 DEF LeaseBegin, TypeOK, CallAt, Call
    <3>2. CASE host # "enabled"
      BY <1>1, <3>2, AnswerType DEF LeaseBegin
    <3> QED
      BY <3>1, <3>2
  <2> QED
    BY <1>1, <2>1 DEF LeaseBegin, TypeOK, rowVars, ghostVars
<1>2. CASE LeaseRead(c)
  <2> DEFINE old == {j \in call[c].cut \cap aged : status[j] = "leased"}
             next == IF Pending = {} THEN NoJob ELSE Oldest(Pending)
  <2>1. next \in Jobs \cup {NoJob}
    BY OldestIsLeast DEF Pending
  <2>2. old \in SUBSET Jobs
    BY DEF TypeOK, Call
  <2>3. call' \in [Calls -> Call]
    <3>1. CASE old = {} /\ next = NoJob
      BY <1>2, <3>1, AnswerType DEF LeaseRead
    <3>2. CASE ~(old = {} /\ next = NoJob)
      <4>1. call' = [call EXCEPT ![c] = [pc |-> "read", cut |-> {},
                                         hold |-> old, job |-> next]]
        BY <1>2, <3>2 DEF LeaseRead
      <4> HIDE DEF old, next
      <4> QED
        BY <4>1, <2>1, <2>2 DEF TypeOK, Call
    <3> QED
      BY <3>1, <3>2
  <2> QED
    BY <1>2, <2>3 DEF LeaseRead, TypeOK, rowVars, ghostVars
<1>3. CASE LeaseCommit(c)
  <2>1. call[c].job \in Jobs \cup {NoJob} /\ call[c].hold \in SUBSET Jobs
    BY DEF TypeOK, Call
  <2>2. call' \in [Calls -> Call]
    BY <1>3, <2>1, AnswerType DEF LeaseCommit
  <2>3. status' \in [Jobs -> Status]
    BY <1>3 DEF LeaseCommit, LeasedRows, Status, TypeOK
  <2> QED
    BY <1>3, <2>1, <2>2, <2>3 DEF LeaseCommit, TypeOK, rowVars, ghostVars
<1>4. CASE LeaseFail(c)
  <2>1. call' \in [Calls -> Call]
    BY <1>4, AnswerType DEF LeaseFail
  <2> QED
    BY <1>4, <2>1 DEF LeaseFail, TypeOK, rowVars, ghostVars
<1> QED
  BY <1>1, <1>2, <1>3, <1>4 DEF CallStep

LEMMA PostStepType ==
    ASSUME TypeOK, NEW q \in Posts, PostStep(q)
    PROVE  TypeOK'
<1> USE DEF TypeOK, rowVars, ghostVars
<1>1. CASE FinishRead(q)
  BY <1>1 DEF FinishRead, FreePost, Post, ExitCodes
<1>2. CASE FinishWrite(q)
  BY <1>2 DEF FinishWrite, FinishStatus, FreePost, Post, Status, ExitCodes
<1>3. CASE FinishFail(q)
  BY <1>3 DEF FinishFail, FreePost, Post, ExitCodes
<1> QED
  BY <1>1, <1>2, <1>3 DEF PostStep

(* The records the actions of a tick build are ticks again. *)
LEMMA IdleIsPoller == IdlePoller \in Poller
BY BoundAssumption DEF IdlePoller, Poller, ExitCodes

LEMMA TriesUpdate ==
    ASSUME NEW r \in Poller, r.tries < Paths
    PROVE  r.tries + 1 \in 0..Paths
BY BoundAssumption DEF Poller

LEMMA PollerUpdate ==
    ASSUME TypeOK, NEW p \in Pollers, NEW r \in Poller, poller' = [poller EXCEPT ![p] = r]
    PROVE  poller' \in [Pollers -> Poller]
BY DEF TypeOK

LEMMA AfterAskType ==
    ASSUME TypeOK, NEW p \in Pollers, NEW body \in Jobs \cup {NoJob}, AfterAsk(p, body)
    PROVE  poller' \in [Pollers -> Poller]
<1>1. [IdlePoller EXCEPT !.pc = "ready", !.body = body] \in Poller
  BY IdleIsPoller DEF Poller
<1> QED
  BY <1>1, IdleIsPoller, PollerUpdate DEF AfterAsk

LEMMA PollerStepType ==
    ASSUME TypeOK, NEW p \in Pollers, PollerStep(p)
    PROVE  TypeOK'
<1>a. poller[p] \in Poller
  BY DEF TypeOK
<1>1. CASE AskElsewhere(p)
  <2>1. PICK body \in {poller[p].body, NoJob} :
          poller' = [poller EXCEPT ![p] =
                       [poller[p] EXCEPT !.tries = poller[p].tries + 1, !.body = body]]
    BY <1>1, <1>a DEF AskElsewhere, TypeOK
  <2>2. body \in Jobs \cup {NoJob} /\ poller[p].tries + 1 \in 0..Paths
    BY <1>1, <1>a, TriesUpdate DEF AskElsewhere, Poller
  <2>3. [poller[p] EXCEPT !.tries = poller[p].tries + 1, !.body = body] \in Poller
    BY <1>a, <2>2 DEF Poller
  <2>4. poller' \in [Pollers -> Poller]
    BY <2>1, <2>3, PollerUpdate
  <2> QED
    BY <1>1, <2>4 DEF AskElsewhere, TypeOK, rowVars, ghostVars
<1>2. CASE Receive(p)
  <2> DEFINE c == poller[p].call
  <2>1. c \in Calls
    BY <1>2, <1>a DEF Receive, Poller
  <2>2. call' \in [Calls -> Call] /\ call[c].job \in Jobs \cup {NoJob}
    BY <1>2, <2>1 DEF Receive, CallAt, Call, TypeOK
  <2>3. [poller[p] EXCEPT !.call = NoCall, !.heard = TRUE, !.body = call[c].job] \in Poller
    BY <1>a, <2>2 DEF Poller
  <2>4. poller' \in [Pollers -> Poller]
    <3>1. CASE AfterAsk(p, call[c].job)
      BY <2>2, <3>1, AfterAskType
    <3>2. CASE poller' = [poller EXCEPT ![p] =
                 [@ EXCEPT !.call = NoCall, !.heard = TRUE, !.body = call[c].job]]
      BY <2>3, <3>2, PollerUpdate DEF TypeOK
    <3> QED
      BY <1>2, <3>1, <3>2 DEF Receive
  <2> QED
    BY <1>2, <2>2, <2>4 DEF Receive, TypeOK, rowVars, ghostVars
<1>3. CASE ReceiveError(p)
  <2>1. [poller[p] EXCEPT !.call = NoCall, !.body = NoJob] \in Poller
    BY <1>a DEF Poller
  <2>2. poller' \in [Pollers -> Poller]
    BY <1>3, <2>1, PollerUpdate DEF ReceiveError, TypeOK
  <2>3. call' \in [Calls -> Call]
    BY <1>3 DEF ReceiveError, CallAt, Call, TypeOK
  <2> QED
    BY <1>3, <2>2, <2>3 DEF ReceiveError, TypeOK, rowVars, ghostVars
<1>4. CASE GiveUp(p)
  <2>1. PICK body \in {poller[p].body, NoJob} :
          poller' = [poller EXCEPT ![p] =
                       [poller[p] EXCEPT !.call = NoCall, !.body = body]]
    BY <1>4, <1>a DEF GiveUp, TypeOK
  <2>2. body \in Jobs \cup {NoJob}
    BY <1>a DEF Poller
  <2>3. [poller[p] EXCEPT !.call = NoCall, !.body = body] \in Poller
    BY <1>a, <2>2 DEF Poller
  <2>4. poller' \in [Pollers -> Poller]
    BY <2>1, <2>3, PollerUpdate
  <2> QED
    BY <1>4, <2>4, AbandonType DEF GiveUp, TypeOK, rowVars, ghostVars
<1>5. CASE EndAsk(p)
  <2>1. (IF poller[p].heard THEN poller[p].body ELSE NoJob) \in Jobs \cup {NoJob}
    BY <1>a DEF Poller
  <2>2. poller' \in [Pollers -> Poller]
    BY <1>5, <2>1, AfterAskType DEF EndAsk
  <2> QED
    BY <1>5, <2>2 DEF EndAsk, TypeOK, rowVars, ghostVars
<1>6. CASE RunJob(p)
  <2>1. PICK exit \in ExitCodes :
          poller' = [poller EXCEPT ![p] =
            [IdlePoller EXCEPT !.pc = "posting", !.body = poller[p].body, !.code = exit]]
    BY <1>6 DEF RunJob
  <2>2. [IdlePoller EXCEPT !.pc = "posting", !.body = poller[p].body, !.code = exit] \in Poller
    BY <1>a, IdleIsPoller DEF Poller
  <2>3. poller' \in [Pollers -> Poller]
    BY <2>1, <2>2, PollerUpdate
  <2>4. runs[p] \in [Jobs -> Nat]
    BY DEF TypeOK
  <2>5. [runs[p] EXCEPT ![poller[p].body] = runs[p][poller[p].body] + 1] \in [Jobs -> Nat]
    <3>1. CASE poller[p].body \in Jobs
      BY <2>4, <3>1
    <3>2. CASE poller[p].body \notin Jobs
      BY <2>4, <3>2
    <3> QED
      BY <3>1, <3>2
  <2>6. runs' = [runs EXCEPT ![p] = [runs[p] EXCEPT ![poller[p].body] = runs[p][poller[p].body] + 1]]
    BY <1>6 DEF RunJob, TypeOK
  <2>7. runs' \in [Pollers -> [Jobs -> Nat]]
    BY <2>5, <2>6 DEF TypeOK
  <2> QED
    BY <1>6, <2>3, <2>7 DEF RunJob, TypeOK, rowVars, ghostVars
<1>7. CASE TickEnds(p)
  <2>1. poller' \in [Pollers -> Poller]
    BY <1>7, IdleIsPoller, PollerUpdate DEF TickEnds
  <2> QED
    BY <1>7, <2>1, AbandonType DEF TickEnds, TypeOK, rowVars, ghostVars
<1>8. ASSUME NEW c \in Calls, Ask(p, c)
      PROVE  TypeOK'
  <2>1. call' \in [Calls -> Call]
    BY <1>8 DEF Ask, CallAt, Call, TypeOK
  <2>2. poller[p].tries + 1 \in 0..Paths
    BY <1>8, <1>a, TriesUpdate DEF Ask
  <2>3. [poller[p] EXCEPT !.call = c, !.tries = poller[p].tries + 1] \in Poller
    BY <1>a, <2>2 DEF Poller
  <2>4. poller' \in [Pollers -> Poller]
    BY <1>8, <2>3, PollerUpdate DEF Ask, TypeOK
  <2> QED
    BY <1>8, <2>1, <2>4 DEF Ask, TypeOK, rowVars, ghostVars
<1>9. ASSUME NEW q \in Posts, PostResult(p, q)
      PROVE  TypeOK'
  <2>1. post' \in [Posts -> Post]
    BY <1>9, <1>a DEF PostResult, Post, Poller, TypeOK
  <2>2. poller' \in [Pollers -> Poller]
    BY <1>9, IdleIsPoller, PollerUpdate DEF PostResult
  <2> QED
    BY <1>9, <2>1, <2>2 DEF PostResult, TypeOK, rowVars, ghostVars
<1> QED
  BY <1>1, <1>2, <1>3, <1>4, <1>5, <1>6, <1>7, <1>8, <1>9 DEF PollerStep

LEMMA InitType == Init => TypeOK
BY BoundAssumption DEF Init, TypeOK, Jobs, Status, IdleEditor, Editor, CallAt, Call,
   FreePost, Post, IdlePoller, Poller, ExitCodes, NoCode

LEMMA NextType == TypeOK /\ [Next]_vars => TypeOK'
<1> SUFFICES ASSUME TypeOK, [Next]_vars
             PROVE  TypeOK'
  OBVIOUS
<1>1. CASE Next
  BY <1>1, EditorStepType, HostStepType, CallStepType, PostStepType, PollerStepType
     DEF Next
<1>2. CASE UNCHANGED vars
  BY <1>2 DEF vars, TypeOK
<1> QED
  BY <1>1, <1>2

(* Type correctness: every reachable state of the queue has the shape      *)
(* TypeOK gives it, for every value of the constants.                      *)
THEOREM TypeCorrect == Spec => []TypeOK
<1>1. Init => TypeOK
  BY InitType
<1>2. TypeOK /\ [Next]_vars => TypeOK'
  BY NextType
<1> QED
  BY <1>1, <1>2, PTL DEF Spec

-------------------------------------------------------------------------------
(***************************************************************************)
(* The inductive invariant of AuditJobs and the safety properties it gives *)
(* for every value of the constants.                                       *)
(*                                                                         *)
(* The argument looks at a step from the side of one row, one directive    *)
(* request and one agent process: the definitions below say how each of    *)
(* them can move, the first lemmas show that no step moves it otherwise,   *)
(* and the conjuncts of IInv follow from the moves.                        *)
(***************************************************************************)

-------------------------------------------------------------------------------
(* A row: inserted by its editor's commit, or updated by a lease or a      *)
(* result, which only touch rows that left the queue for good.             *)
RowInserted(j) ==
    \E e \in Editors : EnqueueCommit(e) /\ editor[e].job = j /\ status'[j] = "pending"
RowUpdated(j) ==
    /\ status[j] \notin {"absent", "gone"}
    /\ status'[j] \in {"leased", "done", "failed", "expired"}
    /\ j \in handed'
RowMove(j) ==
    \/ status'[j] = status[j]
    \/ RowInserted(j)
    \/ RowUpdated(j)
    \/ DeleteHost

(* A directive request: it lets go of everything, chooses a job, or leases *)
(* the job it chose.                                                       *)
CallCleared(c) == call'[c].hold = {} /\ call'[c].job = NoJob
CallChose(c) ==
    /\ UNCHANGED <<host, status, ahead, handed, runs, poller>>
    /\ call[c].pc = "begun" /\ call'[c].pc = "read"
    /\ \A j \in call'[c].hold : j \in Jobs /\ status[j] = "leased"
    /\ call'[c].job # NoJob => Pending # {} /\ call'[c].job = Oldest(Pending)
CallLeased(c) ==
    /\ UNCHANGED <<runs, poller>>
    /\ call[c].pc = "read" /\ call'[c].pc = "ok"
    /\ call'[c].hold = {}
    /\ call'[c].job = call[c].job
    /\ call[c].job # NoJob => call[c].job \in handed'
CallMove(c) ==
    \/ call'[c] = call[c]
    \/ CallCleared(c)
    \/ CallChose(c)
    \/ CallLeased(c)

(* An agent process that does not run a job keeps the body file, empties   *)
(* it, or takes over the answer it waited for.                             *)
Answered(p, job) ==
    /\ poller[p].call \in Calls
    /\ call[poller[p].call].pc = "ok"
    /\ call[poller[p].call].job = job
PollerTurns(p) ==
    /\ UNCHANGED runs
    /\ poller'[p].pc \in {"asking", "ready"}
    /\ poller'[p].pc = "ready" => poller'[p].body # NoJob /\ poller'[p].call = NoCall
    /\ \/ poller'[p].body = NoJob
       \/ poller[p].pc = "asking" /\ poller'[p].body = poller[p].body
       \/ Answered(p, poller'[p].body)
    /\ poller'[p].call # NoCall => call'[poller'[p].call].pc = "new"
PollerMove(p) ==
    \/ poller'[p] = poller[p] /\ UNCHANGED runs
    \/ poller'[p] = poller[p] /\ \E q \in Pollers \ {p} : RunJob(q)
    \/ PollerTurns(p)
    \/ RunJob(p)

-------------------------------------------------------------------------------
(* What Answer and Abandon do to the requests. *)
LEMMA AnswerMoves ==
    ASSUME TypeOK, NEW c \in Calls, NEW pc \in {"ok", "error"},
           NEW job \in Jobs \cup {NoJob}, Answer(c, pc, job), NEW d \in Calls
    PROVE  /\ d # c => call'[d] = call[d]
           /\ CallCleared(c) \/ (call'[c].pc = pc /\ call'[c].hold = {} /\ call'[c].job = job)
BY DEF TypeOK, Answer, CallAt, Call, CallCleared

LEMMA AbandonMoves ==
    ASSUME TypeOK, NEW c, Abandon(c), NEW d \in Calls
    PROVE  call'[d] = call[d] \/ CallCleared(d)
BY DEF TypeOK, Abandon, CallAt, Call, CallCleared

LEMMA CallStepMoves ==
    ASSUME TypeOK, NEW c \in Calls, CallStep(c), NEW d \in Calls
    PROVE  CallMove(d)
<1>1. CASE LeaseBegin(c)
  <2>1. CASE host = "enabled"
    <3>1. call' = [call EXCEPT ![c] = [pc |-> "begun", cut |-> aged, hold |-> {}, job |-> NoJob]]
      BY <1>1, <2>1 DEF LeaseBegin, CallAt
    <3> QED
      BY <3>1 DEF TypeOK, CallMove, CallCleared
  <2>2. CASE host # "enabled"
    BY <1>1, <2>2, AnswerMoves DEF LeaseBegin, CallMove, CallCleared
  <2> QED
    BY <2>1, <2>2
<1>2. CASE LeaseRead(c)
  <2> DEFINE old == {j \in call[c].cut \cap aged : status[j] = "leased"}
             next == IF Pending = {} THEN NoJob ELSE Oldest(Pending)
  <2>1. CASE old = {} /\ next = NoJob
    BY <1>2, <2>1, AnswerMoves DEF LeaseRead, CallMove, CallCleared
  <2>2. CASE ~(old = {} /\ next = NoJob)
    <3>1. call' = [call EXCEPT ![c] = [pc |-> "read", cut |-> {},
                                       hold |-> old, job |-> next]]
      BY <1>2, <2>2 DEF LeaseRead
    <3>2. \A j \in old : j \in Jobs /\ status[j] = "leased"
      BY DEF TypeOK, Call
    <3>3. next # NoJob => Pending # {} /\ next = Oldest(Pending)
      OBVIOUS
    <3>4. call[c].pc = "begun" /\ UNCHANGED <<host, status, ahead, handed, runs, poller>>
      BY <1>2 DEF LeaseRead, rowVars, ghostVars
    <3> HIDE DEF old, next
    <3>5. CASE d = c
      <4>1. /\ call'[d].pc = "read"
            /\ call'[d].hold = old
            /\ call'[d].job = next
        BY <3>1, <3>5 DEF TypeOK
      <4> QED
        BY <4>1, <3>2, <3>3, <3>4, <3>5 DEF CallMove, CallChose
    <3>6. CASE d # c
      BY <3>1, <3>6 DEF TypeOK, CallMove
    <3> QED
      BY <3>5, <3>6
  <2> QED
    BY <2>1, <2>2
<1>3. CASE LeaseCommit(c)
  <2>1. call[c].job \in Jobs \cup {NoJob}
    BY DEF TypeOK, Call
  <2>2. CASE d = c
    BY <1>3, <2>1, <2>2, AnswerMoves DEF LeaseCommit, CallMove, CallLeased
  <2>3. CASE d # c
    BY <1>3, <2>1, <2>3, AnswerMoves DEF LeaseCommit, CallMove
  <2> QED
    BY <2>2, <2>3
<1>4. CASE LeaseFail(c)
  BY <1>4, AnswerMoves DEF LeaseFail, CallMove, CallCleared
<1> QED
  BY <1>1, <1>2, <1>3, <1>4 DEF CallStep

LEMMA PollerStepCalls ==
    ASSUME TypeOK, NEW p \in Pollers, PollerStep(p), NEW d \in Calls
    PROVE  call'[d] = call[d] \/ CallCleared(d)
<1>1. CASE Receive(p) \/ ReceiveError(p)
  BY <1>1 DEF Receive, ReceiveError, TypeOK, CallAt, CallCleared
<1>2. CASE GiveUp(p) \/ TickEnds(p)
  BY <1>2, AbandonMoves DEF GiveUp, TickEnds
<1>3. CASE \E c \in Calls : Ask(p, c)
  BY <1>3 DEF Ask, TypeOK, CallAt, CallCleared
<1> QED
  BY <1>1, <1>2, <1>3 DEF PollerStep, AskElsewhere, EndAsk, RunJob, PostResult

LEMMA CallMoves ==
    ASSUME TypeOK, Next, NEW d \in Calls
    PROVE  CallMove(d)
<1>1. ASSUME NEW c \in Calls, CallStep(c)
      PROVE  CallMove(d)
  BY <1>1, CallStepMoves
<1>2. ASSUME NEW p \in Pollers, PollerStep(p)
      PROVE  CallMove(d)
  BY <1>2, PollerStepCalls DEF CallMove
<1>3. ASSUME NEW e \in Editors, EditorStep(e)
      PROVE  UNCHANGED call
  BY <1>3 DEF EditorStep, EnqueueCheck, EnqueueFlush, EnqueueCommit, EnqueueAbort
<1>4. ASSUME SetEnabled \/ DeleteHost \/ \E j \in Jobs : LeaseAges(j)
      PROVE  UNCHANGED call
  BY <1>4 DEF SetEnabled, DeleteHost, LeaseAges
<1>5. ASSUME NEW q \in Posts, PostStep(q)
      PROVE  UNCHANGED call
  BY <1>5 DEF PostStep, FinishRead, FinishWrite, FinishFail
<1> QED
  BY <1>1, <1>2, <1>3, <1>4, <1>5 DEF Next, CallMove

(* Which steps touch what the rows are about. *)
LEMMA QuietSteps ==
    ASSUME Next
    PROVE  \/ UNCHANGED <<host, status, nextId, editor, ahead, handed>>
           \/ \E e \in Editors : EditorStep(e)
           \/ SetEnabled
           \/ DeleteHost
           \/ \E c \in Calls : LeaseCommit(c)
           \/ \E q \in Posts : FinishWrite(q)
<1>1. ASSUME NEW p \in Pollers, PollerStep(p)
      PROVE  UNCHANGED <<host, status, nextId, editor, ahead, handed>>
  BY <1>1 DEF PollerStep, AskElsewhere, Receive, ReceiveError, GiveUp, EndAsk, RunJob,
       TickEnds, Ask, PostResult, rowVars, ghostVars
<1>2. ASSUME NEW c \in Calls, LeaseBegin(c) \/ LeaseRead(c) \/ LeaseFail(c)
      PROVE  UNCHANGED <<host, status, nextId, editor, ahead, handed>>
  BY <1>2 DEF LeaseBegin, LeaseRead, LeaseFail, rowVars, ghostVars
<1>3. ASSUME NEW q \in Posts, FinishRead(q) \/ FinishFail(q)
      PROVE  UNCHANGED <<host, status, nextId, editor, ahead, handed>>
  BY <1>3 DEF FinishRead, FinishFail, rowVars, ghostVars
<1>4. ASSUME NEW j \in Jobs, LeaseAges(j)
      PROVE  UNCHANGED <<host, status, nextId, editor, ahead, handed>>
  BY <1>4 DEF LeaseAges, ghostVars
<1> QED
  BY <1>1, <1>2, <1>3, <1>4 DEF Next, CallStep, PostStep

LEMMA NoJobNotJob == NoJob \notin Jobs
BY BoundAssumption DEF NoJob, Jobs

LEMMA LeaseCommitRows ==
    ASSUME TypeOK, IInv, NEW c \in Calls, LeaseCommit(c), NEW j \in Jobs
    PROVE  status'[j] = status[j] \/ RowUpdated(j)
<1>1. /\ status'[j] = LeasedRows(call[c].hold, call[c].job)[j]
      /\ handed' = handed \cup ({call[c].job} \ {NoJob})
      /\ call[c].pc = "read"
  BY DEF LeaseCommit
<1>2. CASE j = call[c].job
  <2>1. call[c].job # NoJob
    BY <1>2, NoJobNotJob
  <2>2. status[j] \notin {"absent", "gone"}
    BY <1>1, <1>2, <2>1 DEF LeaseCommit, IInv, OrderInv
  <2> QED
    BY <1>1, <1>2, <2>1, <2>2 DEF RowUpdated, LeasedRows
<1>3. CASE j # call[c].job /\ j \in call[c].hold
  <2>1. j \in handed /\ host # "deleted"
    BY <1>3 DEF IInv, HandedInv, GoneInv
  <2>2. status[j] \notin {"absent", "gone"}
    BY <2>1 DEF IInv, HandedInv, GoneInv
  <2> QED
    BY <1>1, <1>3, <2>1, <2>2 DEF RowUpdated, LeasedRows
<1>4. CASE j # call[c].job /\ j \notin call[c].hold
  BY <1>1, <1>4 DEF LeasedRows
<1> QED
  BY <1>2, <1>3, <1>4

LEMMA FinishWriteRows ==
    ASSUME TypeOK, IInv, NEW q \in Posts, FinishWrite(q), NEW j \in Jobs
    PROVE  status'[j] = status[j] \/ RowUpdated(j)
<1>1. CASE j = post[q].job
  <2>1. j \in handed /\ status[j] # "absent" /\ status[j] # "gone"
    BY <1>1 DEF FinishWrite, IInv, HandedInv
  <2>2. status'[j] \in {"done", "failed"}
    BY <1>1 DEF FinishWrite, FinishStatus, TypeOK
  <2>3. handed' = handed
    BY DEF FinishWrite, ghostVars
  <2> QED
    BY <2>1, <2>2, <2>3 DEF RowUpdated
<1>2. CASE j # post[q].job
  BY <1>2 DEF FinishWrite, TypeOK
<1> QED
  BY <1>1, <1>2

LEMMA RowMoves ==
    ASSUME TypeOK, IInv, Next, NEW j \in Jobs
    PROVE  RowMove(j)
<1>1. ASSUME NEW e \in Editors, EditorStep(e)
      PROVE  status'[j] = status[j] \/ RowInserted(j)
  <2>1. CASE EnqueueCommit(e)
    BY <2>1 DEF EnqueueCommit, TypeOK, RowInserted
  <2>2. CASE ~EnqueueCommit(e)
    BY <1>1, <2>2 DEF EditorStep, EnqueueCheck, EnqueueFlush, EnqueueAbort, rowVars
  <2> QED
    BY <2>1, <2>2
<1>2. CASE SetEnabled
  BY <1>2 DEF SetEnabled, rowVars, RowMove
<1> QED
  BY <1>1, <1>2, QuietSteps, LeaseCommitRows, FinishWriteRows DEF RowMove

(* What was handed out stays so, and only a lease hands out a job. *)
LEMMA HandedMoves ==
    ASSUME Next
    PROVE  \/ UNCHANGED handed
           \/ \E c \in Calls : LeaseCommit(c) /\ handed' = handed \cup ({call[c].job} \ {NoJob})
BY QuietSteps DEF EditorStep, EnqueueCheck, EnqueueFlush, EnqueueCommit, EnqueueAbort,
   SetEnabled, DeleteHost, LeaseCommit, FinishWrite, ghostVars

(* The runs change by the action RunJob alone. *)
LEMMA RunsFrame ==
    ASSUME Next
    PROVE  UNCHANGED runs \/ \E p \in Pollers : RunJob(p)
<1>1. ASSUME NEW c \in Calls, CallStep(c)
      PROVE  UNCHANGED runs
  BY <1>1 DEF CallStep, LeaseBegin, LeaseRead, LeaseCommit, LeaseFail, ghostVars
<1>2. ASSUME NEW p \in Pollers, PollerStep(p)
      PROVE  UNCHANGED runs \/ RunJob(p)
  BY <1>2 DEF PollerStep, AskElsewhere, Receive, ReceiveError, GiveUp, EndAsk,
       TickEnds, Ask, PostResult, ghostVars
<1>3. ASSUME NEW e \in Editors, EditorStep(e)
      PROVE  UNCHANGED runs
  BY <1>3 DEF EditorStep, EnqueueCheck, EnqueueFlush, EnqueueCommit, EnqueueAbort, ghostVars
<1>4. ASSUME SetEnabled \/ DeleteHost \/ \E j \in Jobs : LeaseAges(j)
      PROVE  UNCHANGED runs
  BY <1>4 DEF SetEnabled, DeleteHost, LeaseAges, ghostVars
<1>5. ASSUME NEW q \in Posts, PostStep(q)
      PROVE  UNCHANGED runs
  BY <1>5 DEF PostStep, FinishRead, FinishWrite, FinishFail, ghostVars
<1> QED
  BY <1>1, <1>2, <1>3, <1>4, <1>5 DEF Next

-------------------------------------------------------------------------------
(* How an agent process moves. *)
LEMMA IdleTurn ==
    ASSUME TypeOK, NEW p \in Pollers, poller'[p] = IdlePoller, UNCHANGED runs
    PROVE  PollerTurns(p)
BY DEF PollerTurns, IdlePoller

LEMMA AfterAskTurn ==
    ASSUME TypeOK, NEW p \in Pollers, NEW body \in Jobs \cup {NoJob}, AfterAsk(p, body),
           UNCHANGED runs,
           body = NoJob \/ (poller[p].pc = "asking" /\ poller[p].body = body) \/ Answered(p, body)
    PROVE  PollerTurns(p)
<1>1. CASE body = NoJob
  BY <1>1, IdleTurn DEF AfterAsk, TypeOK
<1>2. CASE body # NoJob
  <2>1. poller'[p] = [pc |-> "ready", tries |-> 0, call |-> NoCall, body |-> body,
                      heard |-> FALSE, code |-> 0]
    BY <1>2 DEF AfterAsk, TypeOK, IdlePoller
  <2> QED
    BY <2>1, <1>2 DEF PollerTurns, Answered
<1> QED
  BY <1>1, <1>2

LEMMA PollerStepTurns ==
    ASSUME TypeOK, NEW p \in Pollers, PollerStep(p)
    PROVE  PollerTurns(p) \/ RunJob(p)
<1>a. poller[p] \in Poller
  BY DEF TypeOK
<1>1. CASE AskElsewhere(p)
  <2>1. PICK body \in {poller[p].body, NoJob} :
          poller'[p] = [[poller[p] EXCEPT !.tries = poller[p].tries + 1] EXCEPT !.body = body]
    BY <1>1 DEF AskElsewhere, TypeOK
  <2>2. /\ poller'[p].pc = "asking"
        /\ poller'[p].body = body
        /\ poller'[p].call = NoCall
    BY <1>1, <2>1, <1>a DEF AskElsewhere, Poller
  <2> QED
    BY <1>1, <2>2 DEF AskElsewhere, PollerTurns, ghostVars
<1>2. CASE Receive(p)
  <2> DEFINE job == call[poller[p].call].job
  <2>1. Answered(p, job) /\ job \in Jobs \cup {NoJob} /\ UNCHANGED runs
    BY <1>2, <1>a DEF Receive, Answered, Poller, TypeOK, Call, ghostVars
  <2>2. CASE AfterAsk(p, job)
    BY <2>1, <2>2, AfterAskTurn
  <2>3. CASE poller' = [poller EXCEPT ![p] =
               [@ EXCEPT !.call = NoCall, !.heard = TRUE, !.body = job]]
    <3>1. /\ poller'[p].pc = "asking"
          /\ poller'[p].body = job
          /\ poller'[p].call = NoCall
      BY <1>2, <2>3, <1>a DEF Receive, TypeOK, Poller
    <3> QED
      BY <2>1, <3>1 DEF PollerTurns
  <2> QED
    BY <1>2, <2>2, <2>3 DEF Receive
<1>3. CASE ReceiveError(p)
  <2>1. /\ poller'[p].pc = "asking"
        /\ poller'[p].body = NoJob
        /\ poller'[p].call = NoCall
    BY <1>3, <1>a DEF ReceiveError, TypeOK, Poller
  <2> QED
    BY <1>3, <2>1 DEF ReceiveError, PollerTurns, ghostVars
<1>4. CASE GiveUp(p)
  <2>1. PICK body \in {poller[p].body, NoJob} :
          poller'[p] = [[poller[p] EXCEPT !.call = NoCall] EXCEPT !.body = body]
    BY <1>4 DEF GiveUp, TypeOK
  <2>2. /\ poller'[p].pc = "asking"
        /\ poller'[p].body = body
        /\ poller'[p].call = NoCall
    BY <1>4, <2>1, <1>a DEF GiveUp, Poller
  <2> QED
    BY <1>4, <2>2 DEF GiveUp, PollerTurns, ghostVars
<1>5. CASE EndAsk(p)
  <2>1. (IF poller[p].heard THEN poller[p].body ELSE NoJob) \in Jobs \cup {NoJob}
    BY <1>a DEF Poller
  <2> QED
    BY <1>5, <2>1, AfterAskTurn DEF EndAsk, ghostVars
<1>6. CASE TickEnds(p)
  BY <1>6, IdleTurn DEF TickEnds, TypeOK, ghostVars
<1>7. ASSUME NEW c \in Calls, Ask(p, c)
      PROVE  PollerTurns(p)
  <2>1. poller'[p] = [[poller[p] EXCEPT !.call = c] EXCEPT !.tries = poller[p].tries + 1]
    BY <1>7 DEF Ask, TypeOK
  <2>2. /\ poller'[p].pc = "asking"
        /\ poller'[p].body = poller[p].body
        /\ poller'[p].call = c
    BY <1>7, <2>1, <1>a DEF Ask, Poller
  <2>3. call'[c].pc = "new" /\ UNCHANGED runs /\ poller[p].pc = "asking"
    BY <1>7 DEF Ask, TypeOK, CallAt, ghostVars
  <2> QED
    BY <2>2, <2>3 DEF PollerTurns
<1>8. ASSUME NEW q \in Posts, PostResult(p, q)
      PROVE  PollerTurns(p)
  BY <1>8, IdleTurn DEF PostResult, TypeOK, ghostVars
<1> QED
  BY <1>1, <1>2, <1>3, <1>4, <1>5, <1>6, <1>7, <1>8 DEF PollerStep

LEMMA PollerFrame ==
    ASSUME Next
    PROVE  UNCHANGED <<poller, runs>> \/ \E p \in Pollers : PollerStep(p)
<1>1. ASSUME NEW c \in Calls, CallStep(c)
      PROVE  UNCHANGED <<poller, runs>>
  BY <1>1 DEF CallStep, LeaseBegin, LeaseRead, LeaseCommit, LeaseFail, ghostVars
<1>2. ASSUME NEW e \in Editors, EditorStep(e)
      PROVE  UNCHANGED <<poller, runs>>
  BY <1>2 DEF EditorStep, EnqueueCheck, EnqueueFlush, EnqueueCommit, EnqueueAbort, ghostVars
<1>3. ASSUME SetEnabled \/ DeleteHost \/ \E j \in Jobs : LeaseAges(j)
      PROVE  UNCHANGED <<poller, runs>>
  BY <1>3 DEF SetEnabled, DeleteHost, LeaseAges, ghostVars
<1>4. ASSUME NEW q \in Posts, PostStep(q)
      PROVE  UNCHANGED <<poller, runs>>
  BY <1>4 DEF PostStep, FinishRead, FinishWrite, FinishFail, ghostVars
<1> QED
  BY <1>1, <1>2, <1>3, <1>4 DEF Next

LEMMA OthersKeep ==
    ASSUME TypeOK, NEW q \in Pollers, PollerStep(q), NEW p \in Pollers, p # q
    PROVE  poller'[p] = poller[p]
<1>1. ASSUME NEW r, poller' = [poller EXCEPT ![q] = r]
      PROVE  poller'[p] = poller[p]
  BY <1>1 DEF TypeOK
<1>2. CASE AskElsewhere(q)
  BY <1>1, <1>2 DEF AskElsewhere
<1>3. CASE Receive(q)
  BY <1>1, <1>3 DEF Receive, AfterAsk
<1>4. CASE ReceiveError(q)
  BY <1>1, <1>4 DEF ReceiveError
<1>5. CASE GiveUp(q)
  BY <1>1, <1>5 DEF GiveUp
<1>6. CASE EndAsk(q)
  BY <1>1, <1>6 DEF EndAsk, AfterAsk
<1>7. CASE RunJob(q)
  BY <1>1, <1>7 DEF RunJob
<1>8. CASE TickEnds(q)
  BY <1>1, <1>8 DEF TickEnds
<1>9. ASSUME NEW c \in Calls, Ask(q, c)
      PROVE  poller'[p] = poller[p]
  BY <1>1, <1>9 DEF Ask
<1>10. ASSUME NEW r \in Posts, PostResult(q, r)
       PROVE  poller'[p] = poller[p]
  BY <1>1, <1>10 DEF PostResult
<1> QED
  BY <1>2, <1>3, <1>4, <1>5, <1>6, <1>7, <1>8, <1>9, <1>10 DEF PollerStep

LEMMA PollerMoves ==
    ASSUME TypeOK, Next, NEW p \in Pollers
    PROVE  PollerMove(p)
<1>1. ASSUME NEW q \in Pollers, PollerStep(q)
      PROVE  PollerMove(p)
  <2>1. CASE p = q
    BY <1>1, <2>1, PollerStepTurns DEF PollerMove
  <2>2. CASE p # q
    <3>1. poller'[p] = poller[p]
      BY <1>1, <2>2, OthersKeep
    <3>2. UNCHANGED runs \/ RunJob(q)
      BY <1>1, PollerStepTurns DEF PollerTurns
    <3> QED
      BY <2>2, <3>1, <3>2 DEF PollerMove
  <2> QED
    BY <2>1, <2>2
<1> QED
  BY <1>1, PollerFrame DEF PollerMove

(* What one execution does to the agent process and to the counts. *)
LEMMA RunJobEffect ==
    ASSUME TypeOK, NEW p \in Pollers, RunJob(p)
    PROVE  /\ poller'[p].pc = "posting"
           /\ poller'[p].call = NoCall
           /\ poller'[p].body = poller[p].body
           /\ \A r \in Pollers, j \in Jobs :
                runs'[r][j] = IF r = p /\ j = poller[p].body THEN runs[r][j] + 1 ELSE runs[r][j]
<1>1. PICK exit \in ExitCodes :
        poller'[p] = [IdlePoller EXCEPT !.pc = "posting", !.body = poller[p].body, !.code = exit]
  BY DEF RunJob, TypeOK
<1>2. poller'[p] = [pc |-> "posting", tries |-> 0, call |-> NoCall, body |-> poller[p].body,
                    heard |-> FALSE, code |-> exit]
  BY <1>1 DEF IdlePoller
<1>3. ASSUME NEW r \in Pollers, NEW j \in Jobs
      PROVE  runs'[r][j] = IF r = p /\ j = poller[p].body THEN runs[r][j] + 1 ELSE runs[r][j]
  <2>1. runs' = [runs EXCEPT ![p] = [runs[p] EXCEPT ![poller[p].body] = runs[p][poller[p].body] + 1]]
    BY DEF RunJob, TypeOK
  <2>2. runs[r] \in [Jobs -> Nat]
    BY DEF TypeOK
  <2>3. CASE r = p
    BY <2>1, <2>2, <2>3 DEF TypeOK
  <2>4. CASE r # p
    BY <2>1, <2>4 DEF TypeOK
  <2> QED
    BY <2>3, <2>4
<1> QED
  BY <1>2, <1>3

-------------------------------------------------------------------------------
(* IdInv: identities.                                                      *)
LEMMA IdPreserved ==
    ASSUME TypeOK, IInv, Next
    PROVE  IdInv'
<1>0. IdInv
  BY DEF IInv
<1>1. ASSUME NEW e \in Editors, EditorStep(e)
      PROVE  IdInv'
  <2>1. CASE EnqueueCheck(e)
    BY <1>0, <2>1 DEF EnqueueCheck, IdInv, TypeOK, rowVars, ghostVars
  <2>2. CASE EnqueueFlush(e)
    <3>1. /\ nextId' = nextId + 1 /\ nextId \in Jobs /\ nextId \in Nat /\ Jobs \subseteq Nat
          /\ UNCHANGED <<status, host>>
          /\ host # "deleted"
      BY <2>2, BoundAssumption DEF EnqueueFlush, rowVars, Jobs
    <3>2. editor' = [editor EXCEPT ![e] = [pc |-> "flushed", job |-> nextId]]
      BY <2>2 DEF EnqueueFlush
    <3>3. status[nextId] = "absent"
      BY <1>0, <3>1 DEF IdInv
    <3>4. \A j \in Jobs : j >= nextId' => status'[j] = "absent"
      BY <1>0, <3>1 DEF IdInv
    <3>5. \A f \in Editors : editor'[f].pc = "flushed" =>
             /\ editor'[f].job \in Jobs
             /\ editor'[f].job < nextId'
             /\ status'[editor'[f].job] = "absent"
             /\ host' # "deleted"
      <4>1. ASSUME NEW f \in Editors, editor'[f].pc = "flushed"
            PROVE  /\ editor'[f].job \in Jobs
                   /\ editor'[f].job < nextId'
                   /\ status'[editor'[f].job] = "absent"
        <5>1. CASE f = e
          BY <3>1, <3>2, <3>3, <5>1 DEF TypeOK
        <5>2. CASE f # e
          <6>1. editor'[f] = editor[f]
            BY <3>2, <5>2 DEF TypeOK
          <6>2. editor[f].job \in Nat /\ editor[f].job < nextId
            BY <1>0, <3>1, <4>1, <6>1 DEF IdInv
          <6> QED
            BY <1>0, <3>1, <4>1, <6>1, <6>2 DEF IdInv
        <5> QED
          BY <5>1, <5>2
      <4> QED
        BY <3>1, <4>1
    <3>6. \A f, g \in Editors :
             editor'[f].pc = "flushed" /\ editor'[g].pc = "flushed"
               /\ editor'[f].job = editor'[g].job => f = g
      BY <1>0, <3>1, <3>2 DEF IdInv, TypeOK
    <3>7. \A j \in Jobs : \A i \in ahead'[j] : i < j /\ status'[i] # "absent"
      <4>1. \A i \in Committed : i < nextId /\ status[i] # "absent"
        <5>1. ASSUME NEW i \in Committed
              PROVE  i < nextId /\ status[i] # "absent"
          <6>1. i \in Jobs /\ i \in Nat /\ status[i] # "absent"
            BY <3>1 DEF Committed
          <6>2. ~(i >= nextId)
            BY <1>0, <6>1 DEF IdInv
          <6> QED
            BY <3>1, <6>1, <6>2
        <5> QED
          BY <5>1
      <4>2. ahead' = [ahead EXCEPT ![nextId] = Committed]
        BY <2>2 DEF EnqueueFlush
      <4> QED
        BY <1>0, <3>1, <4>1, <4>2 DEF IdInv, TypeOK
    <3> QED
      BY <3>4, <3>5, <3>6, <3>7 DEF IdInv
  <2>3. CASE EnqueueCommit(e)
    <3>1. /\ editor' = [editor EXCEPT ![e] = [pc |-> "idle", job |-> NoJob]]
          /\ status' = [status EXCEPT ![editor[e].job] = "pending"]
          /\ editor[e].pc = "flushed"
          /\ UNCHANGED <<host, nextId, ahead>>
      BY <2>3 DEF EnqueueCommit, IdleEditor, ghostVars
    <3>2. \A j \in Jobs : j >= nextId => j # editor[e].job
      BY <1>0, <3>1, BoundAssumption DEF IdInv, TypeOK, Jobs
    <3> QED
      BY <1>0, <3>1, <3>2 DEF IdInv, TypeOK
  <2>4. CASE EnqueueAbort(e)
    <3>1. /\ editor' = [editor EXCEPT ![e] = [pc |-> "idle", job |-> NoJob]]
          /\ UNCHANGED <<host, nextId, ahead, status>>
      BY <2>4 DEF EnqueueAbort, IdleEditor, rowVars, ghostVars
    <3> QED
      BY <1>0, <3>1 DEF IdInv, TypeOK
  <2> QED
    BY <1>1, <2>1, <2>2, <2>3, <2>4 DEF EditorStep
<1>2. CASE SetEnabled
  BY <1>0, <1>2 DEF SetEnabled, IdInv, rowVars, ghostVars
<1>3. CASE DeleteHost
  <2>1. /\ UNCHANGED <<nextId, editor, ahead>>
        /\ \A e \in Editors : editor[e].pc # "flushed"
        /\ \A j \in Jobs : status'[j] = "absent" <=> status[j] = "absent"
    BY <1>3 DEF DeleteHost, Committed, ghostVars
  <2>2. \A j \in Jobs : ahead[j] \subseteq Jobs
    BY DEF TypeOK
  <2> QED
    BY <1>0, <2>1, <2>2 DEF IdInv
<1>4. CASE (\E c \in Calls : LeaseCommit(c)) \/ (\E q \in Posts : FinishWrite(q))
  <2>1. UNCHANGED <<nextId, editor, ahead, host>>
    BY <1>4 DEF LeaseCommit, FinishWrite, ghostVars
  <2>2. \A j \in Jobs : status'[j] = "absent" <=> status[j] = "absent"
    BY <1>4, LeaseCommitRows, FinishWriteRows DEF RowUpdated
  <2>3. \A j \in Jobs : ahead[j] \subseteq Jobs
    BY DEF TypeOK
  <2> QED
    BY <1>0, <2>1, <2>2, <2>3 DEF IdInv
<1>5. CASE UNCHANGED <<host, status, nextId, editor, ahead, handed>>
  BY <1>0, <1>5 DEF IdInv
<1> QED
  BY <1>1, <1>2, <1>3, <1>4, <1>5, QuietSteps

-------------------------------------------------------------------------------
(* GoneInv: the rows are gone with their host.                             *)
LEMMA HostMoves ==
    ASSUME Next
    PROVE  UNCHANGED host \/ (host # "deleted" /\ host' # "deleted") \/ DeleteHost
BY QuietSteps DEF EditorStep, EnqueueCheck, EnqueueFlush, EnqueueCommit, EnqueueAbort,
   SetEnabled, LeaseCommit, FinishWrite

(* A row that is inserted was absent, its host exists, and nothing else moves. *)
LEMMA InsertedFacts ==
    ASSUME TypeOK, IInv, NEW j \in Jobs, RowInserted(j)
    PROVE  /\ status[j] = "absent" /\ status'[j] = "pending"
           /\ host # "deleted" /\ UNCHANGED <<host, handed, ahead>>
BY DEF RowInserted, EnqueueCommit, ghostVars, IInv, IdInv

LEMMA DeletedRows ==
    ASSUME TypeOK, DeleteHost, NEW j \in Jobs
    PROVE  /\ status'[j] \in {"absent", "gone"}
           /\ status'[j] = "absent" <=> status[j] = "absent"
           /\ host' = "deleted"
           /\ UNCHANGED <<handed, ahead, call>>
           /\ \A c \in Calls : call[c].hold = {}
BY DEF DeleteHost, Committed, ghostVars, TypeOK

LEMMA GonePreserved ==
    ASSUME TypeOK, IInv, Next
    PROVE  GoneInv'
<1>0. GoneInv
  BY DEF IInv
<1>1. ASSUME NEW j \in Jobs, host' = "deleted"
      PROVE  status'[j] \in {"absent", "gone"}
  <2>1. CASE DeleteHost
    BY <2>1, DeletedRows
  <2>2. CASE ~DeleteHost
    <3>1. host = "deleted"
      BY <1>1, <2>2, HostMoves
    <3>2. status[j] \in {"absent", "gone"}
      BY <1>0, <3>1 DEF GoneInv
    <3> QED
      BY <2>2, <3>1, <3>2, RowMoves, InsertedFacts DEF RowMove, RowUpdated
  <2> QED
    BY <2>1, <2>2
<1>2. ASSUME NEW j \in Jobs, host' # "deleted"
      PROVE  status'[j] # "gone"
  <2>1. ~DeleteHost /\ host # "deleted"
    BY <1>2, HostMoves DEF DeleteHost
  <2>2. status[j] # "gone"
    BY <1>0, <2>1 DEF GoneInv
  <2> QED
    BY <2>1, <2>2, RowMoves DEF RowMove, RowInserted, RowUpdated
<1>3. ASSUME NEW c \in Calls, call'[c].hold # {}
      PROVE  host' # "deleted"
  <2>1. CASE call'[c] = call[c]
    <3>1. host # "deleted"
      BY <1>0, <1>3, <2>1 DEF GoneInv
    <3> QED
      BY <1>3, <2>1, <3>1, HostMoves DEF DeleteHost
  <2>2. CASE CallChose(c)
    <3>1. PICK j \in call'[c].hold : j \in Jobs /\ status[j] = "leased"
      BY <1>3, <2>2 DEF CallChose
    <3>2. host # "deleted"
      BY <1>0, <3>1 DEF GoneInv
    <3> QED
      BY <2>2, <3>2 DEF CallChose
  <2> QED
    BY <1>3, <2>1, <2>2, CallMoves DEF CallMove, CallCleared, CallLeased
<1> QED
  BY <1>1, <1>2, <1>3 DEF GoneInv

-------------------------------------------------------------------------------
(* HandedInv: which jobs have left the queue.                              *)
LEMMA PostMoves ==
    ASSUME TypeOK, Next, NEW q \in Posts
    PROVE  \/ post'[q].pc = "free"
           \/ post[q].pc # "free" /\ post'[q].job = post[q].job
           \/ \E p \in Pollers : /\ PostResult(p, q)
                               /\ poller[p].pc = "posting" /\ post'[q].job = poller[p].body
<1>1. ASSUME NEW r \in Posts, PostStep(r)
      PROVE  post'[q].pc = "free" \/ (post'[q] = post[q])
                \/ (post[q].pc # "free" /\ post'[q].job = post[q].job)
  BY <1>1 DEF PostStep, FinishRead, FinishWrite, FinishFail, TypeOK, Post, FreePost
<1>2. ASSUME NEW p \in Pollers, NEW r \in Posts, PostResult(p, r)
      PROVE  \/ post'[q] = post[q]
             \/ r = q /\ poller[p].pc = "posting" /\ post'[q].job = poller[p].body
  BY <1>2 DEF PostResult, TypeOK
<1>3. ASSUME NEW p \in Pollers, PollerStep(p), ~\E r \in Posts : PostResult(p, r)
      PROVE  UNCHANGED post
  BY <1>3 DEF PollerStep, AskElsewhere, Receive, ReceiveError, GiveUp, EndAsk, RunJob,
       TickEnds, Ask
<1>4. ASSUME NEW c \in Calls, CallStep(c)
      PROVE  UNCHANGED post
  BY <1>4 DEF CallStep, LeaseBegin, LeaseRead, LeaseCommit, LeaseFail
<1>5. ASSUME NEW e \in Editors, EditorStep(e)
      PROVE  UNCHANGED post
  BY <1>5 DEF EditorStep, EnqueueCheck, EnqueueFlush, EnqueueCommit, EnqueueAbort
<1>6. ASSUME SetEnabled \/ DeleteHost \/ \E j \in Jobs : LeaseAges(j)
      PROVE  UNCHANGED post
  BY <1>6 DEF SetEnabled, DeleteHost, LeaseAges
<1> QED
  BY <1>1, <1>2, <1>3, <1>4, <1>5, <1>6 DEF Next

LEMMA HandedPreserved ==
    ASSUME TypeOK, IInv, Next
    PROVE  HandedInv'
<1>0. HandedInv
  BY DEF IInv
<1>a. handed \subseteq handed'
  BY HandedMoves
<1>1. ASSUME NEW j \in Jobs, status'[j] \in {"absent", "pending"}
      PROVE  j \notin handed'
  <2>1. CASE status'[j] = status[j]
    <3>1. j \notin handed
      BY <1>0, <1>1, <2>1 DEF HandedInv
    <3>2. ASSUME NEW c \in Calls, LeaseCommit(c), j = call[c].job
          PROVE  FALSE
      <4>1. status'[j] = "leased"
        BY <3>2 DEF LeaseCommit, LeasedRows
      <4> QED
        BY <4>1, <1>1
    <3> QED
      BY <3>1, <3>2, HandedMoves
  <2>2. CASE RowInserted(j)
    BY <1>0, <2>2, InsertedFacts DEF HandedInv
  <2>3. CASE RowUpdated(j)
    BY <1>1, <2>3 DEF RowUpdated
  <2>4. CASE DeleteHost
    BY <1>0, <1>1, <2>4, DeletedRows DEF HandedInv
  <2> QED
    BY <2>1, <2>2, <2>3, <2>4, RowMoves DEF RowMove
<1>2. ASSUME NEW j \in Jobs, status'[j] \in {"leased", "done", "failed", "expired"}
      PROVE  j \in handed'
  <2>1. CASE DeleteHost
    BY <1>2, <2>1, DeletedRows
  <2> QED
    BY <1>0, <1>a, <1>2, <2>1, RowMoves DEF HandedInv, RowMove, RowInserted, RowUpdated
<1>3. ASSUME NEW c \in Calls
      PROVE  call'[c].hold \subseteq handed'
  BY <1>0, <1>a, CallMoves
     DEF HandedInv, CallMove, CallCleared, CallChose, CallLeased
<1>4. ASSUME NEW c \in Calls, call'[c].pc = "ok", call'[c].job # NoJob
      PROVE  call'[c].job \in handed'
  BY <1>0, <1>a, <1>4, CallMoves
     DEF HandedInv, CallMove, CallCleared, CallChose, CallLeased
<1>5. ASSUME NEW p \in Pollers, poller'[p].body # NoJob
      PROVE  poller'[p].body \in handed'
  BY <1>0, <1>a, <1>5, PollerMoves, RunJobEffect
     DEF HandedInv, PollerMove, PollerTurns, Answered
<1>6. ASSUME NEW q \in Posts, post'[q].pc # "free"
      PROVE  post'[q].job \in handed'
  <2>1. ASSUME NEW p \in Pollers, poller[p].pc = "posting"
        PROVE  poller[p].body \in handed
    BY <1>0, <2>1 DEF HandedInv, IInv, RunInv
  <2> QED
    BY <1>0, <1>a, <1>6, <2>1, PostMoves DEF HandedInv
<1> QED
  BY <1>1, <1>2, <1>3, <1>4, <1>5, <1>6 DEF HandedInv

-------------------------------------------------------------------------------
(* OrderInv: the jobs a row knows ahead of it stay fixed, and stay out of  *)
(* the queue once they left it.                                            *)
LEMMA AheadStable ==
    ASSUME TypeOK, IInv, Next, NEW j \in Jobs, status[j] # "absent"
    PROVE  /\ ahead'[j] = ahead[j]
           /\ status'[j] # "absent"
           /\ \A i \in ahead[j] : status[i] # "pending" => status'[i] # "pending"
<1>1. ahead'[j] = ahead[j]
  <2>1. ASSUME NEW e \in Editors, EnqueueFlush(e)
        PROVE  ahead'[j] = ahead[j]
    <3>1. ahead' = [ahead EXCEPT ![nextId] = Committed] /\ nextId \in Jobs
      BY <2>1 DEF EnqueueFlush
    <3>2. j # nextId
      BY BoundAssumption DEF IInv, IdInv, Jobs
    <3> QED
      BY <3>1, <3>2 DEF TypeOK
  <2> QED
    BY <2>1, QuietSteps DEF EditorStep, EnqueueCheck, EnqueueCommit, EnqueueAbort,
       SetEnabled, DeleteHost, LeaseCommit, FinishWrite, ghostVars
<1>2. ASSUME NEW i \in Jobs, status[i] # "absent"
      PROVE  status'[i] # "absent" /\ (status[i] # "pending" => status'[i] # "pending")
  BY <1>2, RowMoves, InsertedFacts, DeletedRows DEF RowMove, RowUpdated
<1>3. ASSUME NEW i \in ahead[j]
      PROVE  i \in Jobs /\ status[i] # "absent"
  BY DEF TypeOK, IInv, IdInv
<1> QED
  BY <1>1, <1>2, <1>3

LEMMA OrderPreserved ==
    ASSUME TypeOK, IInv, Next
    PROVE  OrderInv'
<1>0. OrderInv
  BY DEF IInv
<1>1. ASSUME NEW c \in Calls, call'[c].pc = "read", call'[c].job # NoJob
      PROVE  /\ status'[call'[c].job] # "absent"
             /\ \A i \in ahead'[call'[c].job] : status'[i] # "pending"
  <2> DEFINE job == call'[c].job
  <2>1. job \in Jobs /\ status[job] # "absent" /\ \A i \in ahead[job] : status[i] # "pending"
    <3>1. CASE call'[c] = call[c]
      BY <1>0, <1>1, <3>1 DEF OrderInv, TypeOK, Call
    <3>2. CASE CallChose(c)
      <4>1. Pending # {} /\ job = Oldest(Pending) /\ Pending \in SUBSET Jobs
        BY <1>1, <3>2 DEF CallChose, Pending
      <4>2. job \in Pending /\ \A i \in Pending : job <= i
        BY <4>1, OldestIsLeast
      <4>3. ASSUME NEW i \in ahead[job], status[i] = "pending"
            PROVE  FALSE
        <5>1. i \in Jobs /\ job \in Jobs /\ i < job
          BY <4>2 DEF TypeOK, IInv, IdInv, Pending
        <5>2. i \in Pending
          BY <4>3, <5>1 DEF Pending
        <5>3. job <= i
          BY <4>2, <5>2
        <5> QED
          BY <5>1, <5>3, BoundAssumption DEF Jobs
      <4> QED
        BY <4>2, <4>3 DEF Pending
    <3> QED
      BY <1>1, <3>1, <3>2, CallMoves DEF CallMove, CallCleared, CallLeased
  <2> QED
    BY <2>1, AheadStable
<1>2. ASSUME NEW j \in handed'
      PROVE  \A i \in ahead'[j] : status'[i] # "pending"
  <2>1. j \in Jobs /\ status[j] # "absent" /\ \A i \in ahead[j] : status[i] # "pending"
    <3>1. CASE j \in handed
      BY <1>0, <3>1 DEF OrderInv, HandedInOrder, IInv, HandedInv, TypeOK
    <3>2. CASE j \notin handed
      <4>1. PICK c \in Calls : LeaseCommit(c) /\ j = call[c].job /\ j # NoJob
        BY <1>2, <3>2, HandedMoves
      <4>2. call[c].pc = "read" /\ j \in Jobs
        BY <4>1 DEF LeaseCommit, TypeOK, Call
      <4> QED
        BY <1>0, <4>1, <4>2 DEF OrderInv
    <3> QED
      BY <3>1, <3>2
  <2> QED
    BY <2>1, AheadStable
<1> QED
  BY <1>1, <1>2 DEF OrderInv, HandedInOrder

-------------------------------------------------------------------------------
(* RunInv: the body file and the answers hold jobs not run yet.            *)
LEMMA RunJobFacts ==
    ASSUME TypeOK, IInv, NEW p \in Pollers, RunJob(p)
    PROVE  /\ poller[p].body \in Jobs
           /\ poller[p].body \in handed
           /\ poller[p].call = NoCall
           /\ runs[p][poller[p].body] = 0
<1>1. poller[p].pc = "ready" /\ poller[p].body # NoJob /\ poller[p].call = NoCall
  BY DEF RunJob, IInv, RunInv
<1> QED
  BY <1>1 DEF IInv, RunInv, HandedInv, TypeOK

LEMMA RunPreserved ==
    ASSUME TypeOK, IInv, Next
    PROVE  RunInv'
<1>0. RunInv
  BY DEF IInv
<1>t. \A p \in Pollers, j \in Jobs : runs[p][j] \in Nat
  BY DEF TypeOK
<1>1. ASSUME NEW p \in Pollers, NEW j \in Jobs
      PROVE  runs'[p][j] <= 1
  <2>1. ASSUME NEW q \in Pollers, RunJob(q)
        PROVE  runs'[p][j] <= 1
    BY <1>0, <1>t, <2>1, RunJobEffect, RunJobFacts DEF RunInv, AtMostOncePerPoller
  <2> QED
    BY <1>0, <2>1, RunsFrame DEF RunInv, AtMostOncePerPoller
<1>2. ASSUME NEW p \in Pollers, NEW j \in Jobs, runs'[p][j] > 0
      PROVE  j \in handed'
  <2>1. handed \subseteq handed'
    BY HandedMoves
  <2>2. ASSUME NEW q \in Pollers, RunJob(q)
        PROVE  j \in handed
    BY <1>0, <1>2, <1>t, <2>2, RunJobEffect, RunJobFacts DEF RunInv
  <2> QED
    BY <1>0, <1>2, <2>1, <2>2, RunsFrame DEF RunInv
<1>3. ASSUME NEW p \in Pollers, poller'[p].pc \in {"ready", "posting"}
      PROVE  poller'[p].body # NoJob /\ poller'[p].call = NoCall
  BY <1>0, <1>3, PollerMoves, RunJobEffect, RunJobFacts, NoJobNotJob
     DEF RunInv, PollerMove, PollerTurns
<1>4. ASSUME NEW p \in Pollers, poller'[p].pc # "posting", poller'[p].body # NoJob
      PROVE  runs'[p][poller'[p].body] = 0
  <2>1. CASE poller'[p] = poller[p] /\ UNCHANGED runs
    BY <1>0, <1>4, <2>1 DEF RunInv
  <2>2. ASSUME poller'[p] = poller[p], NEW q \in Pollers \ {p}, RunJob(q)
        PROVE  runs'[p][poller'[p].body] = 0
    <3>1. poller[p].body \in Jobs
      BY <1>4, <2>2 DEF TypeOK, Poller
    <3> QED
      BY <1>0, <1>4, <2>2, <3>1, RunJobEffect DEF RunInv
  <2>3. CASE PollerTurns(p)
    <3>1. CASE Answered(p, poller'[p].body)
      BY <1>0, <1>4, <2>3, <3>1 DEF RunInv, Answered, PollerTurns
    <3> QED
      BY <1>0, <1>4, <2>3, <3>1 DEF RunInv, PollerTurns
  <2> QED
    BY <1>4, <2>1, <2>2, <2>3, PollerMoves, RunJobEffect DEF PollerMove
<1>5. ASSUME NEW p \in Pollers, NEW c \in Calls, poller'[p].call = c,
             call'[c].pc \in {"read", "ok"}, call'[c].job # NoJob
      PROVE  runs'[p][call'[c].job] = 0
  <2>1. call'[c].job \in Jobs
    BY <1>5, NextType DEF TypeOK, Call
  <2>2. poller'[p] = poller[p] /\ runs'[p][call'[c].job] = runs[p][call'[c].job]
    BY <1>5, <2>1, PollerMoves, RunJobEffect, BoundAssumption DEF PollerMove, PollerTurns
  <2>3. CASE call'[c] = call[c] \/ CallLeased(c)
    BY <1>0, <1>5, <2>2, <2>3 DEF RunInv, CallLeased
  <2>4. CASE CallChose(c)
    <3>1. Pending \in SUBSET Jobs /\ call'[c].job \in Pending
      BY <1>5, <2>4, OldestIsLeast DEF CallChose, Pending
    <3>2. call'[c].job \notin handed
      BY <2>1, <3>1 DEF IInv, HandedInv, Pending
    <3>3. ~(runs[p][call'[c].job] > 0)
      BY <1>0, <2>1, <3>2 DEF RunInv
    <3> QED
      BY <1>t, <2>1, <2>2, <3>3
  <2> QED
    BY <1>5, <2>3, <2>4, CallMoves DEF CallMove, CallCleared
<1> QED
  BY <1>1, <1>2, <1>3, <1>4, <1>5 DEF RunInv, AtMostOncePerPoller

-------------------------------------------------------------------------------
(* ResultInv: a result on its way was run for.                             *)
LEMMA RunsGrow ==
    ASSUME TypeOK, Next, NEW p \in Pollers, NEW j \in Jobs, runs[p][j] > 0
    PROVE  runs'[p][j] > 0
BY RunsFrame, RunJobEffect DEF TypeOK

(* Exit codes are only written by finish_job. *)
LEMMA CodeKept ==
    ASSUME Next, ~\E q \in Posts : FinishWrite(q)
    PROVE  UNCHANGED code
<1>1. ASSUME NEW p \in Pollers, PollerStep(p)
      PROVE  UNCHANGED code
  BY <1>1 DEF PollerStep, AskElsewhere, Receive, ReceiveError, GiveUp, EndAsk, RunJob,
       TickEnds, Ask, PostResult, rowVars
<1>2. ASSUME NEW c \in Calls, CallStep(c)
      PROVE  UNCHANGED code
  BY <1>2 DEF CallStep, LeaseBegin, LeaseRead, LeaseCommit, LeaseFail, rowVars
<1>3. ASSUME NEW e \in Editors, EditorStep(e)
      PROVE  UNCHANGED code
  BY <1>3 DEF EditorStep, EnqueueCheck, EnqueueFlush, EnqueueCommit, EnqueueAbort, rowVars
<1>4. ASSUME SetEnabled \/ DeleteHost \/ \E i \in Jobs : LeaseAges(i)
      PROVE  UNCHANGED code
  BY <1>4 DEF SetEnabled, DeleteHost, LeaseAges, rowVars
<1>5. ASSUME NEW q \in Posts, PostStep(q)
      PROVE  UNCHANGED code
  BY <1>5 DEF PostStep, FinishRead, FinishFail, rowVars
<1> QED
  BY <1>1, <1>2, <1>3, <1>4, <1>5 DEF Next

(* A row shows a result because it did before, or because it was written. *)
LEMMA ClosedBy ==
    ASSUME TypeOK, IInv, Next, NEW j \in Jobs, status'[j] \in {"done", "failed"}
    PROVE  \/ status[j] \in {"done", "failed"} /\ code'[j] = code[j]
           \/ \E q \in Posts : FinishWrite(q) /\ post[q].job = j /\ code'[j] = post[q].code
<1>1. ASSUME NEW q \in Posts, FinishWrite(q)
      PROVE  \/ post[q].job = j /\ code'[j] = post[q].code
             \/ status'[j] = status[j] /\ code'[j] = code[j]
  BY <1>1 DEF FinishWrite, TypeOK
<1>2. ASSUME ~\E q \in Posts : FinishWrite(q)
      PROVE  UNCHANGED code
  BY <1>2, CodeKept
<1>3. ASSUME NEW c \in Calls, LeaseCommit(c)
      PROVE  status'[j] = status[j]
  BY <1>3 DEF LeaseCommit, LeasedRows
<1>4. (\E q \in Posts : FinishWrite(q)) \/ status'[j] = status[j]
  <2>1. ASSUME NEW e \in Editors, EditorStep(e)
        PROVE  status'[j] = status[j]
    BY <2>1 DEF EditorStep, EnqueueCheck, EnqueueFlush, EnqueueCommit, EnqueueAbort,
         rowVars, TypeOK
  <2>2. ~DeleteHost
    BY DeletedRows
  <2>3. SetEnabled => status'[j] = status[j]
    BY DEF SetEnabled, rowVars
  <2> QED
    BY <1>3, <2>1, <2>2, <2>3, QuietSteps
<1> QED
  BY <1>1, <1>2, <1>4

LEMMA ResultPreserved ==
    ASSUME TypeOK, IInv, Next
    PROVE  ResultInv'
<1>0. ResultInv
  BY DEF IInv
<1>1. ASSUME NEW p \in Pollers, poller'[p].pc = "posting"
      PROVE  runs'[p][poller'[p].body] > 0
  <2>1. CASE RunJob(p)
    BY <2>1, RunJobEffect, RunJobFacts
  <2>2. CASE poller'[p] = poller[p]
    <3>1. poller[p].body \in Jobs /\ runs[p][poller[p].body] > 0
      BY <1>0, <1>1, <2>2 DEF ResultInv, IInv, RunInv, TypeOK, Poller
    <3> QED
      BY <2>2, <3>1, RunsGrow
  <2> QED
    BY <1>1, <2>1, <2>2, PollerMoves DEF PollerMove, PollerTurns
<1>2. ASSUME NEW q \in Posts, post'[q].pc # "free"
      PROVE  \E p \in Pollers : runs'[p][post'[q].job] > 0
  <2>1. post'[q].job \in Jobs
    BY <1>2, HandedPreserved, NextType DEF HandedInv, TypeOK
  <2>2. CASE post[q].pc # "free" /\ post'[q].job = post[q].job
    BY <1>0, <2>1, <2>2, RunsGrow DEF ResultInv
  <2>3. ASSUME NEW p \in Pollers, poller[p].pc = "posting", post'[q].job = poller[p].body
        PROVE  \E r \in Pollers : runs'[r][post'[q].job] > 0
    BY <1>0, <2>1, <2>3, RunsGrow DEF ResultInv
  <2> QED
    BY <1>2, <2>2, <2>3, PostMoves
<1>3. ASSUME NEW j \in Jobs, status'[j] \in {"done", "failed"}
      PROVE  code'[j] # NoCode /\ \E p \in Pollers : runs'[p][j] > 0
  <2>1. CASE status[j] \in {"done", "failed"} /\ code'[j] = code[j]
    BY <1>0, <2>1, RunsGrow DEF ResultInv, ResultIsFromRun
  <2>2. ASSUME NEW q \in Posts, FinishWrite(q), post[q].job = j, code'[j] = post[q].code
        PROVE  code'[j] # NoCode /\ \E p \in Pollers : runs'[p][j] > 0
    <3>1. code'[j] # NoCode
      BY <2>2 DEF TypeOK, Post, ExitCodes, NoCode
    <3>2. \E p \in Pollers : runs[p][j] > 0
      BY <1>0, <2>2 DEF ResultInv, FinishWrite
    <3> QED
      BY <3>1, <3>2, RunsGrow
  <2> QED
    BY <1>3, <2>1, <2>2, ClosedBy
<1> QED
  BY <1>1, <1>2, <1>3 DEF ResultInv, ResultIsFromRun

-------------------------------------------------------------------------------
LEMMA InitInvariant == Init => IInv
<1> SUFFICES ASSUME Init
             PROVE  IInv
  OBVIOUS
<1> USE BoundAssumption DEF Init, NoJob, Jobs
<1>1. IdInv
  BY DEF IdInv, IdleEditor
<1>2. GoneInv
  BY DEF GoneInv, CallAt
<1>3. HandedInv
  BY DEF HandedInv, CallAt, IdlePoller, FreePost
<1>4. OrderInv
  BY DEF OrderInv, HandedInOrder, CallAt
<1>5. RunInv
  BY DEF RunInv, AtMostOncePerPoller, IdlePoller
<1>6. ResultInv
  BY DEF ResultInv, ResultIsFromRun, IdlePoller, FreePost
<1> QED
  BY <1>1, <1>2, <1>3, <1>4, <1>5, <1>6 DEF IInv

LEMMA StutterInvariant ==
    ASSUME IInv, UNCHANGED vars
    PROVE  IInv'
<1> USE DEF vars
<1>1. IdInv'
  BY DEF IInv, IdInv
<1>2. GoneInv'
  BY DEF IInv, GoneInv
<1>3. HandedInv'
  BY DEF IInv, HandedInv
<1>4. OrderInv'
  BY DEF IInv, OrderInv, HandedInOrder
<1>5. RunInv'
  BY DEF IInv, RunInv, AtMostOncePerPoller
<1>6. ResultInv'
  BY DEF IInv, ResultInv, ResultIsFromRun
<1> QED
  BY <1>1, <1>2, <1>3, <1>4, <1>5, <1>6 DEF IInv

LEMMA NextInvariant == TypeOK /\ IInv /\ [Next]_vars => IInv'
<1> SUFFICES ASSUME TypeOK, IInv, [Next]_vars
             PROVE  IInv'
  OBVIOUS
<1>1. CASE Next
  BY <1>1, IdPreserved, GonePreserved, HandedPreserved, OrderPreserved, RunPreserved,
     ResultPreserved DEF IInv
<1>2. CASE UNCHANGED vars
  BY <1>2, StutterInvariant
<1> QED
  BY <1>1, <1>2

(* The invariant IInv holds in every reachable state.                      *)
THEOREM Invariance == Spec => [](TypeOK /\ IInv)
<1>1. Init => TypeOK /\ IInv
  BY InitType, InitInvariant
<1>2. TypeOK /\ IInv /\ [Next]_vars => (TypeOK /\ IInv)'
  BY NextType, NextInvariant
<1> QED
  BY <1>1, <1>2, PTL DEF Spec

(* No agent process executes a job twice: an answer that is lost, late or  *)
(* repeated never puts a job it already ran into its body file.            *)
THEOREM RunsOnce == Spec => []AtMostOncePerPoller
<1>1. IInv => AtMostOncePerPoller
  BY DEF IInv, RunInv
<1> QED
  BY <1>1, Invariance, PTL

(* lease_next_job never hands out a job before one whose commit the insert *)
(* of that job could see.                                                  *)
THEOREM FirstInFirstOut == Spec => []HandedInOrder
<1>1. IInv => HandedInOrder
  BY DEF IInv, OrderInv
<1> QED
  BY <1>1, Invariance, PTL

(* A row shows "done" or "failed" only for a job that was executed, and    *)
(* then it has an exit code.                                               *)
THEOREM ShownResultsHappened == Spec => []ResultIsFromRun
<1>1. IInv => ResultIsFromRun
  BY DEF IInv, ResultInv
<1> QED
  BY <1>1, Invariance, PTL

-------------------------------------------------------------------------------
(* ResultStable: with one agent process a result is on its way to a row at *)
(* most once, and only while the row has no exit code.                     *)
OneProcess == \A p, r \in Pollers : p = r

WrittenInv ==
    /\ \A p \in Pollers : poller[p].pc = "posting" =>
          /\ code[poller[p].body] = NoCode
          /\ \A q \in Posts : post[q].pc # "free" => post[q].job # poller[p].body
    /\ \A q \in Posts : post[q].pc # "free" => code[post[q].job] = NoCode
    /\ \A q, r \in Posts :
          post[q].pc # "free" /\ post[r].pc # "free" /\ post[q].job = post[r].job => q = r
    /\ \A j \in Jobs : code[j] # NoCode => \E p \in Pollers : runs[p][j] > 0

(* A process only gets to "posting" by RunJob. *)
LEMMA PostingKept ==
    ASSUME TypeOK, Next, ~\E p \in Pollers : RunJob(p), NEW p \in Pollers,
           poller'[p].pc = "posting"
    PROVE  poller'[p] = poller[p]
BY PollerMoves DEF PollerMove, PollerTurns

(* RunJob: its job was not run before, so nothing of it is on its way. *)
LEMMA WrittenRun ==
    ASSUME TypeOK, IInv, OneProcess, WrittenInv, NEW p \in Pollers, RunJob(p)
    PROVE  WrittenInv'
<1> DEFINE j == poller[p].body
<1>1. j \in Jobs /\ runs[p][j] = 0 /\ \A r \in Pollers : r = p
  BY RunJobFacts DEF OneProcess
<1>2. ~\E r \in Pollers : runs[r][j] > 0
  BY <1>1
<1>3. UNCHANGED <<code, post>> /\ poller'[p].body = j
  BY RunJobEffect DEF RunJob, rowVars
<1>4. code[j] = NoCode
  BY <1>1, <1>2 DEF WrittenInv
<1>5. \A q \in Posts : post[q].pc # "free" => post[q].job # j
  BY <1>2 DEF IInv, ResultInv
<1>6. \A i \in Jobs : code'[i] # NoCode => \E r \in Pollers : runs'[r][i] > 0
  <2> SUFFICES ASSUME NEW i \in Jobs, code[i] # NoCode
               PROVE  runs'[p][i] > 0
    BY <1>3
  <2>1. runs[p][i] > 0 /\ i # j
    BY <1>1, <1>4 DEF WrittenInv
  <2> QED
    BY <2>1, RunJobEffect
<1> HIDE DEF j
<1>7. \A r \in Pollers : r = p /\ poller'[r].body = j
  BY <1>1, <1>3
<1> QED
  BY <1>3, <1>4, <1>5, <1>6, <1>7 DEF WrittenInv

(* PostResult: the process is idle once its result is on its way. *)
LEMMA WrittenPost ==
    ASSUME TypeOK, IInv, OneProcess, WrittenInv, NEW p \in Pollers, NEW q \in Posts,
           PostResult(p, q)
    PROVE  WrittenInv'
<1>1. /\ poller[p].pc = "posting" /\ post[q].pc = "free"
      /\ post'[q].job = poller[p].body
      /\ \A r \in Posts \ {q} : post'[r] = post[r]
      /\ UNCHANGED <<code, runs>>
  BY DEF PostResult, TypeOK, rowVars, ghostVars
<1>2. \A r \in Pollers : r = p /\ poller'[r].pc = "asking"
  BY DEF PostResult, TypeOK, IdlePoller, OneProcess
<1>3. /\ code[poller[p].body] = NoCode
      /\ \A r \in Posts : post[r].pc # "free" => post[r].job # poller[p].body
  BY <1>1 DEF WrittenInv
<1>4. ASSUME NEW r \in Posts, post'[r].pc # "free"
      PROVE  code'[post'[r].job] = NoCode
  BY <1>1, <1>3, <1>4 DEF WrittenInv
<1>5. ASSUME NEW r \in Posts, NEW s \in Posts, post'[r].pc # "free", post'[s].pc # "free",
             post'[r].job = post'[s].job
      PROVE  r = s
  BY <1>1, <1>3, <1>5 DEF WrittenInv
<1>6. \A j \in Jobs : code'[j] # NoCode => \E r \in Pollers : runs'[r][j] > 0
  BY <1>1 DEF WrittenInv
<1> QED
  BY <1>2, <1>4, <1>5, <1>6 DEF WrittenInv

(* FinishWrite: the result arrives, and no other one of its job is left. *)
LEMMA WrittenFinish ==
    ASSUME TypeOK, IInv, WrittenInv, NEW q \in Posts, FinishWrite(q)
    PROVE  /\ WrittenInv'
           /\ \A j \in Jobs : code[j] # NoCode => code'[j] = code[j]
<1> DEFINE j == post[q].job
<1>1. /\ post[q].pc = "read"
      /\ post'[q].pc = "free"
      /\ \A r \in Posts \ {q} : post'[r] = post[r]
      /\ \A i \in Jobs : i # j => code'[i] = code[i]
      /\ UNCHANGED <<poller, runs>>
  BY DEF FinishWrite, TypeOK, FreePost, ghostVars
<1>2. code[j] = NoCode
  BY <1>1 DEF WrittenInv
<1>3. \E p \in Pollers : runs[p][j] > 0
  BY <1>1 DEF IInv, ResultInv
<1>4. ASSUME NEW p \in Pollers, poller'[p].pc = "posting"
      PROVE  /\ code'[poller'[p].body] = NoCode
             /\ \A r \in Posts : post'[r].pc # "free" => post'[r].job # poller'[p].body
  <2>1. poller[p].body # NoJob /\ poller[p].body \in Jobs
    BY <1>1, <1>4 DEF IInv, RunInv, TypeOK, Poller
  <2>2. poller[p].body # j /\ code[poller[p].body] = NoCode
    BY <1>1, <1>4 DEF WrittenInv
  <2> QED
    BY <1>1, <1>4, <2>1, <2>2 DEF WrittenInv
<1>5. ASSUME NEW r \in Posts, post'[r].pc # "free"
      PROVE  code'[post'[r].job] = NoCode
  <2>1. r # q /\ post'[r] = post[r]
    BY <1>1, <1>5
  <2>2. post[r].job # j /\ code[post[r].job] = NoCode
    BY <1>1, <1>5, <2>1 DEF WrittenInv
  <2>3. post[r].job \in Jobs
    BY <1>5, <2>1 DEF IInv, HandedInv, TypeOK
  <2> QED
    BY <1>1, <2>1, <2>2, <2>3
<1>6. ASSUME NEW r \in Posts, NEW s \in Posts, post'[r].pc # "free", post'[s].pc # "free",
             post'[r].job = post'[s].job
      PROVE  r = s
  BY <1>1, <1>6 DEF WrittenInv
<1>7. \A i \in Jobs : code'[i] # NoCode => \E p \in Pollers : runs'[p][i] > 0
  BY <1>1, <1>3 DEF WrittenInv
<1>8. \A i \in Jobs : code[i] # NoCode => code'[i] = code[i]
  BY <1>1, <1>2
<1> QED
  BY <1>4, <1>5, <1>6, <1>7, <1>8 DEF WrittenInv

(* Every other step sends no result and writes none. *)
LEMMA WrittenElse ==
    ASSUME TypeOK, IInv, WrittenInv, Next,
           ~\E p \in Pollers : RunJob(p),
           ~\E p \in Pollers, q \in Posts : PostResult(p, q),
           ~\E q \in Posts : FinishWrite(q)
    PROVE  WrittenInv' /\ UNCHANGED code
<1>1. UNCHANGED code
  BY CodeKept
<1>2. UNCHANGED runs
  BY RunsFrame
<1>3. \A q \in Posts : post'[q].pc # "free" => post[q].pc # "free" /\ post'[q].job = post[q].job
  BY PostMoves
<1>4. \A p \in Pollers : poller'[p].pc = "posting" => poller'[p] = poller[p]
  BY PostingKept
<1> QED
  BY <1>1, <1>2, <1>3, <1>4 DEF WrittenInv

LEMMA WrittenNext ==
    ASSUME TypeOK, IInv, OneProcess, WrittenInv, [Next]_vars
    PROVE  /\ WrittenInv'
           /\ \A j \in Jobs : code[j] # NoCode => code'[j] = code[j]
<1>1. CASE \E p \in Pollers : RunJob(p)
  BY <1>1, WrittenRun DEF RunJob, rowVars
<1>2. CASE \E p \in Pollers, q \in Posts : PostResult(p, q)
  BY <1>2, WrittenPost DEF PostResult, rowVars
<1>3. CASE \E q \in Posts : FinishWrite(q)
  BY <1>3, WrittenFinish
<1>4. CASE UNCHANGED vars
  BY <1>4 DEF vars, WrittenInv
<1> QED
  BY <1>1, <1>2, <1>3, <1>4, WrittenElse

(* With one agent process, which the flock of audit_agent.sh ensures, the  *)
(* exit code an editor may have read is never replaced: results are posted *)
(* once, so that a late one meets no other.                                *)
THEOREM ResultsStayStored == OneProcess => (Spec => ResultStable)
<1> SUFFICES ASSUME OneProcess
             PROVE  Spec => ResultStable
  OBVIOUS
<1>1. Init => WrittenInv
  BY DEF Init, WrittenInv, IdlePoller, FreePost
<1>2. TypeOK /\ IInv /\ WrittenInv /\ [Next]_vars => WrittenInv'
  BY WrittenNext
<1>3. TypeOK /\ IInv /\ WrittenInv /\ [Next]_vars
        => [\A j \in Jobs : code[j] # NoCode => code'[j] = code[j]]_vars
  BY WrittenNext
<1> QED
  BY <1>1, <1>2, <1>3, Invariance, PTL DEF Spec, ResultStable

-------------------------------------------------------------------------------
(* QueueBound: the jobs that wait or will wait again, and the editors that *)
(* are about to insert one, only grow by an editor's check of the limit.   *)
Closed == {"done", "failed", "expired"}
Busy == {e \in Editors : editor[e].pc # "idle"}
Open == Waiting \cup Reopening

FiniteRequests ==
    /\ IsFiniteSet(Editors) /\ IsFiniteSet(Calls)
    /\ Calls # {}
    /\ QueueMax # 0

(* The request that was the last to choose a job still holds it pending,   *)
(* for only another directive request could have leased it.                *)
RoomInv ==
    (\A c \in Calls : call[c].pc = "read") =>
        \E c \in Calls : call[c].job = NoJob \/ status[call[c].job] \in {"pending", "gone"}
LimitInv ==
    Cardinality(Open) + Cardinality(Busy)
      <= QueueMax - 1 + Cardinality(Editors) + Cardinality(Calls) - 1

(* A pending row stays pending until it is leased or gone with its host.   *)
LEMMA PendingStays ==
    ASSUME TypeOK, IInv, Next, ~\E c \in Calls : LeaseCommit(c),
           NEW j \in Jobs, status[j] \in {"pending", "gone"}
    PROVE  status'[j] \in {"pending", "gone"}
<1>1. ASSUME NEW e \in Editors, EditorStep(e)
      PROVE  status'[j] = status[j] \/ status'[j] = "pending"
  BY <1>1 DEF EditorStep, EnqueueCheck, EnqueueFlush, EnqueueCommit, EnqueueAbort,
     rowVars, TypeOK
<1>2. ASSUME NEW q \in Posts, FinishWrite(q)
      PROVE  status'[j] = status[j]
  <2>1. post[q].job \in handed /\ status[post[q].job] # "gone"
    BY <1>2 DEF FinishWrite, IInv, HandedInv
  <2>2. post[q].job # j
    BY <2>1 DEF IInv, HandedInv
  <2> QED
    BY <1>2, <2>2 DEF FinishWrite, TypeOK
<1>3. CASE DeleteHost
  BY <1>3, DeletedRows
<1>4. CASE SetEnabled
  BY <1>4 DEF SetEnabled, rowVars
<1> QED
  BY <1>1, <1>2, <1>3, <1>4, QuietSteps

LEMMA RoomNext ==
    ASSUME TypeOK, IInv, RoomInv, Next
    PROVE  RoomInv'
<1> SUFFICES ASSUME \A c \in Calls : call'[c].pc = "read"
             PROVE  \E c \in Calls :
                      call'[c].job = NoJob \/ status'[call'[c].job] \in {"pending", "gone"}
  BY DEF RoomInv
<1>1. ~\E c \in Calls : LeaseCommit(c)
  <2> SUFFICES ASSUME NEW c \in Calls, LeaseCommit(c)
               PROVE  FALSE
    OBVIOUS
  <2> QED
    BY DEF LeaseCommit, Answer, CallAt, TypeOK
<1>2. CASE \A c \in Calls : call'[c] = call[c]
  <2>1. PICK c \in Calls : call[c].job = NoJob \/ status[call[c].job] \in {"pending", "gone"}
    BY <1>2 DEF RoomInv
  <2>2. CASE call[c].job = NoJob
    BY <1>2, <2>2
  <2>3. CASE call[c].job # NoJob
    <3>1. call[c].job \in Jobs
      BY <2>3 DEF TypeOK, Call
    <3> QED
      BY <1>1, <1>2, <2>1, <2>3, <3>1, PendingStays
  <2> QED
    BY <2>2, <2>3
<1>3. ASSUME NEW c \in Calls, call'[c] # call[c]
      PROVE  call'[c].job = NoJob \/ status'[call'[c].job] \in {"pending", "gone"}
  <2>1. CallCleared(c) \/ CallChose(c)
    BY <1>3, CallMoves DEF CallMove, CallLeased
  <2>2. CASE CallChose(c) /\ call'[c].job # NoJob
    <3>1. Pending \in SUBSET Jobs /\ call'[c].job = Oldest(Pending) /\ Pending # {}
      BY <2>2 DEF CallChose, Pending
    <3>2. call'[c].job \in Pending
      BY <3>1, OldestIsLeast
    <3> QED
      BY <2>2, <3>2 DEF CallChose, Pending
  <2> QED
    BY <2>1, <2>2 DEF CallCleared
<1> QED
  BY <1>2, <1>3

(* Fewer jobs than requests will be reopened. *)
LEMMA ReopeningIsSmall ==
    ASSUME TypeOK, RoomInv, FiniteRequests
    PROVE  /\ IsFiniteSet(Reopening)
           /\ Cardinality(Reopening) \in Nat /\ Cardinality(Calls) \in Nat
           /\ Cardinality(Reopening) <= Cardinality(Calls) - 1
<1> DEFINE readers == {c \in Calls : call[c].pc = "read" /\ call[c].job \in Reopening}
           chosen == [c \in readers |-> call[c].job]
<1>1. readers # Calls
  <2> SUFFICES ASSUME readers = Calls
               PROVE  FALSE
    OBVIOUS
  <2>1. \A c \in Calls : call[c].pc = "read" /\ call[c].job \in Reopening
    OBVIOUS
  <2>2. PICK c \in Calls : call[c].job = NoJob \/ status[call[c].job] \in {"pending", "gone"}
    BY <2>1 DEF RoomInv
  <2> QED
    BY <2>1, <2>2, NoJobNotJob DEF Reopening
<1>2. /\ IsFiniteSet(readers)
      /\ Cardinality(readers) \in Nat /\ Cardinality(Calls) \in Nat
      /\ Cardinality(readers) <= Cardinality(Calls)
      /\ Cardinality(readers) # Cardinality(Calls)
  BY <1>1, FS_Subset, FS_CardinalityType DEF FiniteRequests
<1>3. chosen \in Surjection(readers, Reopening)
  <2>1. chosen \in [readers -> Reopening]
    OBVIOUS
  <2>2. \A j \in Reopening : \E c \in readers : chosen[c] = j
    BY DEF Reopening
  <2> QED
    BY <2>1, <2>2 DEF Surjection
<1> HIDE DEF readers, chosen
<1>4. IsFiniteSet(Reopening) /\ Cardinality(Reopening) <= Cardinality(readers)
  BY <1>2, <1>3, FS_Surjection
<1> QED
  BY <1>2, <1>4, FS_CardinalityType

(* A job that will be reopened after a step is open before it. *)
LEMMA ReopeningWasOpen ==
    ASSUME TypeOK, IInv, Next, NEW j \in Reopening'
    PROVE  j \in Open
<1>1. j \in Jobs /\ status'[j] \in Closed
  BY DEF Reopening, Closed
<1>2. PICK c \in Calls : call'[c].pc = "read" /\ call'[c].job = j
  BY DEF Reopening
<1>3. call'[c] = call[c]
  <2>1. ~CallCleared(c)
    BY <1>1, <1>2, NoJobNotJob DEF CallCleared
  <2>2. ~CallChose(c)
    <3> SUFFICES ASSUME CallChose(c)
                 PROVE  FALSE
      OBVIOUS
    <3>1. Pending \in SUBSET Jobs /\ j = Oldest(Pending) /\ Pending # {} /\ UNCHANGED status
      BY <1>1, <1>2, NoJobNotJob DEF CallChose, Pending
    <3>2. j \in Pending
      BY <3>1, OldestIsLeast
    <3> QED
      BY <1>1, <3>1, <3>2 DEF Pending, Closed
  <2> QED
    BY <1>2, <2>1, <2>2, CallMoves DEF CallMove, CallLeased
<1>4. status[j] \in {"pending", "leased"} \cup Closed
  BY <1>1, RowMoves, DeletedRows DEF RowMove, RowInserted, RowUpdated, Closed, TypeOK, Status
<1> QED
  BY <1>1, <1>2, <1>3, <1>4 DEF Open, Waiting, Reopening, Closed

(* A job that waits after a step is open before it, unless it is inserted. *)
LEMMA WaitingWasOpen ==
    ASSUME TypeOK, IInv, Next, NEW j \in Waiting',
           ~\E e \in Editors : EnqueueCommit(e) /\ editor[e].job = j
    PROVE  j \in Open
<1>1. j \in Jobs /\ status'[j] \in {"pending", "leased"}
  BY DEF Waiting
<1>2. ASSUME NEW c \in Calls, LeaseCommit(c)
      PROVE  j \in Open
  <2>1. call[c].pc = "read" /\ status'[j] = LeasedRows(call[c].hold, call[c].job)[j]
    BY <1>2 DEF LeaseCommit
  <2>2. CASE j = call[c].job
    <3>1. status[j] \notin {"absent", "gone"}
      BY <1>1, <1>2, <2>1, <2>2, NoJobNotJob DEF LeaseCommit, IInv, OrderInv
    <3> QED
      BY <1>1, <2>1, <2>2, <3>1 DEF Open, Waiting, Reopening, TypeOK, Status
  <2>3. CASE j # call[c].job
    BY <1>1, <2>1, <2>3 DEF LeasedRows, Open, Waiting
  <2> QED
    BY <2>2, <2>3
<1>3. ASSUME NEW q \in Posts, FinishWrite(q)
      PROVE  status'[j] = status[j]
  BY <1>1, <1>3 DEF FinishWrite, FinishStatus, TypeOK
<1>4. ASSUME NEW e \in Editors, EditorStep(e)
      PROVE  status'[j] = status[j]
  <2>1. CASE EnqueueCommit(e)
    <3>1. editor[e].job # j /\ status' = [status EXCEPT ![editor[e].job] = "pending"]
      BY <2>1 DEF EnqueueCommit
    <3> QED
      BY <1>1, <3>1 DEF TypeOK
  <2> QED
    BY <1>4, <2>1 DEF EditorStep, EnqueueCheck, EnqueueFlush, EnqueueAbort, rowVars
<1>5. SetEnabled => status'[j] = status[j]
  BY DEF SetEnabled, rowVars
<1>6. ~DeleteHost
  BY <1>1, DeletedRows
<1>7. status'[j] = status[j] => j \in Open
  BY <1>1 DEF Open, Waiting
<1> QED
  BY <1>2, <1>3, <1>4, <1>5, <1>6, <1>7, QuietSteps

(* Without a check of the limit no more editors are at work, and only a    *)
(* commit lets a job wait.                                                 *)
LEMMA BusyShrinks ==
    ASSUME TypeOK, Next, ~\E e \in Editors : EnqueueCheck(e)
    PROVE  Busy' \subseteq Busy
<1>1. ASSUME NEW e \in Editors, EditorStep(e)
      PROVE  editor[e].pc # "idle" /\ \A f \in Editors \ {e} : editor'[f] = editor[f]
  BY <1>1 DEF EditorStep, EnqueueFlush, EnqueueCommit, EnqueueAbort, TypeOK
<1>2. UNCHANGED editor => Busy' = Busy
  BY DEF Busy
<1>3. UNCHANGED editor \/ \E e \in Editors : EditorStep(e)
  BY QuietSteps DEF SetEnabled, DeleteHost, LeaseCommit, FinishWrite
<1> QED
  BY <1>1, <1>2, <1>3 DEF Busy

LEMMA OpenGrows ==
    ASSUME TypeOK, IInv, NEW e \in Editors, EnqueueCommit(e)
    PROVE  /\ Open' \subseteq Open \cup {editor[e].job}
           /\ e \in Busy /\ Busy' = Busy \ {e}
<1>1. Next /\ editor[e].pc = "flushed"
  BY DEF Next, EditorStep, EnqueueCommit
<1>2. ASSUME NEW f \in Editors, EnqueueCommit(f)
      PROVE  editor[f].job = editor[e].job
  BY <1>1, <1>2 DEF EnqueueCommit, IInv, IdInv, TypeOK
<1>3. Open' \subseteq Open \cup {editor[e].job}
  BY <1>1, <1>2, WaitingWasOpen, ReopeningWasOpen DEF Open
<1>4. e \in Busy /\ Busy' = Busy \ {e}
  BY <1>1 DEF EnqueueCommit, Busy, IdleEditor, TypeOK
<1> QED
  BY <1>3, <1>4

LEMMA OpenSizes ==
    ASSUME TypeOK, FiniteRequests
    PROVE  /\ IsFiniteSet(Open) /\ IsFiniteSet(Busy)
           /\ Cardinality(Open) \in Nat /\ Cardinality(Busy) \in Nat
           /\ Cardinality(Editors) \in Nat /\ Cardinality(Calls) \in Nat \ {0}
           /\ Cardinality(Busy) <= Cardinality(Editors)
           /\ Cardinality(Open) = Cardinality(Waiting) + Cardinality(Reopening)
           /\ Cardinality(Waiting) \in Nat /\ Cardinality(Reopening) \in Nat
<1>1. IsFiniteSet(Jobs)
  BY FS_Interval, BoundAssumption DEF Jobs
<1>2. Waiting \in SUBSET Jobs /\ Reopening \in SUBSET Jobs /\ Busy \in SUBSET Editors
  BY DEF Waiting, Reopening, Busy
<1>3. /\ IsFiniteSet(Waiting) /\ IsFiniteSet(Reopening) /\ IsFiniteSet(Busy)
      /\ Cardinality(Busy) <= Cardinality(Editors)
  BY <1>1, <1>2, FS_Subset DEF FiniteRequests
<1>4. Waiting \cap Reopening = {}
  BY DEF Waiting, Reopening
<1>5. /\ IsFiniteSet(Open)
      /\ Cardinality(Open)
           = Cardinality(Waiting) + Cardinality(Reopening) - Cardinality(Waiting \cap Reopening)
  BY <1>3, FS_Union DEF Open
<1>6. Cardinality(Waiting \cap Reopening) = 0
  BY <1>4, FS_EmptySet
<1>7. /\ Cardinality(Waiting) \in Nat /\ Cardinality(Reopening) \in Nat
      /\ Cardinality(Busy) \in Nat /\ Cardinality(Editors) \in Nat /\ Cardinality(Calls) \in Nat
  BY <1>3, FS_CardinalityType DEF FiniteRequests
<1>8. Cardinality(Calls) # 0
  BY FS_EmptySet DEF FiniteRequests
<1> QED
  BY <1>3, <1>5, <1>6, <1>7, <1>8

(* EnqueueCheck: the limit was looked at, the other editors may be past it *)
(* already, and not every request holds a closed job.                      *)
LEMMA LimitCheck ==
    ASSUME TypeOK, RoomInv, FiniteRequests, NEW e \in Editors, EnqueueCheck(e), TypeOK'
    PROVE  LimitInv'
<1>1. Open' = Open /\ Cardinality(Waiting) < QueueMax
  BY DEF EnqueueCheck, Open, Waiting, Reopening, rowVars
<1>2. Cardinality(Reopening) <= Cardinality(Calls) - 1
  BY ReopeningIsSmall
<1>3. Busy' \in SUBSET Editors
  BY DEF Busy
<1>4. Cardinality(Busy') \in Nat /\ Cardinality(Busy') <= Cardinality(Editors)
  BY <1>3, FS_Subset, FS_CardinalityType DEF FiniteRequests
<1>5. Cardinality(Open') + Cardinality(Busy')
        <= QueueMax - 1 + Cardinality(Editors) + Cardinality(Calls) - 1
  BY <1>1, <1>2, <1>4, OpenSizes, BoundAssumption
<1> QED
  BY <1>5 DEF LimitInv

LEMMA LimitNext ==
    ASSUME TypeOK, IInv, RoomInv, LimitInv, FiniteRequests, Next
    PROVE  LimitInv'
<1>1. CASE \E e \in Editors : EnqueueCheck(e)
  BY <1>1, NextType, LimitCheck
<1>2. CASE \E e \in Editors : EnqueueCommit(e)
  <2>1. PICK e \in Editors : EnqueueCommit(e)
    BY <1>2
  <2> DEFINE more == Open \cup {editor[e].job}
  <2>2. Open' \in SUBSET more /\ e \in Busy /\ Busy' = Busy \ {e}
    BY <2>1, OpenGrows
  <2>3. IsFiniteSet(more) /\ Cardinality(more) \in Nat
        /\ Cardinality(more) <= Cardinality(Open) + 1
    <3>1. /\ IsFiniteSet(more)
          /\ Cardinality(more)
               = IF editor[e].job \in Open THEN Cardinality(Open) ELSE Cardinality(Open) + 1
      BY OpenSizes, FS_AddElement
    <3> HIDE DEF more
    <3> QED
      BY <3>1, OpenSizes
  <2> HIDE DEF more
  <2>4. Cardinality(Open') <= Cardinality(more) /\ Cardinality(Open') \in Nat
    BY <2>2, <2>3, FS_Subset, FS_CardinalityType
  <2>5. Cardinality(Busy') = Cardinality(Busy) - 1
    BY <2>2, OpenSizes, FS_RemoveElement
  <2>6. Cardinality(Open') + Cardinality(Busy') <= Cardinality(Open) + Cardinality(Busy)
    BY <2>3, <2>4, <2>5, OpenSizes
  <2>7. Cardinality(Open') + Cardinality(Busy')
          <= QueueMax - 1 + Cardinality(Editors) + Cardinality(Calls) - 1
    BY <2>4, <2>5, <2>6, OpenSizes, BoundAssumption DEF LimitInv
  <2> QED
    BY <2>7 DEF LimitInv
<1>3. CASE ~(\E e \in Editors : EnqueueCheck(e)) /\ ~(\E e \in Editors : EnqueueCommit(e))
  <2>1. Open' \in SUBSET Open /\ Busy' \in SUBSET Busy
    BY <1>3, WaitingWasOpen, ReopeningWasOpen, BusyShrinks DEF Open
  <2>2. /\ Cardinality(Open') <= Cardinality(Open) /\ Cardinality(Open') \in Nat
        /\ Cardinality(Busy') <= Cardinality(Busy) /\ Cardinality(Busy') \in Nat
    BY <2>1, OpenSizes, FS_Subset, FS_CardinalityType
  <2>3. Cardinality(Open') + Cardinality(Busy')
          <= QueueMax - 1 + Cardinality(Editors) + Cardinality(Calls) - 1
    BY <2>2, OpenSizes, BoundAssumption DEF LimitInv
  <2> QED
    BY <2>3 DEF LimitInv
<1> QED
  BY <1>1, <1>2, <1>3

LEMMA LimitInit ==
    ASSUME Init, FiniteRequests
    PROVE  RoomInv /\ LimitInv
<1>1. RoomInv
  BY DEF Init, RoomInv, CallAt, FiniteRequests
<1>2. Open = {} /\ Busy = {}
  BY DEF Init, Open, Waiting, Reopening, Busy, IdleEditor
<1>3. Cardinality({}) = 0
  BY FS_EmptySet
<1>4. Cardinality(Open) + Cardinality(Busy)
        <= QueueMax - 1 + Cardinality(Editors) + Cardinality(Calls) - 1
  <2>1. Cardinality(Editors) \in Nat /\ Cardinality(Calls) \in Nat \ {0}
    BY InitType, OpenSizes
  <2>2. QueueMax \in Nat \ {0}
    BY BoundAssumption DEF FiniteRequests
  <2>3. 0 + 0 <= QueueMax - 1 + Cardinality(Editors) + Cardinality(Calls) - 1
    BY <2>1, <2>2
  <2> QED
    BY <1>2, <1>3, <2>3
<1> QED
  BY <1>1, <1>4 DEF LimitInv

LEMMA LimitStep ==
    ASSUME TypeOK, IInv, RoomInv, LimitInv, FiniteRequests, [Next]_vars
    PROVE  RoomInv' /\ LimitInv'
<1>1. CASE Next
  BY <1>1, RoomNext, LimitNext
<1>2. CASE UNCHANGED vars
  <2>1. UNCHANGED <<status, editor, call>>
    BY <1>2 DEF vars
  <2> QED
    BY <2>1 DEF RoomInv, LimitInv, Open, Waiting, Reopening, Busy
<1> QED
  BY <1>1, <1>2

(* The limit of waiting jobs is passed by one per editor that counted      *)
(* before another one committed and by one per directive request that will *)
(* lease a closed job, and never by more, whatever the limit is.           *)
THEOREM QueueStaysBounded == FiniteRequests => (Spec => []QueueBound)
<1> SUFFICES ASSUME FiniteRequests
             PROVE  Spec => []QueueBound
  OBVIOUS
<1>1. Init => RoomInv /\ LimitInv
  BY LimitInit
<1>2. TypeOK /\ IInv /\ RoomInv /\ LimitInv /\ [Next]_vars => (RoomInv /\ LimitInv)'
  BY LimitStep
<1>3. TypeOK /\ LimitInv => QueueBound
  <2> SUFFICES ASSUME TypeOK, LimitInv
               PROVE  QueueBound
    OBVIOUS
  <2>1. Cardinality(Waiting) + Cardinality(Busy) + Cardinality(Reopening)
          <= QueueMax - 1 + Cardinality(Editors) + Cardinality(Calls) - 1
    BY OpenSizes, BoundAssumption DEF LimitInv
  <2> QED
    BY <2>1 DEF QueueBound, Waiting, Busy
<1> QED
  BY <1>1, <1>2, <1>3, Invariance, PTL DEF Spec

-------------------------------------------------------------------------------
(***************************************************************************)
(* AuditJobs implements JobDispatch, for every value of the constants:     *)
(* each step of an editor, a request or an agent process is one step of    *)
(* the abstract queue or leaves it alone.                                  *)
(***************************************************************************)

Drafted(j) == \E e \in Editors : editor[e].pc = "flushed" /\ editor[e].job = j

-------------------------------------------------------------------------------
(* The stage of a job from the row, the editors and the hand-outs. *)
LEMMA StageKept ==
    ASSUME NEW j \in Jobs,
           j \in handed' <=> j \in handed,
           status'[j] = "absent" <=> status[j] = "absent",
           Drafted(j)' <=> Drafted(j)
    PROVE  StageOf(j)' = StageOf(j)
BY DEF StageOf, Drafted

LEMMA StageCases ==
    ASSUME NEW j \in Jobs
    PROVE  /\ j \in handed => StageOf(j) = "handed"
           /\ j \notin handed /\ status[j] # "absent" => StageOf(j) = "queued"
           /\ j \notin handed /\ status[j] = "absent" /\ Drafted(j) => StageOf(j) = "drafted"
           /\ j \notin handed /\ status[j] = "absent" /\ ~Drafted(j) => StageOf(j) = "none"
BY DEF StageOf, Drafted

LEMMA StageCasesNext ==
    ASSUME NEW j \in Jobs
    PROVE  /\ j \in handed' => StageOf(j)' = "handed"
           /\ j \notin handed' /\ status'[j] # "absent" => StageOf(j)' = "queued"
           /\ j \notin handed' /\ status'[j] = "absent" /\ Drafted(j)' => StageOf(j)' = "drafted"
           /\ j \notin handed' /\ status'[j] = "absent" /\ ~Drafted(j)' => StageOf(j)' = "none"
BY DEF StageOf, Drafted

(* A step that moves one stage alone is an update of the stage function. *)
LEMMA OneStage ==
    ASSUME NEW j \in Jobs, NEW new, StageOf(j)' = new,
           \A i \in Jobs \ {j} : StageOf(i)' = StageOf(i)
    PROVE  [i \in Jobs |-> StageOf(i)]' = [[i \in Jobs |-> StageOf(i)] EXCEPT ![j] = new]
<1> DEFINE before == [i \in Jobs |-> StageOf(i)]
<1>1. [i \in Jobs |-> StageOf(i)]' = [i \in Jobs |-> StageOf(i)']
  OBVIOUS
<1>2. \A i \in Jobs : StageOf(i)' = [before EXCEPT ![j] = new][i]
  OBVIOUS
<1> QED
  BY <1>1, <1>2

LEMMA NoStage ==
    ASSUME \A i \in Jobs : StageOf(i)' = StageOf(i)
    PROVE  [i \in Jobs |-> StageOf(i)]' = [i \in Jobs |-> StageOf(i)]
OBVIOUS

-------------------------------------------------------------------------------
LEMMA RefineInit == Init => Dispatch!Init
BY DEF Init, Dispatch!Init, StageOf, IdleEditor

LEMMA RefineEditor ==
    ASSUME TypeOK, IInv, NEW e \in Editors, EditorStep(e)
    PROVE  Dispatch!Next \/ UNCHANGED Dispatch!vars
<1>1. CASE EnqueueCheck(e)
  <2>1. \A i \in Jobs : StageOf(i)' = StageOf(i)
    <3>1. \A i \in Jobs : Drafted(i)' <=> Drafted(i)
      BY <1>1 DEF EnqueueCheck, Drafted, TypeOK
    <3> QED
      BY <1>1, <3>1, StageKept DEF EnqueueCheck, rowVars, ghostVars
  <2> QED
    BY <1>1, <2>1, NoStage DEF EnqueueCheck, Dispatch!vars, ghostVars
<1>2. CASE EnqueueFlush(e)
  <2>0. PICK new \in Jobs : new = nextId
    BY <1>2 DEF EnqueueFlush
  <2>1. /\ editor[e].pc = "checked"
        /\ editor' = [editor EXCEPT ![e] = [pc |-> "flushed", job |-> new]]
        /\ ahead' = [ahead EXCEPT ![new] = Committed]
        /\ UNCHANGED <<host, status, handed, runs>>
    BY <1>2, <2>0 DEF EnqueueFlush, rowVars
  <2>2. status[new] = "absent" /\ new \notin handed /\ ~Drafted(new)
    BY <2>0, BoundAssumption DEF IInv, IdInv, HandedInv, Drafted, Jobs
  <2>3. Drafted(new)'
    BY <2>1 DEF Drafted, TypeOK
  <2>4. \A i \in Jobs \ {new} : Drafted(i)' <=> Drafted(i)
    BY <2>1 DEF Drafted, TypeOK
  <2>5. StageOf(new) = "none" /\ StageOf(new)' = "drafted"
    BY <2>1, <2>2, <2>3, StageCases, StageCasesNext
  <2>6. \A i \in Jobs \ {new} : StageOf(i)' = StageOf(i)
    BY <2>1, <2>4, StageKept
  <2>7. Dispatch!Queued = Committed
    <3>1. \A i \in Jobs : StageOf(i) \in {"queued", "handed"} <=> status[i] # "absent"
      BY StageCases DEF IInv, HandedInv
    <3> QED
      BY <3>1 DEF Dispatch!Queued, Committed
  <2>8. Dispatch!Draft(new)
    BY <2>1, <2>5, <2>6, <2>7, OneStage DEF Dispatch!Draft
  <2> QED
    BY <2>1, <2>8 DEF Dispatch!Next
<1>3. CASE EnqueueCommit(e)
  <2>0. editor[e].job \in Jobs
    BY <1>3 DEF EnqueueCommit, IInv, IdInv
  <2>a. PICK job \in Jobs : job = editor[e].job
    BY <2>0
  <2>1. /\ editor[e].pc = "flushed"
        /\ editor' = [editor EXCEPT ![e] = [pc |-> "idle", job |-> NoJob]]
        /\ status' = [status EXCEPT ![job] = "pending"]
        /\ UNCHANGED <<host, ahead, handed, runs>>
    BY <1>3, <2>a DEF EnqueueCommit, IdleEditor, ghostVars
  <2>2. status[job] = "absent" /\ job \notin handed /\ host # "deleted" /\ Drafted(job)
    BY <2>1, <2>a DEF IInv, IdInv, HandedInv, Drafted
  <2>3. StageOf(job) = "drafted" /\ StageOf(job)' = "queued"
    BY <2>1, <2>2, StageCases, StageCasesNext DEF TypeOK
  <2>4. \A i \in Jobs \ {job} : Drafted(i)' <=> Drafted(i)
    BY <2>1, <2>a DEF Drafted, TypeOK
  <2>5. \A i \in Jobs \ {job} : StageOf(i)' = StageOf(i)
    BY <2>1, <2>4, StageKept DEF TypeOK
  <2>6. Dispatch!Queue(job)
    BY <2>1, <2>2, <2>3, <2>5, OneStage DEF Dispatch!Queue
  <2> QED
    BY <2>6 DEF Dispatch!Next
<1>4. CASE EnqueueAbort(e)
  <2>1. /\ editor' = [editor EXCEPT ![e] = [pc |-> "idle", job |-> NoJob]]
        /\ UNCHANGED <<host, status, ahead, handed, runs>>
    BY <1>4 DEF EnqueueAbort, IdleEditor, rowVars, ghostVars
  <2>2. CASE editor[e].pc = "flushed"
    <3>0. editor[e].job \in Jobs
      BY <2>2 DEF IInv, IdInv
    <3>a. PICK job \in Jobs : job = editor[e].job
      BY <3>0
    <3>1. status[job] = "absent" /\ job \notin handed /\ Drafted(job)
      BY <2>2, <3>a DEF IInv, IdInv, HandedInv, Drafted
    <3>2. ~Drafted(job)'
      BY <2>1, <2>2, <3>a DEF Drafted, TypeOK, IInv, IdInv
    <3>3. StageOf(job) = "drafted" /\ StageOf(job)' = "none"
      BY <2>1, <3>1, <3>2, StageCases, StageCasesNext
    <3>4. \A i \in Jobs \ {job} : Drafted(i)' <=> Drafted(i)
      BY <2>1, <3>a DEF Drafted, TypeOK
    <3>5. \A i \in Jobs \ {job} : StageOf(i)' = StageOf(i)
      BY <2>1, <3>4, StageKept
    <3>6. Dispatch!Discard(job)
      BY <2>1, <3>3, <3>5, OneStage DEF Dispatch!Discard
    <3> QED
      BY <3>6 DEF Dispatch!Next
  <2>3. CASE editor[e].pc # "flushed"
    <3>1. \A i \in Jobs : Drafted(i)' <=> Drafted(i)
      BY <2>1, <2>3 DEF Drafted, TypeOK
    <3>2. \A i \in Jobs : StageOf(i)' = StageOf(i)
      BY <2>1, <3>1, StageKept
    <3> QED
      BY <2>1, <3>2, NoStage DEF Dispatch!vars
  <2> QED
    BY <2>2, <2>3
<1> QED
  BY <1>1, <1>2, <1>3, <1>4 DEF EditorStep

LEMMA RefineDelete ==
    ASSUME TypeOK, IInv, DeleteHost
    PROVE  Dispatch!Next
<1>1. UNCHANGED <<editor, ahead, handed, runs>> /\ host # "deleted" /\ host' = "deleted"
  BY DEF DeleteHost, ghostVars
<1>2. \A i \in Jobs : Drafted(i)' <=> Drafted(i)
  BY <1>1 DEF Drafted
<1>3. \A i \in Jobs : StageOf(i)' = StageOf(i)
  BY <1>1, <1>2, StageKept, DeletedRows
<1>4. Dispatch!Withdraw
  BY <1>1, <1>3, NoStage DEF Dispatch!Withdraw
<1> QED
  BY <1>4 DEF Dispatch!Next

LEMMA RefineLease ==
    ASSUME TypeOK, IInv, NEW c \in Calls, LeaseCommit(c)
    PROVE  Dispatch!Next \/ UNCHANGED Dispatch!vars
<1>0. PICK job \in Jobs \cup {NoJob} : job = call[c].job
  BY DEF TypeOK, Call
<1>1. /\ UNCHANGED <<host, editor, ahead, runs>>
      /\ handed' = handed \cup ({job} \ {NoJob})
      /\ call[c].pc = "read"
      /\ job # NoJob => status[job] # "gone"
  BY <1>0 DEF LeaseCommit
<1>2. \A i \in Jobs : status'[i] = "absent" <=> status[i] = "absent"
  BY LeaseCommitRows DEF RowUpdated
<1>3. \A i \in Jobs : Drafted(i)' <=> Drafted(i)
  BY <1>1 DEF Drafted
<1>4. CASE job \in handed \/ job = NoJob
  <2>1. handed' = handed
    BY <1>1, <1>4
  <2>2. \A i \in Jobs : StageOf(i)' = StageOf(i)
    BY <1>2, <1>3, <2>1, StageKept
  <2> QED
    BY <1>1, <2>2, NoStage DEF Dispatch!vars
<1>5. CASE job \notin handed /\ job # NoJob
  <2>1. job \in Jobs
    BY <1>5
  <2>2. status[job] # "absent" /\ host # "deleted" /\ \A i \in ahead[job] : status[i] # "pending"
    BY <1>0, <1>1, <1>5, <2>1 DEF IInv, OrderInv, GoneInv
  <2>3. \A i \in ahead[job] : StageOf(i) = "handed" /\ i \in Jobs
    <3>1. ASSUME NEW i \in ahead[job]
          PROVE  i \in Jobs /\ i \in handed
      <4>1. i \in Jobs /\ status[i] \in Status
        BY <2>1 DEF TypeOK
      <4>2. status[i] \notin {"absent", "pending", "gone"}
        BY <2>1, <2>2, <4>1 DEF IInv, IdInv, GoneInv
      <4>3. status[i] \in {"leased", "done", "failed", "expired"}
        BY <4>1, <4>2 DEF Status
      <4> QED
        BY <4>1, <4>3 DEF IInv, HandedInv
    <3> QED
      BY <3>1, StageCases
  <2>4. StageOf(job) = "queued" /\ StageOf(job)' = "handed"
    BY <1>1, <1>5, <2>1, <2>2, StageCases, StageCasesNext
  <2>5. \A i \in Jobs \ {job} : StageOf(i)' = StageOf(i)
    BY <1>1, <1>2, <1>3, StageKept
  <2>6. Dispatch!HandOut(job)
    BY <1>1, <2>1, <2>2, <2>3, <2>4, <2>5, OneStage DEF Dispatch!HandOut
  <2> QED
    BY <2>1, <2>6 DEF Dispatch!Next
<1> QED
  BY <1>4, <1>5

LEMMA RefineRun ==
    ASSUME TypeOK, IInv, NEW p \in Pollers, RunJob(p)
    PROVE  Dispatch!Next
<1> DEFINE job == poller[p].body
<1>1. UNCHANGED <<host, status, editor, ahead, handed>>
  BY DEF RunJob, rowVars
<1>2. job \in Jobs /\ job \in handed /\ runs[p][job] = 0
  BY RunJobFacts
<1>3. \A i \in Jobs : StageOf(i)' = StageOf(i)
  <2>1. \A i \in Jobs : Drafted(i)' <=> Drafted(i)
    BY <1>1 DEF Drafted
  <2> QED
    BY <1>1, <2>1, StageKept
<1>4. StageOf(job) = "handed"
  BY <1>2, StageCases
<1>5. runs' = [runs EXCEPT ![p][job] = 1]
  <2>1. runs' = [runs EXCEPT ![p] = [runs[p] EXCEPT ![job] = runs[p][job] + 1]]
    BY DEF RunJob, TypeOK
  <2>2. runs[p][job] + 1 = 1
    BY <1>2
  <2> QED
    BY <2>1, <2>2
<1>6. Dispatch!Run(p, job)
  BY <1>1, <1>2, <1>3, <1>4, <1>5, NoStage DEF Dispatch!Run
<1> QED
  BY <1>2, <1>6 DEF Dispatch!Next

(* Every other step leaves the abstract queue alone. *)
LEMMA RefineOther ==
    ASSUME TypeOK, IInv, UNCHANGED <<editor, ahead, handed, runs>>,
           host' = host \/ (host # "deleted" /\ host' # "deleted"),
           \A i \in Jobs : status'[i] = "absent" <=> status[i] = "absent"
    PROVE  UNCHANGED Dispatch!vars
<1>1. \A i \in Jobs : StageOf(i)' = StageOf(i)
  <2>1. \A i \in Jobs : Drafted(i)' <=> Drafted(i)
    BY DEF Drafted
  <2> QED
    BY <2>1, StageKept
<1> QED
  BY <1>1, NoStage DEF Dispatch!vars

LEMMA RefineNext == TypeOK /\ IInv /\ [Next]_vars => [Dispatch!Next]_(Dispatch!vars)
<1> SUFFICES ASSUME TypeOK, IInv, [Next]_vars
             PROVE  Dispatch!Next \/ UNCHANGED Dispatch!vars
  OBVIOUS
<1>1. CASE UNCHANGED vars
  BY <1>1, RefineOther DEF vars
<1>2. CASE Next
  <2>1. CASE \E p \in Pollers : RunJob(p)
    BY <2>1, RefineRun
  <2>2. CASE ~\E p \in Pollers : RunJob(p)
    <3>1. UNCHANGED runs
      BY <1>2, <2>2, RunsFrame
    <3>2. CASE SetEnabled
      BY <3>2, RefineOther DEF SetEnabled, rowVars, ghostVars
    <3>3. CASE \E q \in Posts : FinishWrite(q)
      <4>1. UNCHANGED <<host, editor, ahead, handed, runs>>
        BY <3>3 DEF FinishWrite, ghostVars
      <4>2. \A i \in Jobs : status'[i] = "absent" <=> status[i] = "absent"
        BY <3>3, FinishWriteRows DEF RowUpdated
      <4> QED
        BY <4>1, <4>2, RefineOther
    <3>4. CASE UNCHANGED <<host, status, nextId, editor, ahead, handed>>
      BY <3>1, <3>4, RefineOther
    <3> QED
      BY <1>2, <3>2, <3>3, <3>4, QuietSteps, RefineEditor, RefineDelete, RefineLease
  <2> QED
    BY <2>1, <2>2
<1> QED
  BY <1>1, <1>2

(* The queue implements the abstract one: handed out in order, run only    *)
(* after that and once per process, nothing more after the host is gone.   *)
THEOREM Implementation == Spec => ImplementsDispatch
<1>1. Init => Dispatch!Init
  BY RefineInit
<1>2. TypeOK /\ IInv /\ [Next]_vars => [Dispatch!Next]_(Dispatch!vars)
  BY RefineNext
<1> QED
  BY <1>1, <1>2, Invariance, PTL DEF Spec, ImplementsDispatch, Dispatch!Spec
=================================================================================
