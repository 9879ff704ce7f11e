------------------------------ MODULE JobDispatch ------------------------------
(***************************************************************************)
(* What the panel promises about the jobs of one audited Linux host,       *)
(* without the table, the leases, the retries or the transactions that     *)
(* keep the promise:                                                       *)
(*   - a job is handed out only after every job that was already queued    *)
(*     when it was written;                                                *)
(*   - a job is run only after it was handed out, and no agent process     *)
(*     runs it twice;                                                      *)
(*   - once the host row is deleted nothing more is handed out.            *)
(* AuditJobs implements this specification.                                *)
(***************************************************************************)
EXTENDS Naturals

CONSTANTS Jobs,      \* identities of the jobs of this host
          Agents     \* agent processes that poll under this host's name

VARIABLES stage,     \* stage[j]: how far job j has come
          ahead,     \* ahead[j]: the jobs already queued when j was written
          runs,      \* runs[a][j]: how often agent process a ran job j
          withdrawn  \* the host was deleted, its jobs with it

vars == <<stage, ahead, runs, withdrawn>>

Stage == {"none", "drafted", "queued", "handed"}

TypeOK ==
    /\ stage \in [Jobs -> Stage]
    /\ ahead \in [Jobs -> SUBSET Jobs]
    /\ runs \in [Agents -> [Jobs -> {0, 1}]]
    /\ withdrawn \in BOOLEAN

Queued == {j \in Jobs : stage[j] \in {"queued", "handed"}}

Init ==
    /\ stage = [j \in Jobs |-> "none"]
    /\ ahead = [j \in Jobs |-> {}]
    /\ runs = [a \in Agents |-> [j \in Jobs |-> 0]]
    /\ withdrawn = FALSE

(* An editor's transaction takes an identity for the job. *)
Draft(j) ==
    /\ stage[j] = "none"
    /\ stage' = [stage EXCEPT ![j] = "drafted"]
    /\ ahead' = [ahead EXCEPT ![j] = Queued]
    /\ UNCHANGED <<runs, withdrawn>>

(* The transaction rolls back. *)
Discard(j) ==
    /\ stage[j] = "drafted"
    /\ stage' = [stage EXCEPT ![j] = "none"]
    /\ UNCHANGED <<ahead, runs, withdrawn>>

(* The transaction commits: the job waits for the agent. *)
Queue(j) ==
    /\ stage[j] = "drafted"
    /\ ~withdrawn
    /\ stage' = [stage EXCEPT ![j] = "queued"]
    /\ UNCHANGED <<ahead, runs, withdrawn>>

(* The job leaves the queue towards the agent, in order. *)
HandOut(j) ==
    /\ stage[j] = "queued"
    /\ ~withdrawn
    /\ \A i \in ahead[j] : stage[i] = "handed"
    /\ stage' = [stage EXCEPT ![j] = "handed"]
    /\ UNCHANGED <<ahead, runs, withdrawn>>

(* An agent process runs a job it was handed. *)
Run(a, j) ==
    /\ stage[j] = "handed"
    /\ runs[a][j] = 0
    /\ runs' = [runs EXCEPT ![a][j] = 1]
    /\ UNCHANGED <<stage, ahead, withdrawn>>

(* The host row is deleted. *)
Withdraw ==
    /\ ~withdrawn
    /\ withdrawn' = TRUE
    /\ UNCHANGED <<stage, ahead, runs>>

Next ==
    \/ \E j \in Jobs : Draft(j) \/ Discard(j) \/ Queue(j) \/ HandOut(j)
    \/ \E a \in Agents, j \in Jobs : Run(a, j)
    \/ Withdraw

Spec == Init /\ [][Next]_vars
================================================================================
