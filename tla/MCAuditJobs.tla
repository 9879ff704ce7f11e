------------------------------ MODULE MCAuditJobs ------------------------------
(* Small instances of AuditJobs.  Editors, directive requests, result      *)
(* requests and agent processes are interchangeable; jobs and addresses    *)
(* are ordered.                                                            *)
EXTENDS AuditJobs, TLC

Symmetry == UNION {Permutations(S) : S \in {Editors, Calls, Posts, Pollers}}
================================================================================
