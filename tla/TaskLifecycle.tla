---------------------------- MODULE TaskLifecycle ----------------------------
(***************************************************************************)
(* The durable queue (night_brownie/queue.py) without its clock and its    *)
(* row order: which status changes a task can go through, who may be       *)
(* handed it, and what happens to its retry counter and its result.        *)
(* TaskQueue, DrainLoop, Delivery and Triage are built from these actions. *)
(* LifecycleSpec is what claim_next, taken apart into its statements in    *)
(* ClaimProtocol, is shown to implement: each call is one step.            *)
(*                                                                         *)
(* complete() carries no condition on the status, so a task can be         *)
(* completed out of every status.                                          *)
(***************************************************************************)
EXTENDS Integers

CONSTANTS
    Tasks,        \* task ids: Dispatcher.dispatch gives each task a fresh uuid4
    Agents,       \* agent base URLs
    Decisions,    \* DecisionMessages an agent can return
    None,         \* SQL NULL
    MaxRetries    \* QueueConfig.max_retries

ASSUME NoneIsNoValue == None \notin Agents \cup Decisions \cup Int
ASSUME MaxRetriesIsNat == MaxRetries \in Nat

VARIABLES
    status,       \* [task -> status column; "absent": no such row]
    agentUrl,     \* [task -> agent_url column]
    retryCount,   \* [task -> retry_count column]
    result,       \* [task -> result column]
    attempts      \* [task -> how often claim_next has handed the task out]

lifecycleVars == <<status, agentUrl, retryCount, result, attempts>>

Statuses == {"absent", "pending", "claimed", "completed", "done", "failed"}

LifecycleTypeOK ==
    /\ status \in [Tasks -> Statuses]
    /\ agentUrl \in [Tasks -> Agents \cup {None}]
    /\ retryCount \in [Tasks -> Nat]
    /\ result \in [Tasks -> Decisions \cup {None}]
    /\ attempts \in [Tasks -> Nat]

LifecycleInit ==
    /\ status = [t \in Tasks |-> "absent"]
    /\ agentUrl = [t \in Tasks |-> None]
    /\ retryCount = [t \in Tasks |-> 0]
    /\ result = [t \in Tasks |-> None]
    /\ attempts = [t \in Tasks |-> 0]

(***************************************************************************)
(* enqueue: INSERT of a pending row.                                       *)
(***************************************************************************)
Submit(t, a) ==
    /\ status[t] = "absent"
    /\ status' = [status EXCEPT ![t] = "pending"]
    /\ agentUrl' = [agentUrl EXCEPT ![t] = a]
    /\ UNCHANGED <<retryCount, result, attempts>>

\* A faulty HandOut: a row that is claimed already can be claimed.
HandOutClaimed(t, a) ==
    /\ status[t] \in {"pending", "claimed"}
    /\ agentUrl[t] = a
    /\ status' = [status EXCEPT ![t] = "claimed"]
    /\ attempts' = [attempts EXCEPT ![t] = @ + 1]
    /\ UNCHANGED <<agentUrl, retryCount, result>>

(***************************************************************************)
(* claim_next: one pending row of the agent's becomes claimed and its task *)
(* is returned to the caller.                                              *)
(***************************************************************************)
HandOut(t, a) ==
    /\ status[t] = "pending"
    /\ agentUrl[t] = a
    /\ status' = [status EXCEPT ![t] = "claimed"]
    /\ attempts' = [attempts EXCEPT ![t] = @ + 1]
    /\ UNCHANGED <<agentUrl, retryCount, result>>

(***************************************************************************)
(* complete: the UPDATE names the task and nothing else, so whoever was    *)
(* ever handed the task can complete it, whatever has become of the row.   *)
(***************************************************************************)
Decide(t, d) ==
    /\ attempts[t] > 0
    /\ status' = [status EXCEPT ![t] = "completed"]
    /\ result' = [result EXCEPT ![t] = d]
    /\ UNCHANGED <<agentUrl, retryCount, attempts>>

(***************************************************************************)
(* mark_done: effective on a completed row only.                           *)
(***************************************************************************)
Close(t) ==
    /\ status[t] = "completed"
    /\ status' = [status EXCEPT ![t] = "done"]
    /\ UNCHANGED <<agentUrl, retryCount, result, attempts>>

(***************************************************************************)
(* requeue_stale: a set of claims expires at once.  Which ones is up to    *)
(* the clock, which this module does not have.                             *)
(***************************************************************************)
Claimed == {t \in Tasks : status[t] = "claimed"}

\* A faulty Expire: retry_count is not incremented.
ExpireUncounted(S) ==
    /\ S \subseteq Claimed
    /\ status' = [t \in Tasks |-> IF t \in S THEN "pending" ELSE status[t]]
    /\ UNCHANGED <<agentUrl, retryCount, result, attempts>>

\* A faulty Expire: exhausted tasks are not put back.
ExpireUnexhausted(S) ==
    /\ S \subseteq Claimed
    /\ LET Back == {t \in S : retryCount[t] < MaxRetries} IN
       /\ status' = [t \in Tasks |-> IF t \in Back THEN "pending" ELSE status[t]]
       /\ retryCount' = [t \in Tasks |-> IF t \in Back THEN retryCount[t] + 1
                                                        ELSE retryCount[t]]
    /\ UNCHANGED <<agentUrl, result, attempts>>

Expire(S) ==
    /\ S \subseteq Claimed
    /\ status' = [t \in Tasks |-> IF t \in S THEN "pending" ELSE status[t]]
    /\ retryCount' = [t \in Tasks |-> IF t \in S THEN retryCount[t] + 1
                                                 ELSE retryCount[t]]
    /\ UNCHANGED <<agentUrl, result, attempts>>

\* A faulty IsExhausted: > for >=.
IsOverLimit(t) == status[t] = "pending" /\ retryCount[t] > MaxRetries

(***************************************************************************)
(* fail_exhausted: every pending row whose retry counter has reached the   *)
(* limit fails.                                                            *)
(***************************************************************************)
IsExhausted(t) == status[t] = "pending" /\ retryCount[t] >= MaxRetries

GiveUp ==
    /\ status' = [t \in Tasks |-> IF IsExhausted(t) THEN "failed" ELSE status[t]]
    /\ UNCHANGED <<agentUrl, retryCount, result, attempts>>

LifecycleNext ==
    \/ \E t \in Tasks, a \in Agents : Submit(t, a) \/ HandOut(t, a)
    \/ \E t \in Tasks, d \in Decisions : Decide(t, d)
    \/ \E t \in Tasks : Close(t)
    \/ \E S \in SUBSET Claimed : Expire(S)
    \/ GiveUp

LifecycleSpec == LifecycleInit /\ [][LifecycleNext]_lifecycleVars

=============================================================================
