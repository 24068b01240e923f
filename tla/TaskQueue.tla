------------------------------ MODULE TaskQueue ------------------------------
(***************************************************************************)
(* night_brownie/queue.py: the task_queue table and the methods of         *)
(* TaskQueue, with the timestamps they read and write.                     *)
(*                                                                         *)
(* The harness calls every method from coroutines of one event loop, and   *)
(* none of them awaits, so a method call is one step.  Each one commits a  *)
(* single statement, except claim_next, which is one BEGIN IMMEDIATE       *)
(* transaction; a crash therefore loses a whole call or nothing.           *)
(*                                                                         *)
(* The callers are any workers: a worker knows the tasks claim_next gave   *)
(* it, and may heartbeat and complete them at any later time, however late.*)
(* time.time() is the variable now.                                        *)
(***************************************************************************)
EXTENDS TaskLifecycle

CONSTANTS
    ClaimTimeout,   \* claim_timeout_seconds, in ticks
    MaxTime         \* bound on the clock

ASSUME ClaimTimeoutIsNat == ClaimTimeout \in Nat
ASSUME MaxTimeIsNat == MaxTime \in Nat

VARIABLES
    now,            \* time.time()
    createdAt,      \* [task -> created_at column]
    claimedAt,      \* [task -> claimed_at column]
    lastHeartbeat,  \* [task -> last_heartbeat column]
    touched         \* [task -> when it was last handed out or heartbeat]:
                    \* what the workers did, whatever the row says of it

timeVars == <<now, createdAt, claimedAt, lastHeartbeat, touched>>
vars == <<lifecycleVars, timeVars>>

Timestamps == 0..MaxTime

TypeOK ==
    /\ LifecycleTypeOK
    /\ now \in Timestamps
    /\ createdAt \in [Tasks -> Timestamps \cup {None}]
    /\ claimedAt \in [Tasks -> Timestamps \cup {None}]
    /\ lastHeartbeat \in [Tasks -> Timestamps \cup {None}]
    /\ touched \in [Tasks -> Timestamps \cup {None}]

Init ==
    /\ LifecycleInit
    /\ now = 0
    /\ createdAt = [t \in Tasks |-> None]
    /\ claimedAt = [t \in Tasks |-> None]
    /\ lastHeartbeat = [t \in Tasks |-> None]
    /\ touched = [t \in Tasks |-> None]

-----------------------------------------------------------------------------
Enqueue(t, a) ==
    /\ Submit(t, a)
    /\ createdAt' = [createdAt EXCEPT ![t] = now]
    /\ UNCHANGED <<now, claimedAt, lastHeartbeat, touched>>

PendingFor(a) == {t \in Tasks : status[t] = "pending" /\ agentUrl[t] = a}

\* A faulty Oldest: the SELECT has no ORDER BY.
AnyPending(a) == PendingFor(a)

(***************************************************************************)
(* SELECT ... ORDER BY created_at LIMIT 1.  Rows created at the same time  *)
(* are returned in no particular order.                                    *)
(***************************************************************************)
Oldest(a) ==
    {t \in PendingFor(a) : \A u \in PendingFor(a) : createdAt[t] <= createdAt[u]}

\* A faulty ClaimNext: last_heartbeat is set to the deadline of the claim.
ClaimUntil(t, a) ==
    /\ t \in Oldest(a)
    /\ HandOut(t, a)
    /\ claimedAt' = [claimedAt EXCEPT ![t] = now]
    /\ lastHeartbeat' = [lastHeartbeat EXCEPT ![t] = now + ClaimTimeout]
    /\ touched' = [touched EXCEPT ![t] = now]
    /\ UNCHANGED <<now, createdAt>>

\* A faulty ClaimNext: claimed_at is left to the first heartbeat.
ClaimUndated(t, a) ==
    /\ t \in Oldest(a)
    /\ HandOut(t, a)
    /\ lastHeartbeat' = [lastHeartbeat EXCEPT ![t] = now]
    /\ touched' = [touched EXCEPT ![t] = now]
    /\ UNCHANGED <<now, createdAt, claimedAt>>

ClaimNext(t, a) ==
    /\ t \in Oldest(a)
    /\ HandOut(t, a)
    /\ claimedAt' = [claimedAt EXCEPT ![t] = now]
    /\ lastHeartbeat' = [lastHeartbeat EXCEPT ![t] = now]
    /\ touched' = [touched EXCEPT ![t] = now]
    /\ UNCHANGED <<now, createdAt>>

(***************************************************************************)
(* heartbeat has no condition on the status either: a worker whose claim   *)
(* has expired stamps the pending row, or the claim of its successor.      *)
(***************************************************************************)
Heartbeat(t) ==
    /\ attempts[t] > 0
    /\ lastHeartbeat' = [lastHeartbeat EXCEPT ![t] = now]
    /\ touched' = [touched EXCEPT ![t] = now]
    /\ UNCHANGED <<lifecycleVars, now, createdAt, claimedAt>>

Complete(t, d) == Decide(t, d) /\ UNCHANGED timeVars

MarkDone(t) == Close(t) /\ UNCHANGED timeVars

\* A faulty HeldSince: heartbeats do not count.
ClaimedSince(t) == claimedAt[t]

(***************************************************************************)
(* MAX(COALESCE(last_heartbeat, claimed_at), claimed_at) < now - timeout.  *)
(* The scalar MAX of SQLite is NULL as soon as one argument is, and NULL   *)
(* compares as false: a row without a claimed_at is never stale.           *)
(***************************************************************************)
HeldSince(t) ==
    IF lastHeartbeat[t] # None /\ lastHeartbeat[t] > claimedAt[t]
    THEN lastHeartbeat[t] ELSE claimedAt[t]

IsStale(t) ==
    /\ status[t] = "claimed"
    /\ claimedAt[t] # None
    /\ HeldSince(t) < now - ClaimTimeout

Stale == {t \in Tasks : IsStale(t)}

RequeueStale ==
    /\ Stale # {}
    /\ Expire(Stale)
    /\ claimedAt' = [t \in Tasks |-> IF t \in Stale THEN None ELSE claimedAt[t]]
    /\ lastHeartbeat' = [t \in Tasks |-> IF t \in Stale THEN None
                                                         ELSE lastHeartbeat[t]]
    /\ UNCHANGED <<now, createdAt, touched>>

FailExhausted ==
    /\ \E t \in Tasks : IsExhausted(t)
    /\ GiveUp
    /\ UNCHANGED timeVars

Tick ==
    /\ now < MaxTime
    /\ now' = now + 1
    /\ UNCHANGED <<lifecycleVars, createdAt, claimedAt, lastHeartbeat, touched>>

Next ==
    \/ \E t \in Tasks, a \in Agents : Enqueue(t, a)
    \/ \E t \in Tasks, a \in Agents : ClaimNext(t, a)
    \/ \E t \in Tasks : Heartbeat(t)
    \/ \E t \in Tasks, d \in Decisions : Complete(t, d)
    \/ \E t \in Tasks : MarkDone(t)
    \/ RequeueStale
    \/ FailExhausted
    \/ Tick

Spec == Init /\ [][Next]_vars

-----------------------------------------------------------------------------
(***************************************************************************)
(* retry_count is exact: it is the number of hand-outs that ended in an    *)
(* expiry, neither missing one nor counting one twice, in every status a   *)
(* task can reach, late completions included.  fail_exhausted depends on   *)
(* it and nothing in the code checks it.                                   *)
(***************************************************************************)
RetryAccounting ==
    \A t \in Tasks :
        /\ status[t] \in {"absent", "pending", "failed"} => attempts[t] = retryCount[t]
        /\ status[t] = "claimed" => attempts[t] = retryCount[t] + 1
        /\ status[t] \in {"completed", "done"} =>
               attempts[t] \in {retryCount[t], retryCount[t] + 1}

(***************************************************************************)
(* A claimed row can always expire: it has a claimed_at, not in the        *)
(* future.  With a NULL there requeue_stale would never select the row and *)
(* the task of a dead agent would be stuck for ever.                       *)
(***************************************************************************)
ClaimsCanExpire ==
    \A t \in Tasks :
        status[t] = "claimed" => claimedAt[t] # None /\ claimedAt[t] <= now

(***************************************************************************)
(* drain_completed never meets a completed row without a result, which it  *)
(* could not parse: the whole drain cycle would raise, for every task, at  *)
(* every cycle.                                                            *)
(***************************************************************************)
DrainableHasResult ==
    \A t \in Tasks : status[t] \in {"completed", "done"} => result[t] # None

(***************************************************************************)
(* Tasks of an agent are first handed out in the order they were enqueued: *)
(* none is overtaken by a younger one, whatever expiries, retries and late *)
(* completions happen around it, unless it failed unclaimed.               *)
(***************************************************************************)
FirstClaimsInOrder ==
    \A t, u \in Tasks :
        /\ status[t] # "absent" /\ status[u] # "absent"
        /\ agentUrl[t] = agentUrl[u]
        /\ createdAt[t] < createdAt[u]
        /\ attempts[u] > 0
        => attempts[t] > 0 \/ status[t] = "failed"

(***************************************************************************)
(* A lease is never cut short: a step takes a task from its holder only    *)
(* when nobody was handed it or sent a heartbeat for it during the whole   *)
(* claim timeout (requeue_stale against claim_next and heartbeat).         *)
(***************************************************************************)
LeaseRespected ==
    [][\A t \in Tasks :
          status[t] = "claimed" /\ status'[t] = "pending" =>
              touched[t] # None /\ touched[t] + ClaimTimeout < now]_vars

=============================================================================
