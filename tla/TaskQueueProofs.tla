--------------------------- MODULE TaskQueueProofs ---------------------------
(***************************************************************************)
(* What TaskQueue guarantees for every set of tasks, agents and decisions, *)
(* every claim timeout and every retry limit.                              *)
(*                                                                         *)
(* The invariants of TaskQueue are not inductive: each leans on facts about*)
(* the timestamps and about who was handed what.  RowsAreCoherent collects *)
(* them, and Inv is the inductive conjunction.                             *)
(***************************************************************************)
EXTENDS TaskQueue, TLAPS

(***************************************************************************)
(* What ties the columns of a row together: a row exists exactly when it   *)
(* has a created_at, in the past; a task past pending has been handed out; *)
(* and the last_heartbeat of a claimed row is when a worker last touched   *)
(* the task, which was not before the claim.                               *)
(***************************************************************************)
RowsAreCoherent ==
    \A t \in Tasks :
        /\ status[t] = "absent" => attempts[t] = 0
        /\ status[t] # "absent" => createdAt[t] # None /\ createdAt[t] <= now
        /\ status[t] \in {"claimed", "completed", "done"} => attempts[t] > 0
        /\ status[t] = "claimed" =>
               /\ claimedAt[t] # None
               /\ lastHeartbeat[t] # None
               /\ touched[t] = lastHeartbeat[t]
               /\ claimedAt[t] <= lastHeartbeat[t]
               /\ lastHeartbeat[t] <= now

Inv ==
    /\ TypeOK
    /\ RowsAreCoherent
    /\ RetryAccounting
    /\ DrainableHasResult
    /\ FirstClaimsInOrder

(***************************************************************************)
(* The empty queue satisfies the inductive invariant.                      *)
(***************************************************************************)
LEMMA InitInv == Init => Inv
<1> SUFFICES ASSUME Init PROVE Inv
  OBVIOUS
<1> USE DEF Init, LifecycleInit
<1>1. TypeOK
  BY MaxTimeIsNat DEF TypeOK, LifecycleTypeOK, Statuses, Timestamps
<1>2. RowsAreCoherent
  BY DEF RowsAreCoherent
<1>3. RetryAccounting
  BY DEF RetryAccounting
<1>4. DrainableHasResult
  BY DEF DrainableHasResult
<1>5. FirstClaimsInOrder
  BY DEF FirstClaimsInOrder
<1> QED
  BY <1>1, <1>2, <1>3, <1>4, <1>5 DEF Inv

-----------------------------------------------------------------------------
(***************************************************************************)
(* One lemma per method: a call preserves the inductive invariant.         *)
(***************************************************************************)

(***************************************************************************)
(* enqueue: the new row is the youngest, and nobody was handed it.         *)
(***************************************************************************)
LEMMA EnqueueInv ==
  ASSUME Inv, NEW t \in Tasks, NEW a \in Agents, Enqueue(t, a)
  PROVE  Inv'
<1> USE DEF Inv, Enqueue, Submit
<1> USE NoneIsNoValue
<1>1. TypeOK'
  BY DEF TypeOK, LifecycleTypeOK, Statuses, Timestamps
<1>2. RowsAreCoherent'
  BY DEF RowsAreCoherent, TypeOK, LifecycleTypeOK, Timestamps
<1>3. RetryAccounting'
  BY DEF RetryAccounting, TypeOK, LifecycleTypeOK
<1>4. DrainableHasResult'
  BY DEF DrainableHasResult, TypeOK, LifecycleTypeOK
<1>5. FirstClaimsInOrder'
  <2> SUFFICES ASSUME NEW u \in Tasks, NEW v \in Tasks,
                      status'[u] # "absent", status'[v] # "absent",
                      agentUrl'[u] = agentUrl'[v],
                      createdAt'[u] < createdAt'[v],
                      attempts'[v] > 0
               PROVE  attempts'[u] > 0 \/ status'[u] = "failed"
    BY DEF FirstClaimsInOrder
  <2>1. v # t
    BY DEF RowsAreCoherent, TypeOK, LifecycleTypeOK
  <2>2. createdAt'[v] <= now
    BY <2>1 DEF RowsAreCoherent, TypeOK, LifecycleTypeOK
  <2>3. u # t
    BY <2>1, <2>2 DEF RowsAreCoherent, TypeOK, LifecycleTypeOK, Timestamps
  <2> QED
    BY <2>1, <2>3 DEF FirstClaimsInOrder, TypeOK, LifecycleTypeOK
<1> QED
  BY <1>1, <1>2, <1>3, <1>4, <1>5

(***************************************************************************)
(* claim_next: no pending task of the agent is older than the one it takes.*)
(***************************************************************************)
LEMMA ClaimNextInv ==
  ASSUME Inv, NEW t \in Tasks, NEW a \in Agents, ClaimNext(t, a)
  PROVE  Inv'
<1> USE DEF Inv, ClaimNext, HandOut
<1> USE NoneIsNoValue
<1>1. TypeOK'
  BY DEF TypeOK, LifecycleTypeOK, Statuses, Timestamps
<1>2. RowsAreCoherent'
  BY DEF RowsAreCoherent, TypeOK, LifecycleTypeOK, Timestamps
<1>3. RetryAccounting'
  BY DEF RetryAccounting, TypeOK, LifecycleTypeOK
<1>4. DrainableHasResult'
  BY DEF DrainableHasResult, TypeOK, LifecycleTypeOK
<1>5. FirstClaimsInOrder'
  <2> SUFFICES ASSUME NEW u \in Tasks, NEW v \in Tasks,
                      status'[u] # "absent", status'[v] # "absent",
                      agentUrl'[u] = agentUrl'[v],
                      createdAt'[u] < createdAt'[v],
                      attempts'[v] > 0
               PROVE  attempts'[u] > 0 \/ status'[u] = "failed"
    BY DEF FirstClaimsInOrder
  <2>1. CASE v # t
    BY <2>1 DEF FirstClaimsInOrder, TypeOK, LifecycleTypeOK
  <2>2. CASE v = t
    <3>1. u # t /\ status[u] # "absent" /\ createdAt[u] < createdAt[t] /\ agentUrl[u] = a
      BY <2>2 DEF TypeOK, LifecycleTypeOK, RowsAreCoherent, Timestamps
    <3>2. createdAt[u] \in Nat /\ createdAt[t] \in Nat
      BY <3>1 DEF TypeOK, LifecycleTypeOK, RowsAreCoherent, Timestamps
    <3>3. u \notin PendingFor(a)
      BY <3>1, <3>2 DEF Oldest
    <3>4. status[u] \in {"claimed", "completed", "done", "failed"}
      BY <3>1, <3>3 DEF PendingFor, TypeOK, LifecycleTypeOK, Statuses
    <3> QED
      BY <3>1, <3>4 DEF RowsAreCoherent, TypeOK, LifecycleTypeOK
  <2> QED
    BY <2>1, <2>2
<1> QED
  BY <1>1, <1>2, <1>3, <1>4, <1>5

(***************************************************************************)
(* heartbeat: only the two timestamps it writes move.                      *)
(***************************************************************************)
LEMMA HeartbeatInv ==
  ASSUME Inv, NEW t \in Tasks, Heartbeat(t)
  PROVE  Inv'
<1> USE DEF Inv, Heartbeat, lifecycleVars
<1> USE NoneIsNoValue
<1>1. TypeOK'
  BY DEF TypeOK, LifecycleTypeOK, Statuses, Timestamps
<1>2. RowsAreCoherent'
  <2> SUFFICES ASSUME NEW u \in Tasks, status[u] = "claimed"
               PROVE  /\ claimedAt'[u] # None
                      /\ lastHeartbeat'[u] # None
                      /\ touched'[u] = lastHeartbeat'[u]
                      /\ claimedAt'[u] <= lastHeartbeat'[u]
                      /\ lastHeartbeat'[u] <= now'
    BY DEF RowsAreCoherent
  <2> QED
    BY DEF RowsAreCoherent, TypeOK, LifecycleTypeOK, Timestamps
<1>3. RetryAccounting' /\ DrainableHasResult' /\ FirstClaimsInOrder'
  BY DEF RetryAccounting, DrainableHasResult, FirstClaimsInOrder
<1> QED
  BY <1>1, <1>2, <1>3

(***************************************************************************)
(* complete: whoever calls it was handed the task.                         *)
(***************************************************************************)
LEMMA CompleteInv ==
  ASSUME Inv, NEW t \in Tasks, NEW d \in Decisions, Complete(t, d)
  PROVE  Inv'
<1> USE DEF Inv, Complete, Decide, timeVars
<1> USE NoneIsNoValue
<1>1. TypeOK'
  BY DEF TypeOK, LifecycleTypeOK, Statuses, Timestamps
<1>2. RowsAreCoherent'
  BY DEF RowsAreCoherent, TypeOK, LifecycleTypeOK, Timestamps
<1>3. RetryAccounting'
  BY DEF RetryAccounting, RowsAreCoherent, TypeOK, LifecycleTypeOK, Statuses
<1>4. DrainableHasResult'
  BY DEF DrainableHasResult, TypeOK, LifecycleTypeOK
<1>5. FirstClaimsInOrder'
  BY DEF FirstClaimsInOrder, RowsAreCoherent, TypeOK, LifecycleTypeOK
<1> QED
  BY <1>1, <1>2, <1>3, <1>4, <1>5

(***************************************************************************)
(* mark_done: only a completed row moves.                                  *)
(***************************************************************************)
LEMMA MarkDoneInv ==
  ASSUME Inv, NEW t \in Tasks, MarkDone(t)
  PROVE  Inv'
<1> USE DEF Inv, MarkDone, Close, timeVars
<1>1. TypeOK'
  BY DEF TypeOK, LifecycleTypeOK, Statuses, Timestamps
<1>2. RowsAreCoherent'
  BY DEF RowsAreCoherent, TypeOK, LifecycleTypeOK
<1>3. RetryAccounting' /\ DrainableHasResult'
  BY DEF RetryAccounting, DrainableHasResult, TypeOK, LifecycleTypeOK
<1>4. FirstClaimsInOrder'
  BY DEF FirstClaimsInOrder, TypeOK, LifecycleTypeOK
<1> QED
  BY <1>1, <1>2, <1>3, <1>4

(***************************************************************************)
(* requeue_stale: every row it selects was claimed, so its hand-outs were  *)
(* one more than its retries.                                              *)
(***************************************************************************)
LEMMA RequeueStaleInv ==
  ASSUME Inv, RequeueStale
  PROVE  Inv'
<1> USE DEF Inv, RequeueStale, Expire, Claimed
<1> USE NoneIsNoValue
<1>1. TypeOK'
  BY DEF TypeOK, LifecycleTypeOK, Statuses, Timestamps
<1>2. RowsAreCoherent'
  BY DEF RowsAreCoherent, TypeOK, LifecycleTypeOK
<1>3. RetryAccounting'
  BY DEF RetryAccounting, TypeOK, LifecycleTypeOK
<1>4. DrainableHasResult'
  BY DEF DrainableHasResult, TypeOK, LifecycleTypeOK
<1>5. FirstClaimsInOrder'
  BY DEF FirstClaimsInOrder, TypeOK, LifecycleTypeOK
<1> QED
  BY <1>1, <1>2, <1>3, <1>4, <1>5

(***************************************************************************)
(* fail_exhausted: only pending rows move.                                 *)
(***************************************************************************)
LEMMA FailExhaustedInv ==
  ASSUME Inv, FailExhausted
  PROVE  Inv'
<1> USE DEF Inv, FailExhausted, GiveUp, IsExhausted, timeVars
<1>1. TypeOK'
  BY DEF TypeOK, LifecycleTypeOK, Statuses, Timestamps
<1>2. RowsAreCoherent'
  BY DEF RowsAreCoherent, TypeOK, LifecycleTypeOK
<1>3. RetryAccounting' /\ DrainableHasResult'
  BY DEF RetryAccounting, DrainableHasResult, TypeOK, LifecycleTypeOK
<1>4. FirstClaimsInOrder'
  BY DEF FirstClaimsInOrder, TypeOK, LifecycleTypeOK
<1> QED
  BY <1>1, <1>2, <1>3, <1>4

(***************************************************************************)
(* Time passes: every timestamp of a row stays in the past.                *)
(***************************************************************************)
LEMMA TickInv ==
  ASSUME Inv, Tick
  PROVE  Inv'
<1> USE DEF Inv, Tick, lifecycleVars
<1> USE NoneIsNoValue, MaxTimeIsNat
<1>1. TypeOK'
  BY DEF TypeOK, LifecycleTypeOK, Statuses, Timestamps
<1>2. RowsAreCoherent'
  BY DEF RowsAreCoherent, TypeOK, LifecycleTypeOK, Timestamps
<1>3. RetryAccounting' /\ DrainableHasResult' /\ FirstClaimsInOrder'
  BY DEF RetryAccounting, DrainableHasResult, FirstClaimsInOrder
<1> QED
  BY <1>1, <1>2, <1>3

(***************************************************************************)
(* Every step preserves the inductive invariant.                           *)
(***************************************************************************)
LEMMA NextInv == Inv /\ [Next]_vars => Inv'
<1> SUFFICES ASSUME Inv, [Next]_vars PROVE Inv'
  OBVIOUS
<1>1. CASE UNCHANGED vars
  BY <1>1 DEF Inv, vars, lifecycleVars, timeVars, TypeOK, LifecycleTypeOK,
     RowsAreCoherent, RetryAccounting, DrainableHasResult, FirstClaimsInOrder
<1>2. CASE Next
  BY <1>2, EnqueueInv, ClaimNextInv, HeartbeatInv, CompleteInv, MarkDoneInv,
     RequeueStaleInv, FailExhaustedInv, TickInv DEF Next
<1> QED
  BY <1>1, <1>2

(***************************************************************************)
(* The inductive invariant holds throughout.                               *)
(***************************************************************************)
THEOREM Invariance == Spec => []Inv
<1>1. Init => Inv
  BY InitInv
<1>2. Inv /\ [Next]_vars => Inv'
  BY NextInv
<1> QED
  BY <1>1, <1>2, PTL DEF Spec

-----------------------------------------------------------------------------
(***************************************************************************)
(* The columns and the clock keep their types.                             *)
(***************************************************************************)
THEOREM TypeCorrect == Spec => []TypeOK
<1>1. Inv => TypeOK
  BY DEF Inv
<1> QED
  BY <1>1, Invariance, PTL

(***************************************************************************)
(* retry_count counts exactly the hand-outs that expired.                  *)
(***************************************************************************)
THEOREM RetriesAreCounted == Spec => []RetryAccounting
<1>1. Inv => RetryAccounting
  BY DEF Inv
<1> QED
  BY <1>1, Invariance, PTL

(***************************************************************************)
(* No claimed row is out of requeue_stale's reach.                         *)
(***************************************************************************)
THEOREM NoClaimIsStuck == Spec => []ClaimsCanExpire
<1>1. Inv => ClaimsCanExpire
  BY NoneIsNoValue DEF Inv, RowsAreCoherent, ClaimsCanExpire, TypeOK, Timestamps
<1> QED
  BY <1>1, Invariance, PTL

(***************************************************************************)
(* Every completed row has a result to parse.                              *)
(***************************************************************************)
THEOREM CompletedHasResult == Spec => []DrainableHasResult
<1>1. Inv => DrainableHasResult
  BY DEF Inv
<1> QED
  BY <1>1, Invariance, PTL

(***************************************************************************)
(* First hand-outs follow the order of enqueueing.                         *)
(***************************************************************************)
THEOREM FifoFirstClaims == Spec => []FirstClaimsInOrder
<1>1. Inv => FirstClaimsInOrder
  BY DEF Inv
<1> QED
  BY <1>1, Invariance, PTL

(***************************************************************************)
(* No lease is cut short.  A claimed row's last_heartbeat is the last time *)
(* a worker touched the task, and not before its claimed_at, so the MAX of *)
(* requeue_stale is that time.                                             *)
(***************************************************************************)
THEOREM LeasesAreRespected == Spec => LeaseRespected
<1> DEFINE Kept == \A t \in Tasks :
                     status[t] = "claimed" /\ status'[t] = "pending" =>
                         touched[t] # None /\ touched[t] + ClaimTimeout < now
<1>1. Inv /\ [Next]_vars => [Kept]_vars
  <2> SUFFICES ASSUME Inv, Next,
                      NEW t \in Tasks, status[t] = "claimed", status'[t] = "pending"
               PROVE  touched[t] # None /\ touched[t] + ClaimTimeout < now
    BY DEF Kept
  <2> USE DEF Inv, TypeOK, LifecycleTypeOK
  <2>1. ASSUME NEW u \in Tasks, NEW a \in Agents, Enqueue(u, a) PROVE FALSE
    BY <2>1 DEF Enqueue, Submit
  <2>2. ASSUME NEW u \in Tasks, NEW a \in Agents, ClaimNext(u, a) PROVE FALSE
    BY <2>2 DEF ClaimNext, HandOut
  <2>3. ASSUME NEW u \in Tasks, Heartbeat(u) PROVE FALSE
    BY <2>3 DEF Heartbeat, lifecycleVars
  <2>4. ASSUME NEW u \in Tasks, NEW d \in Decisions, Complete(u, d) PROVE FALSE
    BY <2>4 DEF Complete, Decide
  <2>5. ASSUME NEW u \in Tasks, MarkDone(u) PROVE FALSE
    BY <2>5 DEF MarkDone, Close
  <2>6. CASE RequeueStale
    <3>1. t \in Stale
      BY <2>6 DEF RequeueStale, Expire
    <3>2. HeldSince(t) < now - ClaimTimeout
      BY <3>1 DEF Stale, IsStale
    <3>3. claimedAt[t] \in Nat /\ lastHeartbeat[t] \in Nat
      BY NoneIsNoValue DEF RowsAreCoherent, Timestamps
    <3>4. HeldSince(t) = touched[t]
      BY <3>3, NoneIsNoValue DEF HeldSince, RowsAreCoherent
    <3> QED
      BY <3>2, <3>3, <3>4, ClaimTimeoutIsNat, MaxTimeIsNat
         DEF RowsAreCoherent, Timestamps
  <2>7. CASE FailExhausted
    BY <2>7 DEF FailExhausted, GiveUp, IsExhausted
  <2>8. CASE Tick
    BY <2>8 DEF Tick, lifecycleVars
  <2> QED
    BY <2>1, <2>2, <2>3, <2>4, <2>5, <2>6, <2>7, <2>8 DEF Next
<1> QED
  BY <1>1, Invariance, PTL DEF Spec, LeaseRespected

=============================================================================
