--------------------------- MODULE DeliveryProofs ---------------------------
(***************************************************************************)
(* What Delivery guarantees for every set of tasks, agents and workers,    *)
(* every max_retries, and every number of crashes, exceptions and lost     *)
(* messages.                                                               *)
(***************************************************************************)
EXTENDS Delivery, FiniteSetTheorems, TLAPS

(***************************************************************************)
(* A worker has a task from its answer to its report, and a task that was  *)
(* handed to anybody or is named by a nudge has a row, with an agent.      *)
(***************************************************************************)
WorkIsOfRows ==
    /\ \A w \in Workers :
           /\ holding[w] # None <=> doing[w] \in {"triaging", "reporting"}
           /\ holding[w] \in Tasks => status[holding[w]] # "absent"
    /\ \A t \in nudges : status[t] # "absent"
    /\ \A t \in Tasks : status[t] # "absent" => agentUrl[t] \in Agents

(***************************************************************************)
(* Nobody works in an agent that does not run or does not listen yet; and  *)
(* the startup loop works alone, so what ends it interrupts nobody else.   *)
(***************************************************************************)
StartupIsAlone ==
    \A w \in Workers :
        /\ doing[w] # "idle" => agent[HostOf[w]] \in {"draining", "serving"}
        /\ agent[HostOf[w]] = "draining" =>
               \A x \in WorkersOf(HostOf[w]) :
                   doing[w] # "idle" /\ doing[x] # "idle" => w = x

(***************************************************************************)
(* Between two expiries a task is handed out once.                         *)
(***************************************************************************)
RetriesCountAttempts(t) ==
    /\ status[t] = "absent" => attempts[t] = 0
    /\ status[t] = "pending" => attempts[t] <= retryCount[t]
    /\ status[t] = "claimed" => attempts[t] <= retryCount[t] + 1

(***************************************************************************)
(* A task that can be claimed is below the limit, but for the sweeps that  *)
(* a crash or an exception tore; in the midst of a sweep it may be at it.  *)
(***************************************************************************)
Torn(t) == tornSweeps + (IF harness = "sweeping" /\ status[t] = "pending" THEN 1 ELSE 0)

ExhaustedIsFailed(t) ==
    /\ status[t] = "absent" => retryCount[t] = 0
    /\ status[t] \in {"pending", "claimed"} => retryCount[t] < Limit + Torn(t)

AttemptsCounted(t) ==
    /\ RetriesCountAttempts(t)
    /\ ExhaustedIsFailed(t)
    /\ attempts[t] <= Limit + tornSweeps

(***************************************************************************)
(* HoldersAreCounted, for one task, and BacklogIsExplained, for one agent. *)
(***************************************************************************)
HoldersCounted(t) ==
    /\ Cardinality(Holders(t)) <= retryCount[t] + 1
    /\ status[t] \in {"pending", "failed"} => Cardinality(Holders(t)) <= retryCount[t]

NudgesFor(a) == {t \in nudges : agentUrl[t] = a}

BacklogExplained(a) ==
    Cardinality(PendingFor(a)) <=
        Cardinality(NudgesFor(a)) + Cardinality(Asking(a)) + owed[a]

Inv ==
    /\ TypeOK
    /\ WorkIsOfRows
    /\ StartupIsAlone
    /\ \A t \in Tasks : AttemptsCounted(t)
    /\ \A t \in Tasks : HoldersCounted(t)
    /\ \A a \in Agents : BacklogExplained(a)

-----------------------------------------------------------------------------
(* Counting.                                                               *)

(***************************************************************************)
(* Owing stays in range, and what it caps was enough for every task.       *)
(***************************************************************************)
LEMMA OwingCovers ==
  ASSUME NEW n \in 0..Cardinality(Tasks), NEW m \in Nat
  PROVE  /\ Owing(n, m) \in 0..Cardinality(Tasks)
         /\ Owing(n, m) >= n
         /\ \A p \in 0..Cardinality(Tasks), q \in Nat :
               p <= q + n + m => p <= q + Owing(n, m)
<1>1. Cardinality(Tasks) \in Nat
  BY TasksAndWorkersAreFinite, FS_CardinalityType
<1> QED
  BY <1>1 DEF Owing

(***************************************************************************)
(* The sets that BacklogIsExplained and HoldersAreCounted count are        *)
(* finite.                                                                 *)
(***************************************************************************)
LEMMA SetsAreFinite ==
  /\ \A S \in SUBSET Tasks :
        IsFiniteSet(S) /\ Cardinality(S) \in Nat /\ Cardinality(S) <= Cardinality(Tasks)
  /\ \A S \in SUBSET Workers : IsFiniteSet(S) /\ Cardinality(S) \in Nat
  /\ Cardinality(Tasks) \in Nat
  BY TasksAndWorkersAreFinite, FS_Subset, FS_CardinalityType

(* A part counts no more than the whole.                                   *)
LEMMA SubsetsAreSmaller ==
  ASSUME NEW S, NEW T, IsFiniteSet(T), S \subseteq T
  PROVE  Cardinality(S) <= Cardinality(T)
  BY FS_Subset

(* A union counts no more than its parts do together.                      *)
LEMMA UnionsAreBounded ==
  ASSUME NEW S, NEW T, IsFiniteSet(S), IsFiniteSet(T)
  PROVE  /\ IsFiniteSet(S \cup T)
         /\ Cardinality(S \cup T) <= Cardinality(S) + Cardinality(T)
<1>1. Cardinality(S) \in Nat /\ Cardinality(T) \in Nat
  BY FS_CardinalityType
<1>2. IsFiniteSet(S \cap T)
  BY FS_Intersection
<1>3. Cardinality(S \cap T) \in Nat
  BY <1>2, FS_CardinalityType
<1>4. /\ IsFiniteSet(S \cup T)
      /\ Cardinality(S \cup T) = Cardinality(S) + Cardinality(T) - Cardinality(S \cap T)
  BY FS_Union
<1> QED
  BY <1>1, <1>3, <1>4

-----------------------------------------------------------------------------
(***************************************************************************)
(* An empty queue, and agents that do not run.                             *)
(***************************************************************************)
LEMMA InitInv == Init => Inv
<1> SUFFICES ASSUME Init PROVE Inv
  OBVIOUS
<1> USE DEF Init, LifecycleInit
<1>1. TypeOK
  <2>1. LifecycleTypeOK
    BY DEF LifecycleTypeOK, Statuses
  <2>2. /\ 0 \in 0..MaxCrashes /\ 0 \in 0..MaxFaults
        /\ 0 \in 0..Cardinality(Tasks) /\ 0 \in 0..0
    BY BoundsAreNat, SetsAreFinite
  <2>3. /\ agent \in [Agents -> {"down", "draining", "binding", "serving"}]
        /\ doing \in [Workers -> {"idle", "asking", "triaging", "reporting"}]
        /\ holding \in [Workers -> Tasks \cup {None}]
        /\ owed \in [Agents -> 0..Cardinality(Tasks)]
    BY <2>2
  <2>4. /\ harness = "waiting" /\ nudges = {} /\ tornSweeps \in 0..(crashes + faults)
        /\ crashes = 0 /\ faults = 0
    OBVIOUS
  <2> HIDE DEF Init, LifecycleInit
  <2> QED
    BY <2>1, <2>2, <2>3, <2>4 DEF TypeOK
<1>2. WorkIsOfRows /\ StartupIsAlone
  BY NoneIsNoTask, HostOfType DEF WorkIsOfRows, StartupIsAlone
<1>3. ASSUME NEW t \in Tasks PROVE AttemptsCounted(t)
  <2>1. status[t] = "absent" /\ attempts[t] = 0 /\ retryCount[t] = 0 /\ tornSweeps = 0
    OBVIOUS
  <2> QED
    BY <2>1, MaxRetriesIsNat
       DEF AttemptsCounted, RetriesCountAttempts, ExhaustedIsFailed, Limit
<1>4. ASSUME NEW t \in Tasks PROVE HoldersCounted(t)
  <2>1. Holders(t) = {}
    BY NoneIsNoTask DEF Holders
  <2>2. Cardinality(Holders(t)) = 0 /\ retryCount[t] = 0
    BY <2>1, FS_EmptySet
  <2> QED
    BY <2>2 DEF HoldersCounted
<1>5. ASSUME NEW a \in Agents PROVE BacklogExplained(a)
  <2>1. PendingFor(a) = {} /\ NudgesFor(a) = {} /\ Asking(a) = {}
    BY DEF PendingFor, NudgesFor, Asking, WorkersOf
  <2>2. Cardinality({}) = 0 /\ owed[a] = 0
    BY FS_EmptySet
  <2> QED
    BY <2>1, <2>2 DEF BacklogExplained
<1> QED
  BY <1>1, <1>2, <1>3, <1>4, <1>5 DEF Inv

-----------------------------------------------------------------------------
(* What the steps of the agents do.                                        *)

(***************************************************************************)
(* The end of a worker's task or request is its own affair: only in the    *)
(* startup loop it takes the process with it, and there it is alone.       *)
(***************************************************************************)
OnlyMoves(w) ==
    /\ doing' \in [Workers -> {"idle", "asking", "triaging", "reporting"}]
    /\ holding' \in [Workers -> Tasks \cup {None}]
    /\ agent' \in [Agents -> {"down", "draining", "binding", "serving"}]
    /\ \A x \in Workers : x # w => doing'[x] = doing[x] /\ holding'[x] = holding[x]
    /\ \A a \in Agents : a # HostOf[w] => agent'[a] = agent[a]

Ends(w) ==
    /\ OnlyMoves(w)
    /\ holding'[w] = None
    /\ \/ doing'[w] = "idle" /\ agent' = agent
       \/ /\ doing'[w] = "idle" /\ agent'[HostOf[w]] = "down"
          /\ \A x \in WorkersOf(HostOf[w]) : doing'[x] = "idle"
       \/ doing'[w] = "asking" /\ agent' = agent /\ agent[HostOf[w]] = "draining"

(* Going on and raising are both such an end.                              *)
LEMMA WorkerEnds ==
  ASSUME Inv, NEW w \in Workers, doing[w] # "idle", WorkerGoesOn(w) \/ WorkerRaises(w)
  PROVE  Ends(w)
<1> USE DEF Inv
<1>1. HostOf[w] \in Agents
  BY HostOfType
<1>2. CASE WorkerGoesOn(w)
  BY <1>1, <1>2 DEF WorkerGoesOn, Ends, OnlyMoves, TypeOK
<1>3. CASE WorkerRaises(w) /\ agent[HostOf[w]] # "draining"
  BY <1>1, <1>3 DEF WorkerRaises, Ends, OnlyMoves, TypeOK
<1>4. CASE WorkerRaises(w) /\ agent[HostOf[w]] = "draining"
  <2>1. AgentStops(HostOf[w])
    BY <1>4 DEF WorkerRaises
  <2>2. \A x \in Workers : x # w /\ HostOf[x] = HostOf[w] =>
          doing[x] = "idle" /\ holding[x] = None
    BY <1>4 DEF StartupIsAlone, WorkersOf, WorkIsOfRows
  <2>3. /\ agent' = [agent EXCEPT ![HostOf[w]] = "down"]
        /\ doing' = [x \in Workers |-> IF HostOf[x] = HostOf[w] THEN "idle" ELSE doing[x]]
        /\ holding' = [x \in Workers |-> IF HostOf[x] = HostOf[w] THEN None ELSE holding[x]]
    BY <2>1 DEF AgentStops
  <2>4. OnlyMoves(w)
    BY <1>1, <2>2, <2>3 DEF OnlyMoves, TypeOK
  <2> QED
    BY <1>1, <2>3, <2>4 DEF Ends, WorkersOf, TypeOK
<1> QED
  BY <1>2, <1>3, <1>4

(***************************************************************************)
(* The other steps of one worker.                                          *)
(***************************************************************************)
LEMMA WorkerMoves ==
  ASSUME Inv, NEW w \in Workers,
         \/ AgentStart(w) \/ ServeNothing(w) \/ TriageReturns(w)
         \/ \E t \in Tasks : NudgeArrives(t, w)
  PROVE  /\ OnlyMoves(w)
         /\ holding' = holding
         /\ \/ /\ AgentStart(w) /\ doing[w] = "idle" /\ doing'[w] = "asking"
               /\ agent[HostOf[w]] = "down" /\ agent'[HostOf[w]] = "draining"
            \/ /\ ServeNothing(w) /\ doing[w] = "asking" /\ doing'[w] = "idle"
               /\ \/ agent[HostOf[w]] # "draining" /\ agent' = agent
                  \/ agent[HostOf[w]] = "draining" /\ agent'[HostOf[w]] = "binding"
            \/ /\ doing[w] = "triaging" /\ doing'[w] = "reporting" /\ agent' = agent
            \/ /\ doing[w] = "idle" /\ doing'[w] = "asking" /\ agent' = agent
               /\ agent[HostOf[w]] = "serving"
<1> USE DEF Inv
<1>1. HostOf[w] \in Agents
  BY HostOfType
<1>2. CASE AgentStart(w)
  <2>1. doing[w] = "idle"
    BY <1>2 DEF AgentStart, StartupIsAlone
  <2> QED
    BY <1>1, <1>2, <2>1 DEF AgentStart, OnlyMoves, TypeOK
<1>3. CASE ServeNothing(w)
  BY <1>1, <1>3 DEF ServeNothing, OnlyMoves, TypeOK
<1>4. CASE TriageReturns(w)
  BY <1>4 DEF TriageReturns, OnlyMoves, TypeOK
<1>5. CASE \E t \in Tasks : NudgeArrives(t, w)
  BY <1>5 DEF NudgeArrives, OnlyMoves, TypeOK
<1> QED
  BY <1>2, <1>3, <1>4, <1>5

(***************************************************************************)
(* A claim that is handed over, and one whose answer is lost.              *)
(***************************************************************************)
LEMMA ServeTaskMoves ==
  ASSUME Inv, NEW w \in Workers, NEW t \in Tasks, ServeTask(w, t)
  PROVE  \/ /\ OnlyMoves(w) /\ agent' = agent /\ faults' = faults
            /\ doing'[w] = "triaging" /\ holding'[w] = t
         \/ Ends(w) /\ Fault
<1>1. CASE /\ doing' = [doing EXCEPT ![w] = "triaging"]
           /\ holding' = [holding EXCEPT ![w] = t]
           /\ UNCHANGED <<agent, faults>>
  BY <1>1 DEF OnlyMoves, Inv, TypeOK
<1>2. CASE Fault /\ WorkerRaises(w)
  BY <1>2, WorkerEnds DEF ServeTask
<1> QED
  BY <1>1, <1>2 DEF ServeTask

(* A crash takes every worker of the agent with it, and no other.          *)
LEMMA AgentCrashMoves ==
  ASSUME Inv, NEW a \in Agents, AgentCrash(a)
  PROVE  /\ doing' \in [Workers -> {"idle", "asking", "triaging", "reporting"}]
         /\ holding' \in [Workers -> Tasks \cup {None}]
         /\ agent' \in [Agents -> {"down", "draining", "binding", "serving"}]
         /\ agent'[a] = "down" /\ \A b \in Agents : b # a => agent'[b] = agent[b]
         /\ \A x \in Workers : IF HostOf[x] = a THEN doing'[x] = "idle" /\ holding'[x] = None
                               ELSE doing'[x] = doing[x] /\ holding'[x] = holding[x]
  BY DEF AgentCrash, AgentStops, Inv, TypeOK

-----------------------------------------------------------------------------
(* The queue's part of a step.                                             *)

(***************************************************************************)
(* Every step takes one of the queue's own steps or leaves the queue       *)
(* alone: a worker reports on a task that it was handed.                   *)
(***************************************************************************)
LEMMA NextIsLifecycle ==
  ASSUME Inv, [Next]_vars
  PROVE  [LifecycleNext]_lifecycleVars
<1> USE DEF Inv, historyVars, processVars
<1>1. ASSUME NEW t \in Tasks, NEW a \in Agents, Dispatch(t, a)
      PROVE  LifecycleNext
  BY <1>1 DEF Dispatch, LifecycleNext
<1>2. ASSUME NEW w \in Workers, NEW t \in Tasks, ServeTask(w, t)
      PROVE  LifecycleNext
  BY <1>2, HostOfType DEF ServeTask, LifecycleNext
<1>3. ASSUME NEW w \in Workers, NEW d \in Decisions, ServeComplete(w, d)
      PROVE  LifecycleNext
  <2>1. holding[w] \in Tasks
    BY <1>3 DEF ServeComplete, WorkIsOfRows, TypeOK
  <2> QED
    BY <1>3, <2>1 DEF ServeComplete, LifecycleNext
<1>4. ASSUME NEW t \in Tasks, DrainDone(t)
      PROVE  LifecycleNext
  BY <1>4 DEF DrainDone, LifecycleNext
<1>5. ASSUME NEW S \in SUBSET Claimed, Sweep(S)
      PROVE  LifecycleNext
  BY <1>5 DEF Sweep, LifecycleNext
<1>6. CASE EndSweep
  BY <1>6 DEF EndSweep, LifecycleNext
<1>13. CASE SweepFails
  BY <1>13 DEF SweepFails
<1>7. ASSUME NEW t \in Tasks, NudgeFails(t)
      PROVE  UNCHANGED lifecycleVars
  BY <1>7 DEF NudgeFails
<1>8. ASSUME NEW t \in Tasks, NEW w \in Workers, NudgeArrives(t, w)
      PROVE  UNCHANGED lifecycleVars
  BY <1>8 DEF NudgeArrives
<1>9. ASSUME NEW w \in Workers,
             \/ AgentStart(w) \/ ServeNothing(w) \/ Triage(w) \/ RequestFails(w)
      PROVE  UNCHANGED lifecycleVars
  BY <1>9 DEF AgentStart, ServeNothing, Triage, TriageReturns, TriageRaises, RequestFails
<1>10. ASSUME NEW a \in Agents, AgentListens(a) \/ AgentCrash(a)
       PROVE  UNCHANGED lifecycleVars
  BY <1>10 DEF AgentListens, AgentCrash
<1>11. CASE HarnessCrash \/ HarnessRestart
  BY <1>11 DEF HarnessCrash, HarnessRestart
<1>12. CASE UNCHANGED vars
  BY <1>12 DEF vars
<1> QED
  BY <1>1, <1>2, <1>3, <1>4, <1>5, <1>6, <1>7, <1>8, <1>9, <1>10, <1>11, <1>12, <1>13
     DEF Next, Serve

(***************************************************************************)
(* A row keeps its agent; a new one gets an agent.                         *)
(***************************************************************************)
RowsStay ==
    \A t \in Tasks :
        /\ status[t] # "absent" => status'[t] # "absent" /\ agentUrl'[t] = agentUrl[t]
        /\ status[t] = "absent" /\ status'[t] # "absent" => agentUrl'[t] \in Agents

(* The queue's steps keep its types, and its rows stay.                    *)
LEMMA LifecycleTypes ==
  ASSUME LifecycleTypeOK, \A t \in Tasks : RetriesCountAttempts(t),
         [LifecycleNext]_lifecycleVars
  PROVE  LifecycleTypeOK' /\ RowsStay
<1> USE DEF LifecycleTypeOK, Statuses, RowsStay
<1>1. ASSUME NEW t \in Tasks, NEW a \in Agents, Submit(t, a)
      PROVE  LifecycleTypeOK' /\ RowsStay
  BY <1>1 DEF Submit
<1>2. ASSUME NEW t \in Tasks, NEW a \in Agents, HandOut(t, a)
      PROVE  LifecycleTypeOK' /\ RowsStay
  BY <1>2 DEF HandOut
<1>3. ASSUME NEW t \in Tasks, NEW d \in Decisions, Decide(t, d)
      PROVE  LifecycleTypeOK' /\ RowsStay
  <2>1. status[t] # "absent"
    BY <1>3 DEF Decide, RetriesCountAttempts
  <2> QED
    BY <1>3, <2>1 DEF Decide
<1>4. ASSUME NEW t \in Tasks, Close(t)
      PROVE  LifecycleTypeOK' /\ RowsStay
  BY <1>4 DEF Close
<1>5. ASSUME NEW S \in SUBSET Claimed, Expire(S)
      PROVE  LifecycleTypeOK' /\ RowsStay
  BY <1>5 DEF Expire, Claimed
<1>6. CASE GiveUp
  BY <1>6 DEF GiveUp, IsExhausted
<1>7. CASE UNCHANGED lifecycleVars
  BY <1>7 DEF lifecycleVars
<1> QED
  BY <1>1, <1>2, <1>3, <1>4, <1>5, <1>6, <1>7 DEF LifecycleNext

-----------------------------------------------------------------------------
(* TypeOK.                                                                 *)

(***************************************************************************)
(* A wake-up more is owed to one agent.                                    *)
(***************************************************************************)
LEMMA OwedTypes ==
  ASSUME TypeOK, NEW a \in Agents, NEW m \in Nat,
         owed' = [owed EXCEPT ![a] = Owing(@, m)]
  PROVE  /\ owed' \in [Agents -> 0..Cardinality(Tasks)]
         /\ owed'[a] = Owing(owed[a], m)
         /\ \A b \in Agents : b # a => owed'[b] = owed[b]
<1>1. owed[a] \in 0..Cardinality(Tasks)
  BY DEF TypeOK
<1>2. Owing(owed[a], m) \in 0..Cardinality(Tasks)
  BY <1>1, OwingCovers
<1> QED
  BY <1>2 DEF TypeOK

(* A fault more, and torn sweeps that stay.                                *)
LEMMA FaultTypes ==
  ASSUME TypeOK, Fault \/ UNCHANGED faults
  PROVE  /\ faults' \in 0..MaxFaults
         /\ \A n \in 0..(crashes + faults) : n \in 0..(crashes + faults')
  BY BoundsAreNat DEF Fault, TypeOK

(***************************************************************************)
(* Steps of the harness.                                                   *)
(***************************************************************************)
LEMMA HarnessTypes ==
  ASSUME Inv, LifecycleTypeOK',
         \/ \E t \in Tasks, a \in Agents : Dispatch(t, a)
         \/ \E t \in Tasks : NudgeFails(t) \/ DrainDone(t)
         \/ \E S \in SUBSET Claimed : Sweep(S)
         \/ EndSweep \/ SweepFails \/ HarnessCrash \/ HarnessRestart
  PROVE  TypeOK'
<1> USE DEF Inv, historyVars, processVars
<1>1. ASSUME NEW t \in Tasks, NEW a \in Agents, Dispatch(t, a)
      PROVE  TypeOK'
  BY <1>1 DEF Dispatch, TypeOK
<1>2. ASSUME NEW t \in Tasks, NudgeFails(t)
      PROVE  TypeOK'
  <2>1. agentUrl[t] \in Agents
    BY <1>2 DEF NudgeFails, WorkIsOfRows
  <2>2. owed' \in [Agents -> 0..Cardinality(Tasks)]
    BY <1>2, <2>1, OwedTypes DEF NudgeFails
  <2> QED
    BY <1>2, <2>2, FaultTypes DEF NudgeFails, TypeOK
<1>3. ASSUME NEW t \in Tasks, DrainDone(t)
      PROVE  TypeOK'
  BY <1>3 DEF DrainDone, TypeOK
<1>4. ASSUME NEW S \in SUBSET Claimed, Sweep(S)
      PROVE  TypeOK'
  <2>1. owed' \in [Agents -> 0..Cardinality(Tasks)]
    <3> SUFFICES ASSUME NEW a \in Agents
                 PROVE  Owing(owed[a], Cardinality({t \in S : agentUrl[t] = a})) \in 0..Cardinality(Tasks)
      BY <1>4 DEF Sweep
    <3>1. Cardinality({t \in S : agentUrl[t] = a}) \in Nat /\ owed[a] \in 0..Cardinality(Tasks)
      BY SetsAreFinite DEF Claimed, TypeOK
    <3> QED
      BY <3>1, OwingCovers
  <2> QED
    BY <1>4, <2>1 DEF Sweep, TypeOK
<1>5. CASE EndSweep
  BY <1>5 DEF EndSweep, TypeOK
<1>8. CASE SweepFails
  <2>1. faults' \in 0..MaxFaults /\ tornSweeps' \in 0..(crashes + faults')
    BY <1>8, BoundsAreNat DEF SweepFails, Fault, TypeOK
  <2> QED
    BY <1>8, <2>1 DEF SweepFails, TypeOK
<1>6. CASE HarnessCrash
  <2>1. owed' \in [Agents -> 0..Cardinality(Tasks)]
    <3> SUFFICES ASSUME NEW a \in Agents
                 PROVE  Owing(owed[a], Cardinality({t \in nudges : agentUrl[t] = a})) \in 0..Cardinality(Tasks)
      BY <1>6 DEF HarnessCrash
    <3>1. Cardinality({t \in nudges : agentUrl[t] = a}) \in Nat /\ owed[a] \in 0..Cardinality(Tasks)
      BY SetsAreFinite DEF TypeOK
    <3> QED
      BY <3>1, OwingCovers
  <2>2. crashes' \in 0..MaxCrashes /\ tornSweeps' \in 0..(crashes' + faults)
    BY <1>6, BoundsAreNat DEF HarnessCrash, TypeOK
  <2> QED
    BY <1>6, <2>1, <2>2 DEF HarnessCrash, TypeOK
<1>7. CASE HarnessRestart
  BY <1>7 DEF HarnessRestart, TypeOK
<1> QED
  BY <1>1, <1>2, <1>3, <1>4, <1>5, <1>6, <1>7, <1>8

(***************************************************************************)
(* Steps of the agents.                                                    *)
(***************************************************************************)
LEMMA AgentTypes ==
  ASSUME Inv, LifecycleTypeOK',
         \/ \E t \in Tasks, w \in Workers : NudgeArrives(t, w)
         \/ \E w \in Workers : AgentStart(w) \/ Serve(w) \/ Triage(w) \/ RequestFails(w)
         \/ \E a \in Agents : AgentListens(a) \/ AgentCrash(a)
  PROVE  TypeOK'
<1> USE DEF Inv, historyVars
<1>1. ASSUME NEW w \in Workers,
             \/ AgentStart(w) \/ TriageReturns(w) \/ \E t \in Tasks : NudgeArrives(t, w)
      PROVE  TypeOK'
  <2>1. OnlyMoves(w) /\ holding' = holding
    BY <1>1, WorkerMoves
  <2>2. nudges' \subseteq nudges
    BY <1>1 DEF AgentStart, TriageReturns, NudgeArrives
  <2>3. /\ UNCHANGED <<harness, crashes, faults>>
        /\ UNCHANGED <<tornSweeps, owed>>
    BY <1>1 DEF AgentStart, TriageReturns, NudgeArrives
  <2> QED
    BY <2>1, <2>2, <2>3 DEF TypeOK, OnlyMoves
<1>2. ASSUME NEW w \in Workers, ServeNothing(w)
      PROVE  TypeOK'
  <2>1. OnlyMoves(w) /\ holding' = holding
    BY <1>2, WorkerMoves
  <2>2. owed' \in [Agents -> 0..Cardinality(Tasks)]
    <3>1. 0 \in 0..Cardinality(Tasks) /\ owed \in [Agents -> 0..Cardinality(Tasks)]
      BY SetsAreFinite DEF TypeOK
    <3>2. owed' = [owed EXCEPT ![HostOf[w]] = 0]
      BY <1>2 DEF ServeNothing
    <3> QED
      BY <3>1, <3>2
  <2>3. UNCHANGED <<lifecycleVars, harness, nudges, crashes, faults, tornSweeps>>
    BY <1>2 DEF ServeNothing
  <2> QED
    BY <2>1, <2>2, <2>3 DEF TypeOK, OnlyMoves
<1>3. ASSUME NEW w \in Workers, NEW t \in Tasks, ServeTask(w, t)
      PROVE  TypeOK'
  <2>1. OnlyMoves(w) /\ (Fault \/ UNCHANGED faults)
    BY <1>3, ServeTaskMoves DEF Ends
  <2>2. UNCHANGED <<harness, nudges, crashes, tornSweeps, owed>>
    BY <1>3 DEF ServeTask
  <2> QED
    BY <2>1, <2>2, FaultTypes DEF TypeOK, OnlyMoves
<1>4. ASSUME NEW w \in Workers, NEW d \in Decisions, ServeComplete(w, d)
      PROVE  TypeOK'
  <2>1. OnlyMoves(w) /\ (Fault \/ UNCHANGED faults)
    BY <1>4, WorkerEnds DEF ServeComplete, Ends
  <2>2. UNCHANGED <<harness, nudges, crashes, tornSweeps, owed>>
    BY <1>4 DEF ServeComplete
  <2> QED
    BY <2>1, <2>2, FaultTypes DEF TypeOK, OnlyMoves
<1>5. ASSUME NEW w \in Workers, TriageRaises(w)
      PROVE  TypeOK'
  <2>1. OnlyMoves(w)
    BY <1>5, WorkerEnds DEF TriageRaises, Ends
  <2>2. UNCHANGED <<lifecycleVars, harness, nudges, historyVars>>
    BY <1>5 DEF TriageRaises
  <2> QED
    BY <2>1, <2>2 DEF TypeOK, OnlyMoves
<1>6. ASSUME NEW w \in Workers, RequestFails(w)
      PROVE  TypeOK'
  <2>1. OnlyMoves(w) /\ (Fault \/ UNCHANGED faults)
    BY <1>6, WorkerEnds DEF RequestFails, Ends
  <2>2. owed' \in [Agents -> 0..Cardinality(Tasks)]
    BY <1>6, HostOfType, OwedTypes DEF RequestFails, TypeOK
  <2>3. UNCHANGED <<lifecycleVars, harness, nudges, crashes, tornSweeps>>
    BY <1>6 DEF RequestFails
  <2> QED
    BY <2>1, <2>2, <2>3, FaultTypes DEF TypeOK, OnlyMoves
<1>7. ASSUME NEW a \in Agents, AgentListens(a)
      PROVE  TypeOK'
  BY <1>7 DEF AgentListens, TypeOK
<1>8. ASSUME NEW a \in Agents, AgentCrash(a)
      PROVE  TypeOK'
  <2>1. Cardinality(Asking(a)) \in Nat
    BY SetsAreFinite DEF Asking, WorkersOf
  <2>2. owed' \in [Agents -> 0..Cardinality(Tasks)]
    BY <1>8, <2>1, OwedTypes DEF AgentCrash
  <2>3. crashes' \in 0..MaxCrashes /\ tornSweeps \in 0..(crashes' + faults)
    BY <1>8, BoundsAreNat DEF AgentCrash, TypeOK
  <2>4. UNCHANGED <<lifecycleVars, harness, nudges, faults, tornSweeps>>
    BY <1>8 DEF AgentCrash
  <2> QED
    BY <1>8, <2>2, <2>3, <2>4, AgentCrashMoves DEF TypeOK
<1> QED
  BY <1>1, <1>2, <1>3, <1>4, <1>5, <1>6, <1>7, <1>8 DEF Serve, Triage

(* The types through every step; the rows stay in each.                    *)
LEMMA NextTypes ==
  ASSUME Inv, [Next]_vars
  PROVE  TypeOK' /\ RowsStay
<1>1. LifecycleTypeOK' /\ RowsStay
  BY NextIsLifecycle, LifecycleTypes DEF Inv, TypeOK, AttemptsCounted
<1>2. CASE UNCHANGED vars
  BY <1>1, <1>2 DEF Inv, TypeOK, vars, processVars, historyVars
<1> QED
  BY <1>1, <1>2, HarnessTypes, AgentTypes DEF Next

-----------------------------------------------------------------------------
(* WorkIsOfRows and StartupIsAlone.                                        *)

(***************************************************************************)
(* Steps that leave the agents' processes alone.                           *)
(***************************************************************************)
LEMMA HarnessWork ==
  ASSUME Inv, TypeOK', RowsStay,
         \/ \E t \in Tasks, a \in Agents : Dispatch(t, a)
         \/ \E t \in Tasks : NudgeFails(t) \/ DrainDone(t)
         \/ \E S \in SUBSET Claimed : Sweep(S)
         \/ EndSweep \/ SweepFails \/ HarnessCrash \/ HarnessRestart \/ UNCHANGED vars
  PROVE  WorkIsOfRows' /\ StartupIsAlone'
<1>1. UNCHANGED <<agent, doing, holding>>
  BY DEF Dispatch, NudgeFails, DrainDone, Sweep, EndSweep, SweepFails, HarnessCrash, HarnessRestart,
         vars, processVars
<1>2. ASSUME NEW t \in nudges' PROVE t \in nudges \/ status'[t] # "absent"
  <2>1. CASE \E u \in Tasks, a \in Agents : Dispatch(u, a)
    <3>1. PICK u \in Tasks, a \in Agents : Dispatch(u, a)
      BY <2>1
    <3>2. status'[u] = "pending" /\ nudges' = nudges \cup {u}
      BY <3>1 DEF Dispatch, Submit, Inv, TypeOK, LifecycleTypeOK
    <3> QED
      BY <1>2, <3>2
  <2>2. CASE ~ \E u \in Tasks, a \in Agents : Dispatch(u, a)
    <3>1. nudges' \subseteq nudges
      BY <2>2 DEF NudgeFails, DrainDone, Sweep, EndSweep, SweepFails, HarnessCrash, HarnessRestart,
                  vars, processVars
    <3> QED
      BY <1>2, <3>1
  <2> QED
    BY <2>1, <2>2
<1>3. \A t \in Tasks : status'[t] # "absent" => agentUrl'[t] \in Agents
  BY DEF RowsStay, Inv, WorkIsOfRows
<1>4. \A t \in nudges' : status'[t] # "absent"
  BY <1>2 DEF RowsStay, Inv, WorkIsOfRows, TypeOK
<1>5. WorkIsOfRows'
  BY <1>1, <1>3, <1>4 DEF RowsStay, Inv, WorkIsOfRows
<1> QED
  BY <1>1, <1>5 DEF Inv, StartupIsAlone, WorkersOf

(***************************************************************************)
(* Steps of one worker.                                                    *)
(***************************************************************************)
LEMMA WorkerWork ==
  ASSUME Inv, TypeOK', RowsStay, NEW w \in Workers, nudges' \subseteq nudges,
         OnlyMoves(w),
         holding'[w] # None <=> doing'[w] \in {"triaging", "reporting"},
         holding'[w] \in Tasks => status'[holding'[w]] # "absent"
  PROVE  WorkIsOfRows'
<1>1. \A t \in Tasks : status'[t] # "absent" => agentUrl'[t] \in Agents
  BY DEF RowsStay, Inv, WorkIsOfRows
<1>2. \A t \in nudges' : status'[t] # "absent"
  BY DEF RowsStay, Inv, WorkIsOfRows, TypeOK
<1>3. ASSUME NEW x \in Workers
      PROVE  /\ holding'[x] # None <=> doing'[x] \in {"triaging", "reporting"}
             /\ holding'[x] \in Tasks => status'[holding'[x]] # "absent"
  BY DEF OnlyMoves, RowsStay, Inv, WorkIsOfRows
<1> QED
  BY <1>1, <1>2, <1>3 DEF WorkIsOfRows

(* What one worker's step may do for StartupIsAlone to last.               *)
LEMMA WorkerAlone ==
  ASSUME Inv, NEW w \in Workers, OnlyMoves(w),
         \/ doing'[w] = "idle" /\ agent' = agent
         \/ doing'[w] # "idle" /\ agent' = agent /\ doing[w] # "idle"
         \/ doing'[w] # "idle" /\ agent' = agent /\ agent[HostOf[w]] = "serving"
         \/ doing'[w] # "idle" /\ agent'[HostOf[w]] = "draining" /\ agent[HostOf[w]] = "down"
         \/ \A x \in WorkersOf(HostOf[w]) : doing'[x] = "idle"
  PROVE  StartupIsAlone'
<1>1. HostOf[w] \in Agents /\ \A x \in Workers : HostOf[x] \in Agents
  BY HostOfType
<1> SUFFICES ASSUME NEW x \in Workers, doing'[x] # "idle"
             PROVE  /\ agent'[HostOf[x]] \in {"draining", "serving"}
                    /\ agent'[HostOf[x]] = "draining" =>
                           \A y \in WorkersOf(HostOf[x]) : doing'[y] # "idle" => x = y
  BY DEF StartupIsAlone, WorkersOf
<1>2. CASE HostOf[x] # HostOf[w]
  BY <1>1, <1>2 DEF OnlyMoves, Inv, StartupIsAlone, WorkersOf
<1>3. CASE HostOf[x] = HostOf[w] /\ agent' = agent
  BY <1>1, <1>3 DEF OnlyMoves, Inv, StartupIsAlone, WorkersOf
<1>4. CASE /\ HostOf[x] = HostOf[w]
           /\ agent'[HostOf[w]] = "draining" /\ agent[HostOf[w]] = "down"
  <2>1. \A y \in WorkersOf(HostOf[w]) : y # w => doing'[y] = "idle"
    BY <1>4 DEF OnlyMoves, Inv, StartupIsAlone, WorkersOf
  <2> QED
    BY <1>4, <2>1 DEF WorkersOf
<1>5. CASE HostOf[x] = HostOf[w] /\ \A y \in WorkersOf(HostOf[w]) : doing'[y] = "idle"
  BY <1>5 DEF WorkersOf
<1> QED
  BY <1>2, <1>3, <1>4, <1>5

(* The steps of an agent or of one of its workers.                         *)
LEMMA AgentWork ==
  ASSUME Inv, TypeOK', RowsStay,
         \/ \E t \in Tasks, w \in Workers : NudgeArrives(t, w)
         \/ \E w \in Workers : AgentStart(w) \/ Serve(w) \/ Triage(w) \/ RequestFails(w)
         \/ \E a \in Agents : AgentListens(a) \/ AgentCrash(a)
  PROVE  WorkIsOfRows' /\ StartupIsAlone'
<1>1. ASSUME NEW w \in Workers, OnlyMoves(w), holding' = holding, nudges' \subseteq nudges,
             doing[w] \in {"triaging", "reporting"} <=> doing'[w] \in {"triaging", "reporting"}
      PROVE  WorkIsOfRows'
  BY <1>1, WorkerWork DEF RowsStay, Inv, WorkIsOfRows
<1>2. ASSUME NEW w \in Workers, Ends(w), doing[w] # "idle", nudges' \subseteq nudges
      PROVE  WorkIsOfRows' /\ StartupIsAlone'
  <2>1. WorkIsOfRows'
    BY <1>2, WorkerWork, NoneIsNoTask DEF Ends
  <2> QED
    BY <1>2, <2>1, WorkerAlone DEF Ends
<1>3. ASSUME NEW w \in Workers,
             \/ AgentStart(w) \/ ServeNothing(w) \/ TriageReturns(w)
             \/ \E t \in Tasks : NudgeArrives(t, w)
      PROVE  WorkIsOfRows' /\ StartupIsAlone'
  <2>1. OnlyMoves(w) /\ holding' = holding
    BY <1>3, WorkerMoves
  <2>2. nudges' \subseteq nudges
    BY <1>3 DEF AgentStart, ServeNothing, TriageReturns, NudgeArrives
  <2>3. doing[w] \in {"triaging", "reporting"} <=> doing'[w] \in {"triaging", "reporting"}
    BY <1>3, WorkerMoves
  <2>4. WorkIsOfRows'
    BY <1>1, <2>1, <2>2, <2>3
  <2>5. CASE doing'[w] = "idle" /\ agent[HostOf[w]] = "draining" /\ doing[w] # "idle"
    <3>1. \A x \in WorkersOf(HostOf[w]) : doing'[x] = "idle"
      BY <2>1, <2>5 DEF OnlyMoves, Inv, StartupIsAlone, WorkersOf
    <3> QED
      BY <2>1, <2>4, <3>1, WorkerAlone
  <2>6. \/ doing'[w] = "idle" /\ agent' = agent
        \/ doing'[w] # "idle" /\ agent' = agent /\ doing[w] # "idle"
        \/ doing'[w] # "idle" /\ agent' = agent /\ agent[HostOf[w]] = "serving"
        \/ doing'[w] # "idle" /\ agent'[HostOf[w]] = "draining" /\ agent[HostOf[w]] = "down"
        \/ doing'[w] = "idle" /\ agent[HostOf[w]] = "draining" /\ doing[w] # "idle"
    BY <1>3, WorkerMoves
  <2>7. StartupIsAlone'
    BY <2>1, <2>5, <2>6, WorkerAlone
  <2> QED
    BY <2>4, <2>7
<1>4. ASSUME NEW w \in Workers, NEW t \in Tasks, ServeTask(w, t)
      PROVE  WorkIsOfRows' /\ StartupIsAlone'
  <2>1. doing[w] = "asking" /\ nudges' = nudges
    BY <1>4 DEF ServeTask
  <2>2. status'[t] = "claimed"
    BY <1>4 DEF ServeTask, HandOut, Inv, TypeOK, LifecycleTypeOK
  <2>3. CASE OnlyMoves(w) /\ agent' = agent /\ doing'[w] = "triaging" /\ holding'[w] = t
    <3>1. WorkIsOfRows'
      BY <2>1, <2>2, <2>3, WorkerWork, NoneIsNoTask
    <3>2. StartupIsAlone'
      BY <2>1, <2>3, WorkerAlone
    <3> QED
      BY <3>1, <3>2
  <2> QED
    BY <1>2, <1>4, <2>1, <2>3, ServeTaskMoves
<1>5. ASSUME NEW w \in Workers,
             (\E d \in Decisions : ServeComplete(w, d)) \/ TriageRaises(w) \/ RequestFails(w)
      PROVE  WorkIsOfRows' /\ StartupIsAlone'
  <2>1. doing[w] # "idle" /\ nudges' = nudges /\ (WorkerGoesOn(w) \/ WorkerRaises(w))
    BY <1>5 DEF ServeComplete, TriageRaises, RequestFails
  <2> QED
    BY <1>2, <2>1, WorkerEnds
<1>6. ASSUME NEW a \in Agents, AgentListens(a)
      PROVE  WorkIsOfRows' /\ StartupIsAlone'
  <2>1. /\ UNCHANGED <<doing, holding, nudges>>
        /\ agent[a] = "binding" /\ agent' = [agent EXCEPT ![a] = "serving"]
    BY <1>6 DEF AgentListens
  <2>2. \A t \in Tasks : status'[t] # "absent" => agentUrl'[t] \in Agents
    BY DEF RowsStay, Inv, WorkIsOfRows
  <2>3. WorkIsOfRows'
    BY <2>1, <2>2 DEF RowsStay, Inv, TypeOK, WorkIsOfRows
  <2> QED
    BY <2>1, <2>3, HostOfType DEF Inv, TypeOK, StartupIsAlone, WorkersOf
<1>7. ASSUME NEW a \in Agents, AgentCrash(a)
      PROVE  WorkIsOfRows' /\ StartupIsAlone'
  <2>1. nudges' = nudges
    BY <1>7 DEF AgentCrash
  <2>2. \A t \in Tasks : status'[t] # "absent" => agentUrl'[t] \in Agents
    BY DEF RowsStay, Inv, WorkIsOfRows
  <2>3. ASSUME NEW x \in Workers
        PROVE  /\ holding'[x] # None <=> doing'[x] \in {"triaging", "reporting"}
               /\ holding'[x] \in Tasks => status'[holding'[x]] # "absent"
    BY <1>7, AgentCrashMoves, NoneIsNoTask DEF RowsStay, Inv, WorkIsOfRows
  <2>4. WorkIsOfRows'
    BY <2>1, <2>2, <2>3 DEF RowsStay, Inv, TypeOK, WorkIsOfRows
  <2>5. StartupIsAlone'
    BY <1>7, AgentCrashMoves, HostOfType DEF Inv, StartupIsAlone, WorkersOf
  <2> QED
    BY <2>4, <2>5
<1> QED
  BY <1>3, <1>4, <1>5, <1>6, <1>7 DEF Serve, Triage

(* Every step.                                                             *)
LEMMA NextWork ==
  ASSUME Inv, [Next]_vars
  PROVE  WorkIsOfRows' /\ StartupIsAlone'
  BY NextTypes, HarnessWork, AgentWork DEF Next

-----------------------------------------------------------------------------
(* AttemptsCounted.                                                        *)

LEMMA LimitIsPositive == Limit \in Nat /\ Limit >= 1 /\ Limit >= MaxRetries
  BY MaxRetriesIsNat DEF Limit

(***************************************************************************)
(* A step that leaves a task's row alone, and does not make good for a     *)
(* sweep that was torn.                                                    *)
(***************************************************************************)
SameRow(t) ==
    /\ status'[t] = status[t] /\ retryCount'[t] = retryCount[t]
    /\ attempts'[t] = attempts[t]

(* Such a step keeps AttemptsCounted.                                      *)
LEMMA RowKept ==
  ASSUME Inv, TypeOK', NEW t \in Tasks, SameRow(t),
         tornSweeps' >= tornSweeps, Torn(t)' >= Torn(t)
  PROVE  AttemptsCounted(t)'
<1>1. /\ retryCount[t] \in Nat /\ attempts[t] \in Nat
      /\ tornSweeps \in Nat /\ tornSweeps' \in Nat
      /\ Torn(t) \in Nat /\ Torn(t)' \in Nat
  <2>1. /\ retryCount[t] \in Nat /\ attempts[t] \in Nat
        /\ tornSweeps \in Nat
    BY DEF Inv, TypeOK, LifecycleTypeOK
  <2>2. tornSweeps' \in Nat
    BY DEF TypeOK
  <2>3. Torn(t) \in {tornSweeps + 0, tornSweeps + 1}
    BY Zenon DEF Torn
  <2>4. Torn(t)' \in {tornSweeps' + 0, tornSweeps' + 1}
    BY Zenon DEF Torn
  <2> QED
    BY <2>1, <2>2, <2>3, <2>4
<1>2. AttemptsCounted(t)
  BY DEF Inv
<1> QED
  BY <1>1, <1>2, LimitIsPositive
     DEF SameRow, AttemptsCounted, RetriesCountAttempts, ExhaustedIsFailed

(***************************************************************************)
(* The first sweep after the expiry fails a task at the limit, unless a    *)
(* crash or an exception comes between its two calls.                      *)
(***************************************************************************)
LEMMA SweepAttempts ==
  ASSUME Inv, TypeOK', NEW t \in Tasks,
         (\E S \in SUBSET Claimed : Sweep(S)) \/ EndSweep \/ SweepFails \/ HarnessCrash \/ HarnessRestart
  PROVE  AttemptsCounted(t)'
<1> USE DEF Inv
<1>1. /\ retryCount[t] \in Nat /\ attempts[t] \in Nat /\ tornSweeps \in Nat
      /\ retryCount \in [Tasks -> Nat] /\ status \in [Tasks -> Statuses]
  BY DEF TypeOK, LifecycleTypeOK
<1>2. AttemptsCounted(t)
  OBVIOUS
<1>3. ASSUME NEW S \in SUBSET Claimed, Sweep(S)
      PROVE  AttemptsCounted(t)'
  <2>1. /\ harness = "waiting" /\ harness' = "sweeping" /\ tornSweeps' = tornSweeps
        /\ attempts' = attempts
        /\ status' = [u \in Tasks |-> IF u \in S THEN "pending" ELSE status[u]]
        /\ retryCount' = [u \in Tasks |-> IF u \in S THEN retryCount[u] + 1 ELSE retryCount[u]]
    BY <1>3 DEF Sweep, LoopIsFree, Expire
  <2>2. CASE t \in S
    <3>1. /\ status[t] = "claimed" /\ status'[t] = "pending"
          /\ retryCount'[t] = retryCount[t] + 1 /\ attempts'[t] = attempts[t]
      BY <2>1, <2>2 DEF Claimed
    <3>2. Torn(t)' = tornSweeps + 1 /\ Torn(t) = tornSweeps
      BY <1>1, <2>1, <3>1 DEF Torn
    <3> QED
      BY <1>1, <1>2, <2>1, <3>1, <3>2, LimitIsPositive
         DEF AttemptsCounted, RetriesCountAttempts, ExhaustedIsFailed
  <2>3. CASE t \notin S
    <3>1. SameRow(t)
      BY <2>1, <2>3 DEF SameRow
    <3>2. Torn(t)' >= Torn(t) /\ tornSweeps' >= tornSweeps
      BY <1>1, <2>1, <3>1 DEF Torn, SameRow
    <3> QED
      BY <3>1, <3>2, RowKept
  <2> QED
    BY <2>2, <2>3
<1>4. CASE EndSweep
  <2>1. /\ harness' = "waiting" /\ tornSweeps' = tornSweeps
        /\ attempts' = attempts /\ retryCount' = retryCount
        /\ status' = [u \in Tasks |-> IF IsExhausted(u) THEN "failed" ELSE status[u]]
    BY <1>4 DEF EndSweep, GiveUp, historyVars
  <2>2. Torn(t)' = tornSweeps /\ (Torn(t) = tornSweeps \/ status[t] = "pending")
    BY <1>1, <2>1 DEF Torn
  <2>3. CASE IsExhausted(t)
    BY <1>1, <1>2, <2>1, <2>3
       DEF AttemptsCounted, RetriesCountAttempts, ExhaustedIsFailed
  <2>4. CASE ~IsExhausted(t)
    <3>1. SameRow(t)
      BY <2>1, <2>4 DEF SameRow
    <3>2. status[t] = "pending" => retryCount[t] < MaxRetries
      BY <1>1, <2>4, MaxRetriesIsNat DEF IsExhausted
    <3> QED
      BY <1>1, <1>2, <2>1, <2>2, <3>1, <3>2, LimitIsPositive, MaxRetriesIsNat
         DEF SameRow, AttemptsCounted, RetriesCountAttempts, ExhaustedIsFailed
  <2> QED
    BY <2>3, <2>4
<1>5. CASE SweepFails \/ HarnessCrash \/ HarnessRestart
  <2>1. SameRow(t)
    BY <1>5 DEF SweepFails, HarnessCrash, HarnessRestart, SameRow, lifecycleVars
  <2>2. Torn(t)' >= Torn(t) /\ tornSweeps' >= tornSweeps
    BY <1>1, <1>5, <2>1
       DEF SweepFails, HarnessCrash, HarnessRestart, historyVars, Torn, SameRow
  <2> QED
    BY <2>1, <2>2, RowKept
<1> QED
  BY <1>3, <1>4, <1>5

(***************************************************************************)
(* Every step.                                                             *)
(***************************************************************************)
LEMMA NextAttempts ==
  ASSUME Inv, [Next]_vars, NEW t \in Tasks
  PROVE  AttemptsCounted(t)'
<1> USE DEF Inv
<1>1. /\ retryCount[t] \in Nat /\ attempts[t] \in Nat /\ tornSweeps \in Nat
      /\ attempts \in [Tasks -> Nat] /\ status \in [Tasks -> Statuses]
  BY DEF TypeOK, LifecycleTypeOK
<1>2. TypeOK' /\ AttemptsCounted(t)
  BY NextTypes
<1>3. ASSUME SameRow(t), UNCHANGED <<harness, tornSweeps>>
      PROVE  AttemptsCounted(t)'
  <2>1. tornSweeps' >= tornSweeps /\ Torn(t)' >= Torn(t)
    BY <1>1, <1>3 DEF Torn, SameRow
  <2> QED
    BY <1>2, <1>3, <2>1, RowKept
<1>4. ASSUME NEW u \in Tasks, NEW a \in Agents, Dispatch(u, a)
      PROVE  AttemptsCounted(t)'
  <2>1. /\ status[u] = "absent" /\ status' = [status EXCEPT ![u] = "pending"]
        /\ UNCHANGED <<retryCount, attempts, harness, tornSweeps>>
        /\ harness = "waiting"
    BY <1>4 DEF Dispatch, Submit, LoopIsFree, historyVars
  <2>2. CASE u = t
    BY <1>1, <1>2, <2>1, <2>2, LimitIsPositive
       DEF AttemptsCounted, RetriesCountAttempts, ExhaustedIsFailed, Torn
  <2>3. CASE u # t
    BY <1>1, <1>3, <2>1, <2>3 DEF SameRow
  <2> QED
    BY <2>2, <2>3
<1>5. ASSUME NEW w \in Workers, NEW u \in Tasks, ServeTask(w, u)
      PROVE  AttemptsCounted(t)'
  <2>1. /\ status[u] = "pending" /\ status' = [status EXCEPT ![u] = "claimed"]
        /\ attempts' = [attempts EXCEPT ![u] = @ + 1]
        /\ UNCHANGED <<retryCount, harness, tornSweeps>>
        /\ harness = "waiting"
    BY <1>5 DEF ServeTask, HandOut, LoopIsFree
  <2>2. CASE u = t
    <3>1. Torn(t) = tornSweeps /\ Torn(t)' = tornSweeps
      BY <1>1, <2>1, <2>2 DEF Torn
    <3>2. status'[t] = "claimed" /\ attempts'[t] = attempts[t] + 1
      BY <1>1, <2>1, <2>2
    <3> QED
      BY <1>1, <1>2, <2>1, <2>2, <3>1, <3>2, LimitIsPositive
         DEF AttemptsCounted, RetriesCountAttempts, ExhaustedIsFailed
  <2>3. CASE u # t
    BY <1>1, <1>3, <2>1, <2>3 DEF SameRow
  <2> QED
    BY <2>2, <2>3
<1>6. ASSUME NEW u \in Tasks, NEW s \in {"completed", "done"},
             status' = [status EXCEPT ![u] = s],
             UNCHANGED <<retryCount, attempts, harness, tornSweeps>>
      PROVE  AttemptsCounted(t)'
  <2>1. CASE u = t
    BY <1>1, <1>2, <1>6, <2>1
       DEF AttemptsCounted, RetriesCountAttempts, ExhaustedIsFailed
  <2>2. CASE u # t
    BY <1>1, <1>3, <1>6, <2>2 DEF SameRow
  <2> QED
    BY <2>1, <2>2
<1>7. ASSUME NEW w \in Workers, NEW d \in Decisions, ServeComplete(w, d)
      PROVE  AttemptsCounted(t)'
  <2>1. holding[w] \in Tasks
    BY <1>7 DEF ServeComplete, WorkIsOfRows, TypeOK
  <2> QED
    BY <1>6, <1>7, <2>1 DEF ServeComplete, Decide
<1>8. ASSUME NEW u \in Tasks, DrainDone(u)
      PROVE  AttemptsCounted(t)'
  BY <1>6, <1>8 DEF DrainDone, Close, processVars, historyVars
<1>9. ASSUME UNCHANGED <<lifecycleVars, harness, tornSweeps>>
      PROVE  AttemptsCounted(t)'
  BY <1>3, <1>9 DEF SameRow, lifecycleVars
<1>10. ASSUME NEW u \in Tasks, NudgeFails(u) \/ \E w \in Workers : NudgeArrives(u, w)
       PROVE  AttemptsCounted(t)'
  BY <1>9, <1>10 DEF NudgeFails, NudgeArrives, historyVars
<1>11. ASSUME NEW w \in Workers,
              \/ AgentStart(w) \/ ServeNothing(w) \/ Triage(w) \/ RequestFails(w)
       PROVE  AttemptsCounted(t)'
  BY <1>9, <1>11 DEF AgentStart, ServeNothing, Triage, TriageReturns, TriageRaises,
                     RequestFails, historyVars
<1>12. ASSUME NEW a \in Agents, AgentListens(a) \/ AgentCrash(a)
       PROVE  AttemptsCounted(t)'
  BY <1>9, <1>12 DEF AgentListens, AgentCrash, historyVars
<1>13. CASE UNCHANGED vars
  BY <1>9, <1>13 DEF vars, processVars, historyVars
<1>14. CASE (\E S \in SUBSET Claimed : Sweep(S)) \/ EndSweep \/ SweepFails \/ HarnessCrash \/ HarnessRestart
  BY <1>2, <1>14, SweepAttempts
<1> QED
  BY <1>4, <1>5, <1>7, <1>8, <1>10, <1>11, <1>12, <1>13, <1>14 DEF Next, Serve

-----------------------------------------------------------------------------
(* HoldersCounted.                                                         *)

(***************************************************************************)
(* What takes a task back from those who have it is an expiry, and it      *)
(* counts.                                                                 *)
(***************************************************************************)
LEMMA TakingBackCounts ==
  ASSUME LifecycleTypeOK, [LifecycleNext]_lifecycleVars, NEW t \in Tasks
  PROVE  /\ retryCount'[t] \in {retryCount[t], retryCount[t] + 1}
         /\ status'[t] \in {"pending", "failed"} =>
                \/ status[t] \in {"absent", "pending", "failed"}
                \/ retryCount'[t] = retryCount[t] + 1
<1> USE DEF LifecycleTypeOK
<1>1. ASSUME NEW u \in Tasks, NEW a \in Agents, Submit(u, a) \/ HandOut(u, a)
      PROVE  /\ retryCount' = retryCount
             /\ u = t => status[t] \in {"absent", "pending"}
             /\ u # t => status'[t] = status[t]
  BY <1>1 DEF Submit, HandOut
<1>2. ASSUME NEW u \in Tasks, NEW d \in Decisions, Decide(u, d)
      PROVE  /\ retryCount' = retryCount
             /\ u = t => status'[t] = "completed"
             /\ u # t => status'[t] = status[t]
  BY <1>2 DEF Decide
<1>3. ASSUME NEW u \in Tasks, Close(u)
      PROVE  /\ retryCount' = retryCount
             /\ u = t => status'[t] = "done"
             /\ u # t => status'[t] = status[t]
  BY <1>3 DEF Close
<1>4. ASSUME NEW S \in SUBSET Claimed, Expire(S)
      PROVE  /\ t \in S => retryCount'[t] = retryCount[t] + 1
             /\ t \notin S => retryCount'[t] = retryCount[t] /\ status'[t] = status[t]
  BY <1>4 DEF Expire, Claimed
<1>5. CASE GiveUp
  BY <1>5 DEF GiveUp, IsExhausted
<1>6. CASE UNCHANGED lifecycleVars
  BY <1>6 DEF lifecycleVars
<1> QED
  BY <1>1, <1>2, <1>3, <1>4, <1>5, <1>6 DEF LifecycleNext

(***************************************************************************)
(* A step that hands the task to nobody.                                   *)
(***************************************************************************)
LEMMA HoldersKept ==
  ASSUME Inv, [Next]_vars, NEW t \in Tasks, Holders(t)' \subseteq Holders(t)
  PROVE  HoldersCounted(t)'
<1>1. /\ retryCount'[t] \in {retryCount[t], retryCount[t] + 1}
      /\ status'[t] \in {"pending", "failed"} =>
             \/ status[t] \in {"absent", "pending", "failed"}
             \/ retryCount'[t] = retryCount[t] + 1
  BY NextIsLifecycle, TakingBackCounts DEF Inv, TypeOK
<1>2. Holders(t) \in SUBSET Workers /\ Holders(t)' \in SUBSET Workers
  BY DEF Holders
<1>3. Cardinality(Holders(t)') <= Cardinality(Holders(t))
  BY <1>2, SetsAreFinite, SubsetsAreSmaller
<1>4. Cardinality(Holders(t)) \in Nat /\ Cardinality(Holders(t)') \in Nat
  BY <1>2, SetsAreFinite
<1>5. status[t] = "absent" => Cardinality(Holders(t)) = 0
  <2>1. status[t] = "absent" => Holders(t) = {}
    BY DEF Holders, Inv, WorkIsOfRows
  <2> QED
    BY <2>1, FS_EmptySet
<1>6. retryCount[t] \in Nat /\ HoldersCounted(t)
  BY DEF Inv, TypeOK, LifecycleTypeOK
<1> QED
  BY <1>1, <1>3, <1>4, <1>5, <1>6 DEF HoldersCounted

(* Every step; only ServeTask gives a task a holder, and it was pending.   *)
LEMMA NextHolders ==
  ASSUME Inv, [Next]_vars, NEW t \in Tasks
  PROVE  HoldersCounted(t)'
<1>1. ASSUME NEW w \in Workers, NEW u \in Tasks, ServeTask(w, u),
             OnlyMoves(w), holding'[w] = u
      PROVE  HoldersCounted(t)'
  <2>1. CASE u = t
    <3>1. status[t] = "pending" /\ status'[t] = "claimed" /\ retryCount' = retryCount
      BY <1>1, <2>1 DEF ServeTask, HandOut, Inv, TypeOK, LifecycleTypeOK
    <3>2. Holders(t)' \subseteq Holders(t) \cup {w}
      BY <1>1, <2>1 DEF OnlyMoves, Holders
    <3>3. Holders(t) \in SUBSET Workers /\ {w} \in SUBSET Workers /\ Holders(t)' \in SUBSET Workers
      BY DEF Holders
    <3>4. /\ IsFiniteSet(Holders(t)) /\ IsFiniteSet({w})
          /\ Cardinality(Holders(t)) \in Nat /\ Cardinality(Holders(t)') \in Nat
          /\ Cardinality(Holders(t) \cup {w}) \in Nat
      BY <3>3, SetsAreFinite
    <3>5. Cardinality({w}) = 1
      BY FS_Singleton
    <3>6. /\ IsFiniteSet(Holders(t) \cup {w})
          /\ Cardinality(Holders(t) \cup {w}) <= Cardinality(Holders(t)) + 1
      BY <3>4, <3>5, UnionsAreBounded
    <3>7. Cardinality(Holders(t)') <= Cardinality(Holders(t) \cup {w})
      BY <3>2, <3>6, SubsetsAreSmaller
    <3>8. retryCount[t] \in Nat /\ HoldersCounted(t)
      BY DEF Inv, TypeOK, LifecycleTypeOK
    <3> QED
      BY <3>1, <3>4, <3>6, <3>7, <3>8 DEF HoldersCounted
  <2>2. CASE u # t
    <3>1. Holders(t)' \subseteq Holders(t)
      BY <1>1, <2>2 DEF OnlyMoves, Holders
    <3> QED
      BY <3>1, HoldersKept
  <2> QED
    BY <2>1, <2>2
<1>2. ASSUME NEW w \in Workers, Ends(w)
      PROVE  Holders(t)' \subseteq Holders(t)
  BY <1>2, NoneIsNoTask DEF Ends, OnlyMoves, Holders
<1>3. ASSUME NEW w \in Workers, NEW u \in Tasks, ServeTask(w, u)
      PROVE  HoldersCounted(t)'
  BY <1>1, <1>2, <1>3, ServeTaskMoves, HoldersKept
<1>4. ASSUME NEW w \in Workers,
             (\E d \in Decisions : ServeComplete(w, d)) \/ TriageRaises(w) \/ RequestFails(w)
      PROVE  HoldersCounted(t)'
  <2>1. doing[w] # "idle" /\ (WorkerGoesOn(w) \/ WorkerRaises(w))
    BY <1>4 DEF ServeComplete, TriageRaises, RequestFails
  <2> QED
    BY <1>2, <2>1, WorkerEnds, HoldersKept
<1>5. ASSUME NEW a \in Agents, AgentCrash(a)
      PROVE  HoldersCounted(t)'
  <2>1. Holders(t)' \subseteq Holders(t)
    BY <1>5, AgentCrashMoves, NoneIsNoTask DEF Holders
  <2> QED
    BY <2>1, HoldersKept
<1>6. ASSUME holding' = holding
      PROVE  HoldersCounted(t)'
  <2>1. Holders(t)' \subseteq Holders(t)
    BY <1>6 DEF Holders
  <2> QED
    BY <2>1, HoldersKept
<1>7. ASSUME NEW w \in Workers,
             AgentStart(w) \/ ServeNothing(w) \/ TriageReturns(w)
      PROVE  HoldersCounted(t)'
  BY <1>6, <1>7 DEF AgentStart, ServeNothing, TriageReturns
<1>8. CASE \/ \E u \in Tasks, a \in Agents : Dispatch(u, a)
           \/ \E u \in Tasks : NudgeFails(u) \/ DrainDone(u)
           \/ \E u \in Tasks, w \in Workers : NudgeArrives(u, w)
           \/ \E S \in SUBSET Claimed : Sweep(S)
           \/ EndSweep \/ SweepFails \/ HarnessCrash \/ HarnessRestart \/ UNCHANGED vars
           \/ \E a \in Agents : AgentListens(a)
  BY <1>6, <1>8 DEF Dispatch, NudgeFails, DrainDone, NudgeArrives, Sweep, EndSweep, SweepFails,
                    HarnessCrash, HarnessRestart, AgentListens, vars, processVars
<1> QED
  BY <1>3, <1>4, <1>5, <1>7, <1>8 DEF Next, Serve, Triage

-----------------------------------------------------------------------------
(* BacklogExplained.                                                       *)

LEMMA OneMore ==
  ASSUME NEW S, IsFiniteSet(S), NEW x, x \notin S
  PROVE  Cardinality(S \cup {x}) = Cardinality(S) + 1
  BY FS_AddElement

(* An element less is one less, at most.                                   *)
LEMMA OneFewer ==
  ASSUME NEW S, IsFiniteSet(S), NEW x
  PROVE  /\ Cardinality(S) <= Cardinality(S \ {x}) + 1
         /\ x \in S => Cardinality(S \ {x}) = Cardinality(S) - 1
<1>1. Cardinality(S) \in Nat
  BY FS_CardinalityType
<1>2. CASE x \in S
  BY <1>1, <1>2, FS_RemoveElement
<1>3. CASE x \notin S
  <2>1. Cardinality(S \ {x}) = Cardinality(S)
    BY <1>3, FS_RemoveElement
  <2> QED
    BY <1>1, <1>3, <2>1
<1> QED
  BY <1>2, <1>3

(***************************************************************************)
(* The balance of a step: the tasks it makes pending are matched by the    *)
(* wake-ups it makes or the ones it owes.                                  *)
(***************************************************************************)
WakeUps(a) == Cardinality(NudgesFor(a)) + Cardinality(Asking(a))

(* The sets that BacklogExplained compares are finite.                     *)
LEMMA SetsOfAgent ==
  ASSUME TypeOK, NEW a \in Agents
  PROVE  /\ IsFiniteSet(PendingFor(a)) /\ Cardinality(PendingFor(a)) \in 0..Cardinality(Tasks)
         /\ IsFiniteSet(NudgesFor(a)) /\ Cardinality(NudgesFor(a)) \in Nat
         /\ IsFiniteSet(Asking(a)) /\ Cardinality(Asking(a)) \in Nat
<1>1. PendingFor(a) \in SUBSET Tasks /\ NudgesFor(a) \in SUBSET Tasks
  BY DEF TypeOK, PendingFor, NudgesFor
<1>2. Asking(a) \in SUBSET Workers
  BY DEF Asking, WorkersOf
<1> QED
  BY <1>1, <1>2, SetsAreFinite

(* So are they in the next state.                                          *)
LEMMA SetsOfAgentNext ==
  ASSUME TypeOK', NEW a \in Agents
  PROVE  /\ Cardinality(PendingFor(a)') \in 0..Cardinality(Tasks)
         /\ IsFiniteSet(NudgesFor(a)') /\ Cardinality(NudgesFor(a)') \in Nat
         /\ IsFiniteSet(Asking(a)') /\ Cardinality(Asking(a)') \in Nat
<1>1. PendingFor(a)' \in SUBSET Tasks /\ NudgesFor(a)' \in SUBSET Tasks
  BY DEF TypeOK, PendingFor, NudgesFor
<1>2. Asking(a)' \in SUBSET Workers
  BY DEF Asking, WorkersOf
<1> QED
  BY <1>1, <1>2, SetsAreFinite

(* A balanced step keeps BacklogExplained.                                 *)
LEMMA Balance ==
  ASSUME Inv, TypeOK', NEW a \in Agents, NEW x \in Int, NEW y \in Nat,
         Cardinality(PendingFor(a)') <= Cardinality(PendingFor(a)) + x,
         WakeUps(a) + x <= WakeUps(a)' + y,
         owed'[a] = Owing(owed[a], y)
  PROVE  BacklogExplained(a)'
<1> DEFINE p == Cardinality(PendingFor(a)')
           q == WakeUps(a)'
<1>1. /\ p \in 0..Cardinality(Tasks) /\ q \in Nat /\ WakeUps(a) \in Nat
      /\ Cardinality(PendingFor(a)) \in Nat
      /\ owed[a] \in 0..Cardinality(Tasks) /\ Cardinality(Tasks) \in Nat
  <2>1. Cardinality(PendingFor(a)) \in Nat /\ Cardinality(Tasks) \in Nat
    BY SetsOfAgent, SetsAreFinite DEF Inv
  <2>2. WakeUps(a) \in Nat
    BY SetsOfAgent DEF Inv, WakeUps
  <2>3. WakeUps(a)' \in Nat
    BY SetsOfAgentNext DEF WakeUps
  <2>4. owed[a] \in 0..Cardinality(Tasks)
    BY DEF Inv, TypeOK
  <2> QED
    BY <2>1, <2>2, <2>3, <2>4, SetsOfAgentNext
<1>2. Cardinality(PendingFor(a)) <= WakeUps(a) + owed[a]
  BY DEF Inv, BacklogExplained, WakeUps
<1> HIDE DEF p, q
<1>3. p <= Cardinality(PendingFor(a)) + x /\ WakeUps(a) + x <= q + y
  BY DEF p, q
<1>4. p <= q + owed[a] + y
  BY <1>1, <1>2, <1>3
<1>5. p <= q + owed'[a]
  BY <1>1, <1>4, OwingCovers
<1> QED
  BY <1>5 DEF p, q, BacklogExplained, WakeUps

(* Nothing more is owed where nothing was lost.                            *)
LEMMA OwingNothing ==
  ASSUME NEW n \in 0..Cardinality(Tasks)
  PROVE  Owing(n, 0) = n
  BY SetsAreFinite DEF Owing

(***************************************************************************)
(* A step that makes no task pending and uses up no wake-up.               *)
(***************************************************************************)
LEMMA BacklogKept ==
  ASSUME Inv, TypeOK', NEW a \in Agents, owed'[a] = owed[a],
         PendingFor(a)' \subseteq PendingFor(a),
         NudgesFor(a) \subseteq NudgesFor(a)',
         Asking(a) \subseteq Asking(a)'
  PROVE  BacklogExplained(a)'
<1>1. PICK z \in Nat : z = 0
  OBVIOUS
<1>2. Cardinality(PendingFor(a)') <= Cardinality(PendingFor(a)) + z
  <2>1. Cardinality(PendingFor(a)') <= Cardinality(PendingFor(a))
    BY SetsOfAgent, SubsetsAreSmaller DEF Inv
  <2> QED
    BY <1>1, <2>1, SetsOfAgent DEF Inv
<1>3. WakeUps(a) + z <= WakeUps(a)' + z
  <2>1. /\ Cardinality(NudgesFor(a)) <= Cardinality(NudgesFor(a)')
        /\ Cardinality(Asking(a)) <= Cardinality(Asking(a)')
    BY SetsOfAgentNext, SubsetsAreSmaller
  <2> QED
    BY <1>1, <2>1, SetsOfAgent, SetsOfAgentNext DEF Inv, WakeUps
<1>4. owed'[a] = Owing(owed[a], z)
  BY <1>1, OwingNothing DEF Inv, TypeOK
<1>5. z \in Int
  OBVIOUS
<1> QED
  BY <1>2, <1>3, <1>4, <1>5, Balance

(***************************************************************************)
(* Nudges that are sent, refused, or die with the harness; expiries.       *)
(***************************************************************************)
LEMMA DispatchBacklog ==
  ASSUME Inv, [Next]_vars, NEW a \in Agents, NEW t \in Tasks, NEW b \in Agents, Dispatch(t, b)
  PROVE  BacklogExplained(a)'
<1>1. /\ status[t] = "absent" /\ status' = [status EXCEPT ![t] = "pending"]
      /\ agentUrl' = [agentUrl EXCEPT ![t] = b]
      /\ nudges' = nudges \cup {t} /\ UNCHANGED <<doing, owed>>
  BY DEF Dispatch, Submit, historyVars
<1>2. TypeOK' /\ t \notin nudges /\ agentUrl'[t] = b
  BY <1>1, NextTypes DEF Inv, WorkIsOfRows, TypeOK, LifecycleTypeOK
<1>3. \A u \in Tasks : u # t => agentUrl'[u] = agentUrl[u] /\ status'[u] = status[u]
  BY <1>1 DEF Inv, TypeOK, LifecycleTypeOK
<1>4. Asking(a)' = Asking(a) /\ owed'[a] = owed[a]
  BY <1>1 DEF Asking, WorkersOf
<1>5. CASE a # b
  <2>1. PendingFor(a)' \subseteq PendingFor(a)
    BY <1>2, <1>3, <1>5 DEF PendingFor
  <2>2. NudgesFor(a) \subseteq NudgesFor(a)'
    BY <1>1, <1>2, <1>3 DEF NudgesFor, Inv, TypeOK
  <2> QED
    BY <1>2, <1>4, <2>1, <2>2, BacklogKept
<1>6. CASE a = b
  <2>1. PendingFor(a)' \subseteq PendingFor(a) \cup {t} /\ t \notin PendingFor(a)
    BY <1>1, <1>3 DEF PendingFor
  <2>2. NudgesFor(a)' = NudgesFor(a) \cup {t} /\ t \notin NudgesFor(a)
    BY <1>1, <1>2, <1>3, <1>6 DEF NudgesFor, Inv, TypeOK
  <2>3. /\ Cardinality(PendingFor(a) \cup {t}) = Cardinality(PendingFor(a)) + 1
        /\ Cardinality(NudgesFor(a)') = Cardinality(NudgesFor(a)) + 1
    BY <2>1, <2>2, SetsOfAgent, OneMore DEF Inv
  <2>4. IsFiniteSet(PendingFor(a) \cup {t})
    BY SetsOfAgent, FS_AddElement DEF Inv
  <2>5. Cardinality(PendingFor(a)') <= Cardinality(PendingFor(a) \cup {t})
    BY <2>1, <2>4, SubsetsAreSmaller
  <2>6. PICK x \in Int, y \in Nat : x = 1 /\ y = 0
    OBVIOUS
  <2>7. Cardinality(PendingFor(a)') <= Cardinality(PendingFor(a)) + x
    BY <2>3, <2>5, <2>6
  <2>8. WakeUps(a) + x <= WakeUps(a)' + y
    BY <1>4, <2>3, <2>6, SetsOfAgent DEF Inv, WakeUps
  <2>9. owed'[a] = Owing(owed[a], y)
    BY <1>4, <2>6, OwingNothing DEF Inv, TypeOK
  <2> QED
    BY <1>2, <2>7, <2>8, <2>9, Balance
<1> QED
  BY <1>5, <1>6

(* A refused nudge is owed.                                                *)
LEMMA NudgeFailsBacklog ==
  ASSUME Inv, [Next]_vars, NEW a \in Agents, NEW t \in Tasks, NudgeFails(t)
  PROVE  BacklogExplained(a)'
<1>1. /\ t \in nudges /\ nudges' = nudges \ {t}
      /\ owed' = [owed EXCEPT ![agentUrl[t]] = Owing(@, 1)]
      /\ UNCHANGED <<status, agentUrl, doing>>
  BY DEF NudgeFails, lifecycleVars
<1>2. TypeOK' /\ agentUrl[t] \in Agents
  BY <1>1, NextTypes DEF Inv, WorkIsOfRows, TypeOK
<1>3. PendingFor(a)' = PendingFor(a) /\ Asking(a)' = Asking(a)
  BY <1>1 DEF PendingFor, Asking, WorkersOf
<1>4. CASE agentUrl[t] # a
  <2>1. NudgesFor(a) \subseteq NudgesFor(a)'
    BY <1>1, <1>4 DEF NudgesFor
  <2>2. owed'[a] = owed[a]
    BY <1>1, <1>4 DEF Inv, TypeOK
  <2> QED
    BY <1>2, <1>3, <2>1, <2>2, BacklogKept
<1>5. CASE agentUrl[t] = a
  <2>1. NudgesFor(a)' = NudgesFor(a) \ {t}
    BY <1>1, <1>5 DEF NudgesFor
  <2>2. Cardinality(NudgesFor(a)) <= Cardinality(NudgesFor(a)') + 1
    BY <2>1, SetsOfAgent, OneFewer DEF Inv
  <2>3. PICK x \in Int, y \in Nat : x = 0 /\ y = 1
    OBVIOUS
  <2>4. Cardinality(PendingFor(a)') <= Cardinality(PendingFor(a)) + x
    BY <1>3, <2>3, SetsOfAgent DEF Inv
  <2>5. WakeUps(a) + x <= WakeUps(a)' + y
    BY <1>2, <1>3, <2>2, <2>3, SetsOfAgent, SetsOfAgentNext DEF Inv, WakeUps
  <2>6. owed'[a] = Owing(owed[a], y)
    BY <1>1, <1>5, <2>3 DEF Inv, TypeOK
  <2> QED
    BY <1>2, <2>4, <2>5, <2>6, Balance
<1> QED
  BY <1>4, <1>5

(* An expired claim is owed: requeue_stale sends no nudge.                 *)
LEMMA SweepBacklog ==
  ASSUME Inv, [Next]_vars, NEW a \in Agents, NEW S \in SUBSET Claimed, Sweep(S)
  PROVE  BacklogExplained(a)'
<1> DEFINE E == {t \in S : agentUrl[t] = a}
<1>1. /\ status' = [t \in Tasks |-> IF t \in S THEN "pending" ELSE status[t]]
      /\ owed' = [b \in Agents |-> Owing(owed[b], Cardinality({t \in S : agentUrl[t] = b}))]
      /\ UNCHANGED <<agentUrl, nudges, doing>>
  BY DEF Sweep, Expire
<1>2. PendingFor(a)' \subseteq PendingFor(a) \cup E
  BY <1>1 DEF PendingFor
<1>3. NudgesFor(a)' = NudgesFor(a) /\ Asking(a)' = Asking(a)
  BY <1>1 DEF NudgesFor, Asking, WorkersOf
<1>4. owed'[a] = Owing(owed[a], Cardinality(E))
  BY <1>1
<1>5. IsFiniteSet(E) /\ Cardinality(E) \in Nat
  BY SetsAreFinite DEF Claimed
<1> HIDE DEF E
<1>6. /\ IsFiniteSet(PendingFor(a) \cup E)
      /\ Cardinality(PendingFor(a) \cup E) <= Cardinality(PendingFor(a)) + Cardinality(E)
  BY <1>5, SetsOfAgent, UnionsAreBounded DEF Inv
<1>7. Cardinality(PendingFor(a)') <= Cardinality(PendingFor(a) \cup E)
  BY <1>2, <1>6, SubsetsAreSmaller
<1>8. Cardinality(PendingFor(a) \cup E) \in Nat /\ Cardinality(PendingFor(a)') \in Nat
  BY <1>6, FS_CardinalityType, NextTypes, SetsOfAgentNext
<1>9. Cardinality(PendingFor(a)') <= Cardinality(PendingFor(a)) + Cardinality(E)
  BY <1>5, <1>6, <1>7, <1>8, SetsOfAgent DEF Inv
<1>10. WakeUps(a) + Cardinality(E) <= WakeUps(a)' + Cardinality(E)
  BY <1>3, <1>5, SetsOfAgent DEF Inv, WakeUps
<1> QED
  BY <1>4, <1>5, <1>9, <1>10, NextTypes, Balance

(* So is every nudge that dies with the harness.                           *)
LEMMA HarnessCrashBacklog ==
  ASSUME Inv, [Next]_vars, NEW a \in Agents, HarnessCrash
  PROVE  BacklogExplained(a)'
<1>1. /\ nudges' = {} /\ UNCHANGED <<status, agentUrl, doing>>
      /\ owed' = [b \in Agents |-> Owing(owed[b], Cardinality(NudgesFor(b)))]
  BY DEF HarnessCrash, NudgesFor, lifecycleVars
<1>2. PICK x \in Int : x = 0
  OBVIOUS
<1>3. PendingFor(a)' = PendingFor(a) /\ Asking(a)' = Asking(a) /\ NudgesFor(a)' = {}
  BY <1>1 DEF PendingFor, Asking, WorkersOf, NudgesFor
<1>4. Cardinality(NudgesFor(a)') = 0
  BY <1>3, FS_EmptySet
<1>5. Cardinality(PendingFor(a)') <= Cardinality(PendingFor(a)) + x
  BY <1>2, <1>3, SetsOfAgent DEF Inv
<1>6. WakeUps(a) + x <= WakeUps(a)' + Cardinality(NudgesFor(a))
  BY <1>2, <1>3, <1>4, SetsOfAgent DEF Inv, WakeUps
<1>7. owed'[a] = Owing(owed[a], Cardinality(NudgesFor(a)))
  BY <1>1
<1> QED
  BY <1>5, <1>6, <1>7, NextTypes, SetsOfAgent, Balance DEF Inv

(***************************************************************************)
(* Requests that are asked, answered, lost, or die with the agent.         *)
(***************************************************************************)
LEMMA AskingMoves ==
  ASSUME Inv, NEW w \in Workers, OnlyMoves(w), NEW a \in Agents
  PROVE  /\ Asking(a) \ {w} \subseteq Asking(a)'
         /\ HostOf[w] # a \/ doing[w] # "asking" => Asking(a) \subseteq Asking(a)'
         /\ HostOf[w] = a /\ doing[w] # "asking" /\ doing'[w] = "asking" =>
                Asking(a)' = Asking(a) \cup {w} /\ w \notin Asking(a)
  BY DEF OnlyMoves, Asking, WorkersOf

(* An agent that dies owes the answers its workers were waiting for.       *)
LEMMA AgentCrashBacklog ==
  ASSUME Inv, [Next]_vars, NEW a \in Agents, NEW b \in Agents, AgentCrash(b)
  PROVE  BacklogExplained(a)'
<1>1. /\ owed' = [owed EXCEPT ![b] = Owing(@, Cardinality(Asking(b)))]
      /\ UNCHANGED <<status, agentUrl, nudges>>
  BY DEF AgentCrash, lifecycleVars
<1>2. PendingFor(a)' = PendingFor(a) /\ NudgesFor(a)' = NudgesFor(a)
  BY <1>1 DEF PendingFor, NudgesFor
<1>3. CASE a # b
  <2>1. Asking(a) \subseteq Asking(a)'
    BY <1>3, AgentCrashMoves DEF Asking, WorkersOf
  <2>2. owed'[a] = owed[a]
    BY <1>1, <1>3 DEF Inv, TypeOK
  <2> QED
    BY <1>2, <2>1, <2>2, NextTypes, BacklogKept
<1>4. CASE a = b
  <2>1. PICK x \in Int : x = 0
    OBVIOUS
  <2>2. Asking(a)' = {}
    BY <1>4, AgentCrashMoves DEF Asking, WorkersOf
  <2>3. Cardinality(Asking(a)') = 0
    BY <2>2, FS_EmptySet
  <2>4. Cardinality(PendingFor(a)') <= Cardinality(PendingFor(a)) + x
    BY <1>2, <2>1, SetsOfAgent DEF Inv
  <2>5. WakeUps(a) + x <= WakeUps(a)' + Cardinality(Asking(a))
    BY <1>2, <2>1, <2>3, SetsOfAgent DEF Inv, WakeUps
  <2>6. owed'[a] = Owing(owed[a], Cardinality(Asking(a)))
    BY <1>1, <1>4 DEF Inv, TypeOK
  <2> QED
    BY <2>4, <2>5, <2>6, NextTypes, SetsOfAgent, Balance DEF Inv
<1> QED
  BY <1>3, <1>4

(* A nudge that arrives becomes a worker that asks.                        *)
LEMMA NudgeArrivesBacklog ==
  ASSUME Inv, [Next]_vars, NEW a \in Agents,
         NEW t \in Tasks, NEW w \in Workers, NudgeArrives(t, w)
  PROVE  BacklogExplained(a)'
<1>1. /\ t \in nudges /\ nudges' = nudges \ {t} /\ HostOf[w] = agentUrl[t]
      /\ doing[w] = "idle" /\ doing' = [doing EXCEPT ![w] = "asking"]
      /\ UNCHANGED <<status, agentUrl, owed>>
  BY DEF NudgeArrives, lifecycleVars, historyVars
<1>2. PendingFor(a)' = PendingFor(a) /\ owed'[a] = owed[a]
  BY <1>1 DEF PendingFor
<1>3. OnlyMoves(w) /\ doing'[w] = "asking"
  BY <1>1, WorkerMoves DEF Inv, TypeOK
<1>4. CASE HostOf[w] # a
  <2>1. NudgesFor(a) \subseteq NudgesFor(a)'
    BY <1>1, <1>4 DEF NudgesFor
  <2> QED
    BY <1>2, <1>3, <1>4, <2>1, AskingMoves, NextTypes, BacklogKept
<1>5. CASE HostOf[w] = a
  <2>1. NudgesFor(a)' = NudgesFor(a) \ {t}
    BY <1>1, <1>5 DEF NudgesFor
  <2>2. Cardinality(NudgesFor(a)) <= Cardinality(NudgesFor(a)') + 1
    BY <2>1, SetsOfAgent, OneFewer DEF Inv
  <2>3. Asking(a)' = Asking(a) \cup {w} /\ w \notin Asking(a)
    BY <1>1, <1>3, <1>5, AskingMoves
  <2>4. Cardinality(Asking(a)') = Cardinality(Asking(a)) + 1
    BY <2>3, SetsOfAgent, OneMore DEF Inv
  <2>5. PICK x \in Int, y \in Nat : x = 0 /\ y = 0
    OBVIOUS
  <2>6. Cardinality(PendingFor(a)') <= Cardinality(PendingFor(a)) + x
    BY <1>2, <2>5, SetsOfAgent DEF Inv
  <2>7. WakeUps(a) + x <= WakeUps(a)' + y
    BY <2>2, <2>4, <2>5, NextTypes, SetsOfAgent, SetsOfAgentNext DEF Inv, WakeUps
  <2>8. owed'[a] = Owing(owed[a], y)
    BY <1>2, <2>5, OwingNothing DEF Inv, TypeOK
  <2> QED
    BY <2>6, <2>7, <2>8, NextTypes, Balance
<1> QED
  BY <1>4, <1>5

(* A worker that gets a task takes it off the pending ones.                *)
LEMMA ServeTaskBacklog ==
  ASSUME Inv, [Next]_vars, NEW a \in Agents,
         NEW t \in Tasks, NEW w \in Workers, ServeTask(w, t)
  PROVE  BacklogExplained(a)'
<1>1. /\ status[t] = "pending" /\ status' = [status EXCEPT ![t] = "claimed"]
      /\ agentUrl[t] = HostOf[w] /\ UNCHANGED <<agentUrl, nudges, owed>>
  BY DEF ServeTask, HandOut
<1>2. NudgesFor(a)' = NudgesFor(a) /\ owed'[a] = owed[a]
  BY <1>1 DEF NudgesFor
<1>3. OnlyMoves(w)
  BY ServeTaskMoves DEF Ends
<1>4. PendingFor(a)' = PendingFor(a) \ {t}
  BY <1>1 DEF PendingFor, Inv, TypeOK, LifecycleTypeOK
<1>5. CASE HostOf[w] # a
  BY <1>2, <1>3, <1>4, <1>5, AskingMoves, NextTypes, BacklogKept
<1>6. CASE HostOf[w] = a
  <2>1. t \in PendingFor(a)
    BY <1>1, <1>6 DEF PendingFor
  <2>2. Cardinality(PendingFor(a)') = Cardinality(PendingFor(a)) - 1
    BY <1>4, <2>1, SetsOfAgent, OneFewer DEF Inv
  <2>3. /\ Cardinality(Asking(a)) <= Cardinality(Asking(a) \ {w}) + 1
        /\ Cardinality(Asking(a) \ {w}) \in Nat
    BY SetsOfAgent, OneFewer, FS_RemoveElement, FS_CardinalityType DEF Inv
  <2>4. Cardinality(Asking(a) \ {w}) <= Cardinality(Asking(a)')
    BY <1>3, AskingMoves, NextTypes, SetsOfAgentNext, SubsetsAreSmaller
  <2>5. PICK x \in Int, y \in Nat : x = -1 /\ y = 0
    OBVIOUS
  <2>6. Cardinality(PendingFor(a)') <= Cardinality(PendingFor(a)) + x
    BY <2>2, <2>5, SetsOfAgent DEF Inv
  <2>7. WakeUps(a) + x <= WakeUps(a)' + y
    BY <1>2, <2>3, <2>4, <2>5, NextTypes, SetsOfAgent, SetsOfAgentNext DEF Inv, WakeUps
  <2>8. owed'[a] = Owing(owed[a], y)
    BY <1>2, <2>5, OwingNothing DEF Inv, TypeOK
  <2> QED
    BY <2>6, <2>7, <2>8, NextTypes, Balance
<1> QED
  BY <1>5, <1>6

(* Where nothing is pending there is nothing to explain.                   *)
LEMMA ServeNothingBacklog ==
  ASSUME Inv, [Next]_vars, NEW a \in Agents, NEW w \in Workers, ServeNothing(w)
  PROVE  BacklogExplained(a)'
<1>1. /\ PendingFor(HostOf[w]) = {} /\ owed' = [owed EXCEPT ![HostOf[w]] = 0]
      /\ UNCHANGED <<status, agentUrl, nudges>>
  BY DEF ServeNothing, lifecycleVars
<1>2. PendingFor(a)' = PendingFor(a) /\ NudgesFor(a)' = NudgesFor(a)
  BY <1>1 DEF PendingFor, NudgesFor
<1>3. CASE HostOf[w] # a
  <2>1. owed'[a] = owed[a]
    BY <1>1, <1>3 DEF Inv, TypeOK
  <2> QED
    BY <1>2, <1>3, <2>1, WorkerMoves, AskingMoves, NextTypes, BacklogKept
<1>4. CASE HostOf[w] = a
  <2>1. Cardinality(PendingFor(a)') = 0
    BY <1>1, <1>2, <1>4, FS_EmptySet
  <2>2. owed'[a] \in Nat
    BY <1>1, <1>4 DEF Inv, TypeOK
  <2> QED
    BY <2>1, <2>2, NextTypes, SetsOfAgentNext DEF BacklogExplained
<1> QED
  BY <1>3, <1>4

(* A request that fails is owed.                                           *)
LEMMA RequestFailsBacklog ==
  ASSUME Inv, [Next]_vars, NEW a \in Agents, NEW w \in Workers, RequestFails(w)
  PROVE  BacklogExplained(a)'
<1>1. /\ doing[w] \in {"asking", "reporting"}
      /\ owed' = IF doing[w] = "asking"
                 THEN [owed EXCEPT ![HostOf[w]] = Owing(@, 1)] ELSE owed
      /\ UNCHANGED <<status, agentUrl, nudges>>
  BY DEF RequestFails, lifecycleVars
<1>2. PendingFor(a)' = PendingFor(a) /\ NudgesFor(a)' = NudgesFor(a)
  BY <1>1 DEF PendingFor, NudgesFor
<1>3. OnlyMoves(w)
  BY <1>1, WorkerEnds DEF RequestFails, Ends
<1>4. CASE HostOf[w] # a \/ doing[w] # "asking"
  <2>1. owed'[a] = owed[a]
    BY <1>1, <1>4 DEF Inv, TypeOK
  <2> QED
    BY <1>2, <1>3, <1>4, <2>1, AskingMoves, NextTypes, BacklogKept
<1>5. CASE HostOf[w] = a /\ doing[w] = "asking"
  <2>1. /\ Cardinality(Asking(a)) <= Cardinality(Asking(a) \ {w}) + 1
        /\ Cardinality(Asking(a) \ {w}) \in Nat
    BY SetsOfAgent, OneFewer, FS_RemoveElement, FS_CardinalityType DEF Inv
  <2>2. Cardinality(Asking(a) \ {w}) <= Cardinality(Asking(a)')
    BY <1>3, AskingMoves, NextTypes, SetsOfAgentNext, SubsetsAreSmaller
  <2>3. PICK x \in Int, y \in Nat : x = 0 /\ y = 1
    OBVIOUS
  <2>4. Cardinality(PendingFor(a)') <= Cardinality(PendingFor(a)) + x
    BY <1>2, <2>3, SetsOfAgent DEF Inv
  <2>5. WakeUps(a) + x <= WakeUps(a)' + y
    BY <1>2, <2>1, <2>2, <2>3, NextTypes, SetsOfAgent, SetsOfAgentNext DEF Inv, WakeUps
  <2>6. owed'[a] = Owing(owed[a], y)
    BY <1>1, <1>5, <2>3 DEF Inv, TypeOK
  <2> QED
    BY <2>4, <2>5, <2>6, NextTypes, Balance
<1> QED
  BY <1>4, <1>5

(***************************************************************************)
(* The steps that concern no wake-up.                                      *)
(***************************************************************************)
LEMMA OtherBacklog ==
  ASSUME Inv, [Next]_vars, NEW a \in Agents,
         \/ \E t \in Tasks : DrainDone(t)
         \/ EndSweep \/ SweepFails \/ HarnessRestart \/ UNCHANGED vars
         \/ \E w \in Workers : AgentStart(w) \/ Triage(w) \/ \E d \in Decisions : ServeComplete(w, d)
         \/ \E b \in Agents : AgentListens(b)
  PROVE  BacklogExplained(a)'
<1>1. /\ UNCHANGED <<agentUrl, nudges, owed>>
      /\ \A t \in Tasks : status'[t] = "pending" => status[t] = "pending"
  <2>1. UNCHANGED <<nudges, owed>>
    BY DEF DrainDone, EndSweep, SweepFails, HarnessRestart, AgentStart, Triage, TriageReturns,
           TriageRaises, ServeComplete, AgentListens, vars, processVars, historyVars
  <2>2. UNCHANGED agentUrl
    BY DEF DrainDone, Close, EndSweep, GiveUp, SweepFails, HarnessRestart, AgentStart, Triage,
           TriageReturns, TriageRaises, ServeComplete, Decide, AgentListens, vars, lifecycleVars
  <2>3. \A t \in Tasks : status'[t] = "pending" => status[t] = "pending"
    <3>1. CASE \/ \E u \in Tasks : DrainDone(u)
               \/ EndSweep \/ \E w \in Workers, d \in Decisions : ServeComplete(w, d)
      BY <3>1 DEF DrainDone, Close, EndSweep, GiveUp, ServeComplete, Decide,
                  Inv, TypeOK, LifecycleTypeOK
    <3>2. CASE \/ SweepFails \/ HarnessRestart \/ UNCHANGED vars
               \/ \E w \in Workers : AgentStart(w) \/ Triage(w)
               \/ \E b \in Agents : AgentListens(b)
      BY <3>2 DEF SweepFails, HarnessRestart, AgentStart, Triage, TriageReturns, TriageRaises,
                  AgentListens, vars, lifecycleVars
    <3> QED
      BY <3>1, <3>2
  <2> QED
    BY <2>1, <2>2, <2>3
<1>2. PendingFor(a)' \subseteq PendingFor(a) /\ NudgesFor(a)' = NudgesFor(a) /\ owed'[a] = owed[a]
  BY <1>1 DEF PendingFor, NudgesFor
<1>3. Asking(a) \subseteq Asking(a)'
  <2>1. CASE \/ \E t \in Tasks : DrainDone(t)
             \/ EndSweep \/ SweepFails \/ HarnessRestart \/ UNCHANGED vars
             \/ \E b \in Agents : AgentListens(b)
    <3>1. doing' = doing
      BY <2>1 DEF DrainDone, EndSweep, SweepFails, HarnessRestart, AgentListens, vars, processVars
    <3> QED
      BY <3>1 DEF Asking, WorkersOf
  <2>2. ASSUME NEW w \in Workers, AgentStart(w) \/ TriageReturns(w)
        PROVE  Asking(a) \subseteq Asking(a)'
    <3>1. OnlyMoves(w) /\ doing[w] # "asking"
      BY <2>2, WorkerMoves DEF TriageReturns, AgentStart, Inv, StartupIsAlone
    <3> QED
      BY <3>1, AskingMoves
  <2>3. ASSUME NEW w \in Workers, TriageRaises(w) \/ \E d \in Decisions : ServeComplete(w, d)
        PROVE  Asking(a) \subseteq Asking(a)'
    <3>1. /\ doing[w] \in {"triaging", "reporting"}
          /\ WorkerGoesOn(w) \/ WorkerRaises(w)
      BY <2>3 DEF TriageRaises, ServeComplete
    <3>2. OnlyMoves(w)
      BY <3>1, WorkerEnds DEF Ends
    <3> QED
      BY <3>1, <3>2, AskingMoves
  <2> QED
    BY <2>1, <2>2, <2>3 DEF Triage
<1> QED
  BY <1>2, <1>3, NextTypes, BacklogKept

(* Every step.                                                             *)
LEMMA NextBacklog ==
  ASSUME Inv, [Next]_vars, NEW a \in Agents
  PROVE  BacklogExplained(a)'
  BY DispatchBacklog, NudgeFailsBacklog, SweepBacklog, HarnessCrashBacklog,
     AgentCrashBacklog, NudgeArrivesBacklog, ServeTaskBacklog, ServeNothingBacklog,
     RequestFailsBacklog, OtherBacklog DEF Next, Serve

-----------------------------------------------------------------------------
(* The theorems.                                                           *)

(***************************************************************************)
(* Inv is an inductive invariant of Delivery.                              *)
(***************************************************************************)
THEOREM Invariance == Spec => []Inv
<1>1. Inv /\ [Next]_vars => Inv'
  <2> SUFFICES ASSUME Inv, [Next]_vars PROVE Inv'
    OBVIOUS
  <2>1. TypeOK' /\ WorkIsOfRows' /\ StartupIsAlone'
    BY NextTypes, NextWork
  <2>2. \A t \in Tasks : AttemptsCounted(t)'
    BY NextAttempts
  <2>3. \A t \in Tasks : HoldersCounted(t)'
    BY NextHolders
  <2>4. \A a \in Agents : BacklogExplained(a)'
    BY NextBacklog
  <2> QED
    BY <2>1, <2>2, <2>3, <2>4 DEF Inv
<1> QED
  BY <1>1, InitInv, PTL DEF Spec

(***************************************************************************)
(* Every variable keeps its type; in particular the wake-ups owed to an    *)
(* agent never need a larger count than there are tasks.                   *)
(***************************************************************************)
THEOREM TypeCorrect == Spec => []TypeOK
<1>1. Inv => TypeOK
  BY DEF Inv
<1> QED
  BY <1>1, Invariance, PTL

(***************************************************************************)
(* Whatever agents and harness do and whichever answers are lost: a task   *)
(* has at most one holder more than requeue_stale has expired it, and none *)
(* more once requeue_stale has put it back.                                *)
(***************************************************************************)
THEOREM HoldersAreBounded == Spec => []HoldersAreCounted
<1>1. Inv => HoldersAreCounted
  BY DEF Inv, HoldersCounted, HoldersAreCounted
<1> QED
  BY <1>1, Invariance, PTL

(***************************************************************************)
(* claim_next hands a task out max_retries times at most, once at least,   *)
(* and once more for each round of the requeue loop that a crash or an     *)
(* exception tore between requeue_stale and fail_exhausted.                *)
(***************************************************************************)
THEOREM AttemptsAreLimited == Spec => []AttemptsAreBounded
<1>1. Inv => AttemptsAreBounded
  BY DEF Inv, AttemptsCounted, AttemptsAreBounded
<1> QED
  BY <1>1, Invariance, PTL

(***************************************************************************)
(* A task that waits with nobody asking for it is one whose nudge, request *)
(* or claim was lost since its agent last found the queue empty.           *)
(***************************************************************************)
THEOREM BacklogsHaveReasons == Spec => []BacklogIsExplained
<1>1. Inv => BacklogIsExplained
  BY DEF Inv, BacklogExplained, BacklogIsExplained, NudgesFor
<1> QED
  BY <1>1, Invariance, PTL

=============================================================================
