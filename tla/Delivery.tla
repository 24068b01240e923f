------------------------------ MODULE Delivery ------------------------------
(***************************************************************************)
(* How a task reaches an agent and its decision comes back: the dispatcher *)
(* and the requeue loop of night_brownie/server.py, the queue endpoints    *)
(* (night_brownie/routers/queue.py), the client library                    *)
(* (night-brownie-client) and the triage agent (agents/issue-triage),      *)
(* over the actions of the queue's lifecycle.                              *)
(*                                                                         *)
(* Harness and agents are separate processes that talk HTTP; either can    *)
(* die at any time.  Time does not appear: a claim may expire whenever     *)
(* TaskQueue could let it expire, in particular under a worker that is     *)
(* still busy (its heartbeat thread ends at the first error, and its       *)
(* heartbeats wait while the drain loop holds the event loop).             *)
(***************************************************************************)
EXTENDS TaskLifecycle, FiniteSets

CONSTANTS
    Workers,          \* coroutines that can be processing a task
    HostOf,           \* [Workers -> Agents]: the agent process each runs in
    MaxCrashes,       \* bound on crashes of the harness and of agents
    MaxFaults         \* bound on requests and answers lost on the way and on
                      \* calls of fail_exhausted that raise

ASSUME HostOfType == HostOf \in [Workers -> Agents]
ASSUME NoneIsNoTask == None \notin Tasks
ASSUME TasksAndWorkersAreFinite == IsFiniteSet(Tasks) /\ IsFiniteSet(Workers)
ASSUME BoundsAreNat == MaxCrashes \in Nat /\ MaxFaults \in Nat

VARIABLES
    harness,      \* what the harness runs: "waiting", its event loop is free;
                  \* "sweeping", the requeue loop between its two calls; "down"
    nudges,       \* tasks whose POST <agent_url>/task is on its way
    agent,        \* [agent -> its process]: "draining", in the startup loop;
                  \* "binding", past it and not yet listening; "serving"; "down"
    doing,        \* [worker -> "idle", "asking", "triaging" or "reporting"]
    holding,      \* [worker -> the task it works on, or None]
    crashes, faults,
    tornSweeps,   \* rounds of the requeue loop that a crash or an exception
                  \* ended after requeue_stale and before fail_exhausted
    owed          \* [agent -> wake-ups lost since its queue was last empty],
                  \* counted up to the number of tasks

processVars == <<harness, nudges, agent, doing, holding>>
historyVars == <<crashes, faults, tornSweeps, owed>>
vars == <<lifecycleVars, processVars, historyVars>>

WorkersOf(a) == {w \in Workers : HostOf[w] = a}

TypeOK ==
    /\ LifecycleTypeOK
    /\ harness \in {"down", "waiting", "sweeping"}
    /\ nudges \subseteq Tasks
    /\ agent \in [Agents -> {"down", "draining", "binding", "serving"}]
    /\ doing \in [Workers -> {"idle", "asking", "triaging", "reporting"}]
    /\ holding \in [Workers -> Tasks \cup {None}]
    /\ crashes \in 0..MaxCrashes
    /\ faults \in 0..MaxFaults
    /\ tornSweeps \in 0..(crashes + faults)
    /\ owed \in [Agents -> 0..Cardinality(Tasks)]

Init ==
    /\ LifecycleInit
    /\ harness = "waiting"
    /\ nudges = {}
    /\ agent = [a \in Agents |-> "down"]
    /\ doing = [w \in Workers |-> "idle"]
    /\ holding = [w \in Workers |-> None]
    /\ crashes = 0 /\ faults = 0 /\ tornSweeps = 0
    /\ owed = [a \in Agents |-> 0]

-----------------------------------------------------------------------------
(* The harness.                                                            *)

Owing(n, more) ==
    IF n + more > Cardinality(Tasks) THEN Cardinality(Tasks) ELSE n + more

LoopIsFree == harness = "waiting"

\* A faulty Dispatch: the nudge names the agent for the task.
DispatchSwapped(t, a) ==
    /\ LoopIsFree
    /\ Submit(t, a)
    /\ nudges' = nudges \cup {a}
    /\ UNCHANGED <<harness, agent, doing, holding, historyVars>>

(***************************************************************************)
(* dispatch: the task is in the queue before the nudge is sent.            *)
(***************************************************************************)
Dispatch(t, a) ==
    /\ LoopIsFree
    /\ Submit(t, a)
    /\ nudges' = nudges \cup {t}
    /\ UNCHANGED <<harness, agent, doing, holding, historyVars>>

(***************************************************************************)
(* A request or its answer is lost, or a call of fail_exhausted raises.    *)
(***************************************************************************)
Fault == faults < MaxFaults /\ faults' = faults + 1

(***************************************************************************)
(* Nobody listens at the agent's URL, or the 5 seconds of the request have *)
(* passed before an agent that does took it: the error is logged, the      *)
(* nudge gone.                                                             *)
(***************************************************************************)
NudgeFails(t) ==
    /\ t \in nudges
    /\ IF agent[agentUrl[t]] = "serving" THEN Fault ELSE UNCHANGED faults
    /\ nudges' = nudges \ {t}
    /\ owed' = [owed EXCEPT ![agentUrl[t]] = Owing(@, 1)]
    /\ UNCHANGED <<lifecycleVars, harness, agent, doing, holding, crashes, tornSweeps>>

(***************************************************************************)
(* A round of the requeue loop: any set of claims expires, then exhausted  *)
(* tasks fail.  There is no await between the two calls, but the second    *)
(* can raise after the first has committed: the round ends, and exhausted  *)
(* tasks stay pending until the next one.  (If the first raises, nothing   *)
(* has changed.)                                                           *)
(***************************************************************************)
Sweep(S) ==
    /\ LoopIsFree
    /\ Expire(S)
    /\ harness' = "sweeping"
    /\ owed' = [a \in Agents |-> Owing(owed[a], Cardinality({t \in S : agentUrl[t] = a}))]
    /\ UNCHANGED <<nudges, agent, doing, holding, crashes, faults, tornSweeps>>

EndSweep ==
    /\ harness = "sweeping"
    /\ harness' = "waiting"
    /\ GiveUp
    /\ UNCHANGED <<nudges, agent, doing, holding, historyVars>>

SweepFails ==
    /\ harness = "sweeping"
    /\ harness' = "waiting"
    /\ Fault
    /\ tornSweeps' = tornSweeps + 1
    /\ UNCHANGED <<lifecycleVars, nudges, agent, doing, holding, crashes, owed>>

(***************************************************************************)
(* The drain loop has carried out a decision (module DrainLoop).           *)
(***************************************************************************)
DrainDone(t) ==
    /\ LoopIsFree
    /\ Close(t)
    /\ UNCHANGED <<processVars, historyVars>>

(***************************************************************************)
(* The nudges being sent die with the harness; the queue does not.         *)
(***************************************************************************)
HarnessCrash ==
    /\ harness # "down"
    /\ crashes < MaxCrashes
    /\ crashes' = crashes + 1
    /\ tornSweeps' = tornSweeps + (IF harness = "sweeping" THEN 1 ELSE 0)
    /\ harness' = "down"
    /\ nudges' = {}
    /\ owed' = [a \in Agents |->
                 Owing(owed[a], Cardinality({t \in nudges : agentUrl[t] = a}))]
    /\ UNCHANGED <<lifecycleVars, agent, doing, holding, faults>>

HarnessRestart ==
    /\ harness = "down"
    /\ harness' = "waiting"
    /\ UNCHANGED <<lifecycleVars, nudges, agent, doing, holding, historyVars>>

-----------------------------------------------------------------------------
(* The agent processes.                                                    *)

(***************************************************************************)
(* The process starts and enters its lifespan, which claims and processes  *)
(* tasks one by one until the queue answers 204.                           *)
(***************************************************************************)
AgentStart(w) ==
    /\ agent[HostOf[w]] = "down"
    /\ agent' = [agent EXCEPT ![HostOf[w]] = "draining"]
    /\ doing' = [doing EXCEPT ![w] = "asking"]
    /\ UNCHANGED <<lifecycleVars, harness, nudges, holding, historyVars>>

(***************************************************************************)
(* The lifespan has yielded; only now does the server bind its socket.     *)
(***************************************************************************)
AgentListens(a) ==
    /\ agent[a] = "binding"
    /\ agent' = [agent EXCEPT ![a] = "serving"]
    /\ UNCHANGED <<lifecycleVars, harness, nudges, doing, holding, historyVars>>

Asking(a) == {w \in WorkersOf(a) : doing[w] = "asking"}

AgentStops(a) ==
    /\ agent' = [agent EXCEPT ![a] = "down"]
    /\ doing' = [w \in Workers |-> IF HostOf[w] = a THEN "idle" ELSE doing[w]]
    /\ holding' = [w \in Workers |-> IF HostOf[w] = a THEN None ELSE holding[w]]

AgentCrash(a) ==
    /\ agent[a] # "down"
    /\ crashes < MaxCrashes
    /\ crashes' = crashes + 1
    /\ AgentStops(a)
    /\ owed' = [owed EXCEPT ![a] = Owing(@, Cardinality(Asking(a)))]
    /\ UNCHANGED <<lifecycleVars, harness, nudges, faults, tornSweeps>>

\* A faulty NudgeArrives: an agent that is busy takes the nudge and does not ask.
NudgeIgnoredIfBusy(t, w) ==
    /\ t \in nudges
    /\ HostOf[w] = agentUrl[t]
    /\ agent[HostOf[w]] = "serving"
    /\ doing[w] = "idle"
    /\ nudges' = nudges \ {t}
    /\ doing' = IF \A x \in WorkersOf(HostOf[w]) : doing[x] = "idle"
                THEN [doing EXCEPT ![w] = "asking"] ELSE doing
    /\ UNCHANGED <<lifecycleVars, harness, agent, holding, historyVars>>

(***************************************************************************)
(* handle_task: the nudge names a task, but the background task it starts  *)
(* just asks for the next one, once.                                       *)
(***************************************************************************)
NudgeArrives(t, w) ==
    /\ t \in nudges
    /\ HostOf[w] = agentUrl[t]
    /\ agent[HostOf[w]] = "serving"
    /\ doing[w] = "idle"
    /\ nudges' = nudges \ {t}
    /\ doing' = [doing EXCEPT ![w] = "asking"]
    /\ UNCHANGED <<lifecycleVars, harness, agent, holding, historyVars>>

\* A faulty WorkerGoesOn: the startup loop ends after one task.
WorkerStops(w) ==
    /\ doing' = [doing EXCEPT ![w] = "idle"]
    /\ holding' = [holding EXCEPT ![w] = None]
    /\ agent' = IF agent[HostOf[w]] = "draining"
                THEN [agent EXCEPT ![HostOf[w]] = "binding"] ELSE agent

(***************************************************************************)
(* A worker is through with its task: in the startup loop it asks again,   *)
(* in a background task it ends.                                           *)
(***************************************************************************)
WorkerGoesOn(w) ==
    /\ doing' = [doing EXCEPT ![w] =
                     IF agent[HostOf[w]] = "draining" THEN "asking" ELSE "idle"]
    /\ holding' = [holding EXCEPT ![w] = None]
    /\ UNCHANGED agent

(***************************************************************************)
(* An exception ends a background task; in the lifespan it ends the agent. *)
(***************************************************************************)
WorkerRaises(w) ==
    IF agent[HostOf[w]] = "draining"
    THEN AgentStops(HostOf[w])
    ELSE /\ doing' = [doing EXCEPT ![w] = "idle"]
         /\ holding' = [holding EXCEPT ![w] = None]
         /\ UNCHANGED agent

(***************************************************************************)
(* POST /queue/next with a pending task: it is claimed and handed over, or *)
(* its answer is lost (the client waits 5 seconds) and nobody has it.      *)
(***************************************************************************)
ServeTask(w, t) ==
    /\ doing[w] = "asking"
    /\ LoopIsFree
    /\ HandOut(t, HostOf[w])
    /\ \/ /\ doing' = [doing EXCEPT ![w] = "triaging"]
          /\ holding' = [holding EXCEPT ![w] = t]
          /\ UNCHANGED <<agent, faults>>
       \/ Fault /\ WorkerRaises(w)
    /\ UNCHANGED <<harness, nudges, crashes, tornSweeps, owed>>

PendingFor(a) == {t \in Tasks : status[t] = "pending" /\ agentUrl[t] = a}

(***************************************************************************)
(* POST /queue/next with none: 204, the end of the startup loop or of the  *)
(* background task.                                                        *)
(***************************************************************************)
ServeNothing(w) ==
    /\ doing[w] = "asking"
    /\ LoopIsFree
    /\ PendingFor(HostOf[w]) = {}
    /\ doing' = [doing EXCEPT ![w] = "idle"]
    /\ agent' = IF agent[HostOf[w]] = "draining"
                THEN [agent EXCEPT ![HostOf[w]] = "binding"] ELSE agent
    /\ owed' = [owed EXCEPT ![HostOf[w]] = 0]
    /\ UNCHANGED <<lifecycleVars, harness, nudges, holding, crashes, faults,
                   tornSweeps>>

(***************************************************************************)
(* A request never gets to the harness, which is down or too busy.         *)
(***************************************************************************)
RequestFails(w) ==
    /\ doing[w] \in {"asking", "reporting"}
    /\ IF harness = "down" THEN UNCHANGED faults ELSE Fault
    /\ owed' = IF doing[w] = "asking"
               THEN [owed EXCEPT ![HostOf[w]] = Owing(@, 1)] ELSE owed
    /\ WorkerRaises(w)
    /\ UNCHANGED <<lifecycleVars, harness, nudges, crashes, tornSweeps>>

(***************************************************************************)
(* run_triage returns a decision, or raises and leaves the task claimed.   *)
(***************************************************************************)
TriageReturns(w) ==
    /\ doing[w] = "triaging"
    /\ doing' = [doing EXCEPT ![w] = "reporting"]
    /\ UNCHANGED <<lifecycleVars, harness, nudges, agent, holding, historyVars>>

TriageRaises(w) ==
    /\ doing[w] = "triaging"
    /\ WorkerRaises(w)
    /\ UNCHANGED <<lifecycleVars, harness, nudges, historyVars>>

(***************************************************************************)
(* POST /queue/complete (and /harness/result after it): the decision is    *)
(* stored; the worker learns of it, or one of the two answers is lost.     *)
(***************************************************************************)
ServeComplete(w, d) ==
    /\ doing[w] = "reporting"
    /\ LoopIsFree
    /\ Decide(holding[w], d)
    /\ \/ WorkerGoesOn(w) /\ UNCHANGED faults
       \/ Fault /\ WorkerRaises(w)
    /\ UNCHANGED <<harness, nudges, crashes, tornSweeps, owed>>

-----------------------------------------------------------------------------
Serve(w) ==
    \/ \E t \in Tasks : ServeTask(w, t)
    \/ ServeNothing(w)
    \/ \E d \in Decisions : ServeComplete(w, d)

Triage(w) == TriageReturns(w) \/ TriageRaises(w)

Next ==
    \/ \E t \in Tasks, a \in Agents : Dispatch(t, a)
    \/ \E t \in Tasks : NudgeFails(t) \/ DrainDone(t)
    \/ \E t \in Tasks, w \in Workers : NudgeArrives(t, w)
    \/ \E S \in SUBSET Claimed : Sweep(S)
    \/ EndSweep \/ SweepFails
    \/ \E w \in Workers : AgentStart(w) \/ Serve(w) \/ Triage(w) \/ RequestFails(w)
    \/ \E a \in Agents : AgentListens(a) \/ AgentCrash(a)
    \/ HarnessCrash \/ HarnessRestart

Spec == Init /\ [][Next]_vars

Holders(t) == {w \in Workers : holding[w] = t}

Abandoned == {t \in Claimed : Holders(t) = {}}

(***************************************************************************)
(* A claim nobody heartbeats expires in the end.                           *)
(***************************************************************************)
SweepAbandoned == Abandoned # {} /\ Sweep(Abandoned)

(***************************************************************************)
(* asyncio runs its ready coroutines in turn, so a request is served and   *)
(* the requeue loop runs even if others take the event loop in between     *)
(* (strong fairness).  Triage ends, one way or the other; a request to a   *)
(* harness that is down fails; nudges get through to a listening agent; a  *)
(* harness that died is started again.  Agents need not be.                *)
(***************************************************************************)
FairSpec ==
    /\ Spec
    /\ \A w \in Workers :
           /\ SF_vars(Serve(w))
           /\ WF_vars(Triage(w))
           /\ WF_vars(\E t \in Tasks : NudgeArrives(t, w))
    /\ \A a \in Agents : WF_vars(AgentListens(a))
    /\ SF_vars(SweepAbandoned)
    /\ WF_vars(EndSweep)
    /\ WF_vars(HarnessRestart)

-----------------------------------------------------------------------------
(***************************************************************************)
(* Two workers have the same task only if it expired under the first: the  *)
(* number of holders never exceeds the expiries by more than one, across   *)
(* agent and harness crashes and lost answers.                             *)
(***************************************************************************)
HoldersAreCounted ==
    \A t \in Tasks :
        /\ Cardinality(Holders(t)) <= retryCount[t] + 1
        /\ status[t] \in {"pending", "failed"} => Cardinality(Holders(t)) <= retryCount[t]

(***************************************************************************)
(* A task is handed out at most max_retries times (once, if that is 0),    *)
(* and once more for each round of the requeue loop that a crash or an     *)
(* exception tore between requeue_stale and fail_exhausted: an agent can   *)
(* claim an exhausted task before the next round fails it.                 *)
(***************************************************************************)
Limit == IF MaxRetries = 0 THEN 1 ELSE MaxRetries

AttemptsAreBounded == \A t \in Tasks : attempts[t] <= Limit + tornSweeps

(***************************************************************************)
(* Why a task is left waiting at a serving agent.  The agent asks once per *)
(* nudge, so every pending task needs a nudge on its way, a worker that    *)
(* asks, or else a wake-up was lost (a refused, late or cut-off nudge, a   *)
(* failed request, an expiry, which sends no nudge) since the queue was    *)
(* last empty.                                                             *)
(***************************************************************************)
BacklogIsExplained ==
    \A a \in Agents :
        Cardinality(PendingFor(a)) <=
            Cardinality({t \in nudges : agentUrl[t] = a})
            + Cardinality(Asking(a)) + owed[a]

(***************************************************************************)
(* No claim lasts for ever: whatever dies, raises or is lost, a claimed    *)
(* task is completed or goes back to pending.                              *)
(***************************************************************************)
EveryClaimEnds == \A t \in Tasks : status[t] = "claimed" ~> status[t] # "claimed"

(***************************************************************************)
(* A starting agent takes every task that waits for it, unless it dies.    *)
(***************************************************************************)
StartupTakesBacklog ==
    \A t \in Tasks, a \in Agents :
        status[t] = "pending" /\ agentUrl[t] = a /\ agent[a] = "draining"
            ~> status[t] # "pending" \/ agent[a] = "down"

=============================================================================
