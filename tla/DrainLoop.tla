------------------------------ MODULE DrainLoop ------------------------------
(***************************************************************************)
(* The way of a decision from POST /queue/complete to GitHub: the drain    *)
(* loop of night_brownie/server.py, the executor it calls                  *)
(* (night_brownie/executor.py), the memory store both write                *)
(* (night_brownie/memory.py) and the endpoints that wake it                *)
(* (night_brownie/routers/queue.py, routers/result.py), over the actions   *)
(* of the queue's lifecycle.                                               *)
(*                                                                         *)
(* The body of the loop awaits nothing between the wake-up and the end of  *)
(* the cycle, and every endpoint is a coroutine of the same event loop.  So*)
(* nothing else of the harness runs during a cycle; but each commit and    *)
(* each GitHub call is a step here, because the process can be killed      *)
(* between any two of them and GitHub can fail at any one.                 *)
(***************************************************************************)
EXTENDS TaskLifecycle, Sequences

CONSTANTS
    Issues,        \* issues, each standing for a (repo, issue_number) pair
    IssueOf,       \* [Tasks -> Issues]: task.repo and task.payload["number"]
    ActionsOf,     \* [Decisions -> Seq(ActionTypes)]: decision.actions
    AllowClose,    \* [Tasks -> BOOLEAN]: allow_close in the task's payload
    MaxFaults,     \* bound on failing SQLite and GitHub calls
    MaxCrashes,    \* bound on crashes of the harness
    MaxSeen        \* comments are counted up to this number

(***************************************************************************)
(* "other" is every action type the executor does not know.                *)
(***************************************************************************)
ActionTypes == {"add_label", "comment", "close_issue", "other"}

ASSUME IssueOfType == IssueOf \in [Tasks -> Issues]
ASSUME ActionsOfType == ActionsOf \in [Decisions -> Seq(ActionTypes)]
ASSUME NoneIsNoPair == None \notin Tasks \X Decisions
ASSUME AllowCloseType == AllowClose \in [Tasks -> BOOLEAN]
ASSUME BoundsAreNat == MaxFaults \in Nat /\ MaxCrashes \in Nat /\ MaxSeen \in Nat \ {0}

VARIABLES
    pc,           \* what the event loop is running: "waiting", nothing;
                  \* "sweeping", the requeue loop between its two calls;
                  \* "down", the harness is not running; else the drain loop,
                  \* "reading" from the clear() to the SELECT
    drainEvent,   \* app.state.drain_event.is_set()
    batch,        \* the pairs of drain_completed not yet looked at
    current,      \* the pair being processed, or None
    nextAction,   \* index of the action _execute_action is called with next
    actionLog,    \* rows of action_log, which name the issue and the decision
    undone,       \* rows of action_log lost after log_action had returned
    summary,      \* [issue -> decision the memory_summary row reports, or None]
    posted,       \* [task -> [decision -> comments GitHub got for it]]
    labelled,     \* the task-decision pairs whose label GitHub has set
    closed,       \* issues closed on GitHub
    faults, crashes,
    answers,      \* [task -> completions its workers have sent]
    stalled,      \* tasks whose row a failed, poisoned or killed cycle left
                  \* completed, until they are completed again
    disturbed     \* tasks a fault, a crash or a second completion has hit

loopVars == <<pc, drainEvent, batch, current, nextAction>>
memoryVars == <<actionLog, undone, summary>>
githubVars == <<posted, labelled, closed>>
historyVars == <<faults, crashes, answers, stalled, disturbed>>
vars == <<lifecycleVars, loopVars, memoryVars, githubVars, historyVars>>

Pairs == Tasks \X Decisions

TypeOK ==
    /\ LifecycleTypeOK
    /\ pc \in {"down", "waiting", "sweeping", "reading", "picking", "logging", "acting",
             "marking"}
    /\ drainEvent \in BOOLEAN
    /\ batch \subseteq Pairs
    /\ current \in Pairs \cup {None}
    /\ nextAction \in Nat
    /\ actionLog \subseteq Issues \X Decisions
    /\ undone \subseteq Issues \X Decisions
    /\ summary \in [Issues -> Decisions \cup {None}]
    /\ posted \in [Tasks -> [Decisions -> 0..MaxSeen]]
    /\ labelled \subseteq Pairs
    /\ closed \subseteq Issues
    /\ faults \in 0..MaxFaults
    /\ crashes \in 0..MaxCrashes
    /\ answers \in [Tasks -> Nat]
    /\ stalled \subseteq Tasks
    /\ disturbed \subseteq Tasks

Init ==
    /\ LifecycleInit
    /\ pc = "waiting" /\ drainEvent = FALSE
    /\ batch = {} /\ current = None /\ nextAction = 1
    /\ actionLog = {} /\ undone = {} /\ summary = [i \in Issues |-> None]
    /\ posted = [t \in Tasks |-> [d \in Decisions |-> 0]]
    /\ labelled = {} /\ closed = {}
    /\ faults = 0 /\ crashes = 0 /\ answers = [t \in Tasks |-> 0]
    /\ stalled = {} /\ disturbed = {}

-----------------------------------------------------------------------------
\* A faulty LoopIsFree: the cycle awaits between its steps.
LoopAwaits == pc # "down"

(***************************************************************************)
(* The other coroutines of the event loop run only while the drain loop    *)
(* awaits its event.                                                       *)
(***************************************************************************)
LoopIsFree == pc = "waiting"

SubmitTask(t, a) ==
    /\ LoopIsFree
    /\ Submit(t, a)
    /\ UNCHANGED <<loopVars, memoryVars, githubVars, historyVars>>

HandOutTask(t, a) ==
    /\ LoopIsFree
    /\ HandOut(t, a)
    /\ UNCHANGED <<loopVars, memoryVars, githubVars, historyVars>>

(***************************************************************************)
(* A SQLite or GitHub call raises, or a write is undone.                   *)
(***************************************************************************)
Fault == faults < MaxFaults /\ faults' = faults + 1

(***************************************************************************)
(* One round of the requeue loop: any claims expire, then the exhausted    *)
(* tasks fail.  Nothing runs in between, but a crash can come there, and   *)
(* fail_exhausted can raise, which ends the round: the tasks requeued stay *)
(* pending until the next one.  A requeue_stale that raises changes        *)
(* nothing.                                                                *)
(***************************************************************************)
RequeueStale ==
    /\ LoopIsFree
    /\ pc' = "sweeping"
    /\ \E S \in SUBSET Claimed : Expire(S)
    /\ UNCHANGED <<drainEvent, batch, current, nextAction, memoryVars, githubVars,
                   historyVars>>

FailExhausted ==
    /\ pc = "sweeping"
    /\ pc' = "waiting"
    /\ GiveUp
    /\ UNCHANGED <<drainEvent, batch, current, nextAction, memoryVars, githubVars,
                   historyVars>>

SweepFails ==
    /\ pc = "sweeping"
    /\ pc' = "waiting"
    /\ Fault
    /\ UNCHANGED <<lifecycleVars, drainEvent, batch, current, nextAction, memoryVars,
                   githubVars, crashes, answers, stalled, disturbed>>

\* A faulty WakeDrainLoop: the endpoint does not set the event.
LeaveDrainLoop == UNCHANGED drainEvent

WakeDrainLoop == drainEvent' = TRUE

(***************************************************************************)
(* POST /queue/complete.  NightBrownieClient sends at most one completion  *)
(* for each task it was handed, but it can be late: the task may have been *)
(* handed to another worker, completed by it, or failed in the meantime.   *)
(***************************************************************************)
QueueComplete(t, d) ==
    /\ LoopIsFree
    /\ answers[t] < attempts[t]
    /\ answers' = [answers EXCEPT ![t] = @ + 1]
    /\ Decide(t, d)
    /\ WakeDrainLoop
    /\ stalled' = stalled \ {t}
    /\ disturbed' = IF result[t] = None THEN disturbed ELSE disturbed \cup {t}
    /\ UNCHANGED <<pc, batch, current, nextAction, memoryVars, githubVars, faults, crashes>>

(***************************************************************************)
(* POST /harness/result, which a client sends after its completion: it     *)
(* changes the event only.                                                 *)
(***************************************************************************)
HarnessResult(t) ==
    /\ LoopIsFree
    /\ result[t] # None
    /\ drainEvent' = TRUE
    /\ UNCHANGED <<lifecycleVars, pc, batch, current, nextAction, memoryVars,
                   githubVars, historyVars>>

-----------------------------------------------------------------------------
\* A faulty DrainCompleted: rows that are done are selected, too.
DrainDecided ==
    {<<t, result[t]>> : t \in {u \in Tasks : status[u] \in {"completed", "done"}}}

Completed == {t \in Tasks : status[t] = "completed"}

DrainCompleted == {<<t, result[t]>> : t \in Completed}

(***************************************************************************)
(* The event is set, or drain_interval_seconds have passed: the event is   *)
(* cleared, then the completed rows are read.                              *)
(***************************************************************************)
Wake ==
    /\ pc = "waiting"
    /\ pc' = "reading"
    /\ drainEvent' = FALSE
    /\ UNCHANGED <<lifecycleVars, batch, current, nextAction, memoryVars, githubVars,
                   historyVars>>

Read ==
    /\ pc = "reading"
    /\ batch' = DrainCompleted
    /\ pc' = IF DrainCompleted = {} THEN "waiting" ELSE "picking"
    /\ UNCHANGED <<lifecycleVars, drainEvent, current, nextAction, memoryVars,
                   githubVars, historyVars>>

(***************************************************************************)
(* drain_completed raises sqlite3.Error: the cycle is skipped, and the     *)
(* event has already been cleared.                                         *)
(***************************************************************************)
DrainFails ==
    /\ pc = "reading"
    /\ pc' = "waiting"
    /\ Fault
    /\ stalled' = stalled \cup Completed
    /\ UNCHANGED <<lifecycleVars, drainEvent, batch, current, nextAction, memoryVars,
                   githubVars, crashes, answers, disturbed>>

(***************************************************************************)
(* The SELECT has no ORDER BY: the pairs come in any order.                *)
(***************************************************************************)
Pick(p) ==
    /\ pc = "picking"
    /\ p \in batch
    /\ batch' = batch \ {p}
    /\ current' = p
    /\ nextAction' = 1
    /\ pc' = "logging"
    /\ UNCHANGED <<lifecycleVars, drainEvent, memoryVars, githubVars, historyVars>>

NextPair ==
    /\ current' = None
    /\ nextAction' = 1
    /\ pc' = IF batch = {} THEN "waiting" ELSE "picking"
    /\ UNCHANGED <<drainEvent, batch>>

Task == current[1]
Decision == current[2]
Issue == IssueOf[Task]
Actions == ActionsOf[Decision]

\* A faulty LogAction: the row is never committed.
SkipLog ==
    /\ pc = "logging"
    /\ pc' = "acting"
    /\ UNCHANGED <<lifecycleVars, drainEvent, batch, current, nextAction, memoryVars,
                   githubVars, historyVars>>

(***************************************************************************)
(* log_action commits before any call to GitHub.  A write of a polling     *)
(* thread on the same connection whose fault rolls the transaction back    *)
(* can undo the row under the commit, which then returns normally (see     *)
(* SharedConnection).                                                      *)
(***************************************************************************)
LogAction ==
    /\ pc = "logging"
    /\ pc' = "acting"
    /\ \/ /\ actionLog' = actionLog \cup {<<Issue, Decision>>}
          /\ UNCHANGED <<undone, faults>>
       \/ /\ Fault
          /\ undone' = undone \cup {<<Issue, Decision>>}
          /\ UNCHANGED actionLog
    /\ UNCHANGED <<lifecycleVars, drainEvent, batch, current, nextAction, summary,
                   githubVars, crashes, answers, stalled, disturbed>>

(***************************************************************************)
(* The loop does not pass allow_close to execute, whose default is False.  *)
(***************************************************************************)
CloseIsAllowed(t) == FALSE

(***************************************************************************)
(* What a GitHub call does to GitHub.  Adding a label twice changes        *)
(* nothing, commenting twice leaves two comments.                          *)
(***************************************************************************)
SeenAgain(n) == IF n < MaxSeen THEN n + 1 ELSE n

Effect(action) ==
    \/ /\ action = "add_label"
       /\ labelled' = labelled \cup {current}
       /\ UNCHANGED <<posted, closed>>
    \/ /\ action = "comment"
       /\ posted' = [posted EXCEPT ![Task][Decision] = SeenAgain(@)]
       /\ UNCHANGED <<labelled, closed>>
    \/ /\ action = "close_issue"
       /\ closed' = IF CloseIsAllowed(Task) THEN closed \cup {Issue} ELSE closed
       /\ UNCHANGED <<posted, labelled>>

Act ==
    /\ pc = "acting"
    /\ nextAction <= Len(Actions)
    /\ Effect(Actions[nextAction])
    /\ nextAction' = nextAction + 1
    /\ UNCHANGED <<lifecycleVars, pc, drainEvent, batch, current, memoryVars, historyVars>>

\* A faulty UnknownAction: the exception ends the whole cycle.
UnknownActionEndsCycle ==
    /\ pc = "acting"
    /\ nextAction <= Len(Actions)
    /\ Actions[nextAction] = "other"
    /\ pc' = "waiting"
    /\ batch' = {} /\ current' = None /\ nextAction' = 1
    /\ stalled' = stalled \cup {Task}
    /\ UNCHANGED <<lifecycleVars, drainEvent, memoryVars, githubVars, faults, crashes,
                   answers, disturbed>>

(***************************************************************************)
(* UnknownActionError: the actions before this one have been carried out,  *)
(* the rest is not, and the task stays completed.                          *)
(***************************************************************************)
UnknownAction ==
    /\ pc = "acting"
    /\ nextAction <= Len(Actions)
    /\ Actions[nextAction] = "other"
    /\ NextPair
    /\ stalled' = stalled \cup {Task}
    /\ UNCHANGED <<lifecycleVars, memoryVars, githubVars, faults, crashes, answers,
                   disturbed>>

\* A faulty UpsertSummary: the summary is written before the actions.
UpsertSummaryFirst ==
    /\ pc = "acting"
    /\ summary' = [summary EXCEPT ![Issue] = Decision]
    /\ pc' = IF nextAction > Len(Actions) THEN "marking" ELSE pc
    /\ UNCHANGED <<lifecycleVars, drainEvent, batch, current, nextAction, actionLog,
                   undone, githubVars, historyVars>>

\* A faulty UpsertSummary: it stores the task for the decision.
UpsertTask ==
    /\ pc = "acting"
    /\ nextAction > Len(Actions)
    /\ summary' = [summary EXCEPT ![Issue] = Task]
    /\ pc' = "marking"
    /\ UNCHANGED <<lifecycleVars, drainEvent, batch, current, nextAction, actionLog,
                   undone, githubVars, historyVars>>

(***************************************************************************)
(* execute has returned: the summary of the issue is replaced, unless the  *)
(* write is undone as log_action's can be.                                 *)
(***************************************************************************)
UpsertSummary ==
    /\ pc = "acting"
    /\ nextAction > Len(Actions)
    /\ pc' = "marking"
    /\ \/ summary' = [summary EXCEPT ![Issue] = Decision] /\ UNCHANGED faults
       \/ Fault /\ UNCHANGED summary
    /\ UNCHANGED <<lifecycleVars, drainEvent, batch, current, nextAction, actionLog,
                   undone, githubVars, crashes, answers, stalled, disturbed>>

MarkDone ==
    /\ pc = "marking"
    /\ Close(Task)
    /\ NextPair
    /\ UNCHANGED <<memoryVars, githubVars, historyVars>>

(***************************************************************************)
(* A SQLite or GitHub call of the pair raises (get_repo and get_issue, at  *)
(* the start of "acting", among them): the exception is logged and the     *)
(* loop goes on with the next pair.  A GitHub call that raises may still   *)
(* have had its effect (the answer was lost).                              *)
(***************************************************************************)
PairFails ==
    /\ pc \in {"logging", "acting", "marking"}
    /\ Fault
    /\ disturbed' = disturbed \cup {Task}
    /\ stalled' = stalled \cup {Task}
    /\ NextPair
    /\ \/ UNCHANGED githubVars
       \/ pc = "acting" /\ nextAction <= Len(Actions) /\ Effect(Actions[nextAction])
    /\ UNCHANGED <<lifecycleVars, memoryVars, crashes, answers>>

-----------------------------------------------------------------------------
(***************************************************************************)
(* The process dies: what it held in memory is gone, the two databases and *)
(* GitHub stay as they are.  A cancelled loop (shutdown) is the crash at   *)
(* "waiting".                                                              *)
(***************************************************************************)
Crash ==
    /\ pc # "down"
    /\ crashes < MaxCrashes
    /\ crashes' = crashes + 1
    /\ pc' = "down"
    /\ drainEvent' = FALSE
    /\ batch' = {} /\ current' = None /\ nextAction' = 1
    /\ stalled' = stalled \cup Completed
    /\ disturbed' = IF current = None THEN disturbed ELSE disturbed \cup {Task}
    /\ UNCHANGED <<lifecycleVars, memoryVars, githubVars, faults, answers>>

(***************************************************************************)
(* _lifespan creates a new event and starts the loop.                      *)
(***************************************************************************)
Restart ==
    /\ pc = "down"
    /\ pc' = "waiting"
    /\ UNCHANGED <<lifecycleVars, drainEvent, batch, current, nextAction, memoryVars,
                   githubVars, historyVars>>

ExecuteStep ==
    \/ Read \/ \E p \in batch : Pick(p)
    \/ LogAction \/ Act \/ UnknownAction \/ UpsertSummary \/ MarkDone

Next ==
    \/ \E t \in Tasks, a \in Agents : SubmitTask(t, a) \/ HandOutTask(t, a)
    \/ \E t \in Tasks, d \in Decisions : QueueComplete(t, d)
    \/ \E t \in Tasks : HarnessResult(t)
    \/ RequeueStale \/ FailExhausted \/ SweepFails
    \/ Wake \/ DrainFails \/ ExecuteStep \/ PairFails
    \/ Crash \/ Restart

Spec == Init /\ [][Next]_vars

(***************************************************************************)
(* asyncio runs its ready coroutines in turn: once its timeout has passed, *)
(* the drain loop is run however many endpoints and sweeps run in between  *)
(* (hence strong fairness: each of them takes the event loop for a while). *)
(* A cycle or a sweep runs to its end, and someone restarts the process.   *)
(***************************************************************************)
FairSpec ==
    /\ Spec
    /\ SF_vars(Wake) /\ WF_vars(ExecuteStep)
    /\ WF_vars(FailExhausted) /\ WF_vars(Restart)

-----------------------------------------------------------------------------
Carries(p, action) == \E k \in DOMAIN ActionsOf[p[2]] : ActionsOf[p[2]][k] = action

Poisoned(d) == \E k \in DOMAIN ActionsOf[d] : ActionsOf[d][k] = "other"

HoldsPoison(t) == result[t] # None /\ Poisoned(result[t])

(***************************************************************************)
(* Every label and comment of the pair is on GitHub.                       *)
(***************************************************************************)
CarriedOut(p) ==
    /\ Carries(p, "add_label") => p \in labelled
    /\ Carries(p, "comment") => posted[p[1]][p[2]] > 0

Recorded(row) == row \in actionLog \/ row \in undone

(***************************************************************************)
(* done says the truth: the decision stored with a done task, not one it   *)
(* replaced, has been logged and carried out on GitHub, whatever crashed,  *)
(* failed or was completed again in between.                               *)
(***************************************************************************)
DoneMeansCarriedOut ==
    \A t \in Tasks :
        status[t] = "done" =>
            /\ Recorded(<<IssueOf[t], result[t]>>)
            /\ CarriedOut(<<t, result[t]>>)
            /\ ~Poisoned(result[t])

(***************************************************************************)
(* Nothing is done on GitHub without a record of the decision in           *)
(* action_log (executor.py: "so the record exists even if a downstream     *)
(* call fails"), unless the fault of another thread undid the record.      *)
(***************************************************************************)
AuditTrail ==
    \A p \in Pairs :
        p \in labelled \/ posted[p[1]][p[2]] > 0 => Recorded(<<IssueOf[p[1]], p[2]>>)

(***************************************************************************)
(* What a later task of the issue is told (its memory_summary) is what was *)
(* really done: the decision of some task of the issue, carried out whole. *)
(***************************************************************************)
SummaryIsTrue ==
    \A i \in Issues :
        summary[i] # None =>
            \E t \in Tasks : IssueOf[t] = i /\ CarriedOut(<<t, summary[i]>>)

CommentsTwice(d) ==
    \E j, k \in DOMAIN ActionsOf[d] :
        j # k /\ ActionsOf[d][j] = "comment" /\ ActionsOf[d][k] = "comment"

(***************************************************************************)
(* A comment is posted twice only after a fault, a crash or a second       *)
(* completion of that very task, or for a decision that has an unknown     *)
(* action or two comments: the trouble of one task never makes another one *)
(* run again.                                                              *)
(***************************************************************************)
RepeatsAreExplained ==
    \A t \in Tasks, d \in Decisions :
        posted[t][d] > 1 => t \in disturbed \/ Poisoned(d) \/ CommentsTwice(d)

(***************************************************************************)
(* The loop sleeps on trouble only: when it awaits an event that is not    *)
(* set, every completed row that is left is one that a failed, poisoned or *)
(* killed cycle left behind.  No completion waits for drain_interval_      *)
(* seconds because a wake-up came at the wrong moment, be it before the    *)
(* clear(), after the read or beside another task's exception.             *)
(***************************************************************************)
OnlyTroubleWaits == pc = "waiting" /\ ~drainEvent => Completed \subseteq stalled

(***************************************************************************)
(* Every decision the queue accepted is carried out in the end, after any  *)
(* number of faults and crashes that is finite, and beside any poisoned    *)
(* one: an exception is confined to its task.                              *)
(***************************************************************************)
DecisionsAreCarriedOut ==
    \A t \in Tasks :
        status[t] = "completed" ~> status[t] = "done" \/ HoldsPoison(t)

(***************************************************************************)
(* docs/reference/agent-protocol.md: close_issue is skipped "unless the    *)
(* agent's configuration includes allow_close: true".  So a done task of   *)
(* an agent with allow_close whose decision closes has closed the issue.   *)
(***************************************************************************)
AllowedCloseIsExecuted ==
    \A t \in Tasks :
        status[t] = "done" /\ AllowClose[t] /\ Carries(<<t, result[t]>>, "close_issue")
            => IssueOf[t] \in closed

=============================================================================
