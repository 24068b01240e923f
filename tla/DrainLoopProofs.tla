--------------------------- MODULE DrainLoopProofs ---------------------------
(***************************************************************************)
(* What DrainLoop guarantees for every set of tasks, issues and decisions, *)
(* whatever actions a decision lists, and for every number of faults and   *)
(* crashes.                                                                *)
(*                                                                         *)
(* The invariants of DrainLoop speak of what is on GitHub and of what is   *)
(* done.  What makes them inductive is what the loop holds between two of  *)
(* its steps: the rows it read are still what they were, and the actions   *)
(* before nextAction have been carried out.                                *)
(***************************************************************************)
EXTENDS DrainLoop, TLAPS

(***************************************************************************)
(* A row has a decision exactly if complete() has reached it.              *)
(***************************************************************************)
ResultMeansDecided ==
    \A t \in Tasks : result[t] # None <=> status[t] \in {"completed", "done"}

(***************************************************************************)
(* During a cycle the pairs read at its start are still the completed rows *)
(* they were: nobody else runs, and the loop closes only the current one.  *)
(***************************************************************************)
CycleIsCurrent ==
    /\ pc \in {"logging", "acting", "marking"} <=> current # None
    /\ pc \in {"down", "waiting", "sweeping", "reading"} => batch = {}
    /\ batch \subseteq DrainCompleted
    /\ current # None =>
           /\ status[Task] = "completed" /\ result[Task] = Decision
           /\ current \notin batch

(***************************************************************************)
(* The record was committed before the first action, the actions before    *)
(* nextAction have been carried out, and "marking" comes after the last.   *)
(***************************************************************************)
ProgressIsReal ==
    /\ nextAction > 0
    /\ pc \in {"acting", "marking"} => Recorded(<<Issue, Decision>>)
    /\ pc = "logging" => nextAction = 1
    /\ pc = "marking" => nextAction > Len(Actions)
    /\ current # None =>
           \A k \in DOMAIN Actions :
               k < nextAction =>
                   /\ Actions[k] # "other"
                   /\ Actions[k] = "add_label" => current \in labelled
                   /\ Actions[k] = "comment" => posted[Task][Decision] > 0

(***************************************************************************)
(* The comment of an undisturbed task is posted by the one cycle that ends *)
(* with the task done.                                                     *)
(***************************************************************************)
CommentsArePostedOnce ==
    \A t \in Tasks, d \in Decisions :
        t \notin disturbed /\ ~Poisoned(d) /\ ~CommentsTwice(d) =>
            /\ posted[t][d] <= 1
            /\ posted[t][d] > 0 =>
                   \/ status[t] = "done"
                   \/ /\ current = <<t, d>>
                      /\ \E k \in DOMAIN ActionsOf[d] :
                             k < nextAction /\ ActionsOf[d][k] = "comment"

(***************************************************************************)
(* A completed row has the event set, is in the hands of the running       *)
(* cycle, or was left behind by one in trouble.                            *)
(***************************************************************************)
CompletedIsSeen ==
    \A t \in Completed :
        \/ drainEvent
        \/ t \in stalled
        \/ pc = "reading"
        \/ <<t, result[t]>> \in batch
        \/ current = <<t, result[t]>>

Inv ==
    /\ TypeOK
    /\ ResultMeansDecided
    /\ CycleIsCurrent
    /\ ProgressIsReal
    /\ AuditTrail
    /\ DoneMeansCarriedOut
    /\ SummaryIsTrue
    /\ CommentsArePostedOnce
    /\ CompletedIsSeen

-----------------------------------------------------------------------------
(***************************************************************************)
(* The pair being processed, by its parts.                                 *)
(***************************************************************************)
LEMMA CurrentPair ==
  ASSUME Inv, current # None
  PROVE  \E t \in Tasks, d \in Decisions :
             /\ current = <<t, d>>
             /\ Task = t /\ Decision = d /\ Issue = IssueOf[t] /\ Actions = ActionsOf[d]
             /\ status[t] = "completed" /\ result[t] = d
BY DEF Inv, TypeOK, CycleIsCurrent, Pairs, Task, Decision, Issue, Actions

(***************************************************************************)
(* A completed row is a pair, and so not None.                             *)
(***************************************************************************)
LEMMA CompletedPairs ==
  ASSUME Inv, NEW t \in Completed
  PROVE  /\ t \in Tasks /\ result[t] \in Decisions
         /\ <<t, result[t]>> \in Pairs /\ <<t, result[t]>> # None
BY NoneIsNoPair DEF Inv, TypeOK, LifecycleTypeOK, ResultMeansDecided, Completed, Pairs

(***************************************************************************)
(* The actions of a decision are numbered from one on.                     *)
(***************************************************************************)
LEMMA ActionLists ==
  ASSUME NEW d \in Decisions
  PROVE  /\ Len(ActionsOf[d]) \in Nat
         /\ DOMAIN ActionsOf[d] = 1..Len(ActionsOf[d])
         /\ \A k \in DOMAIN ActionsOf[d] : ActionsOf[d][k] \in ActionTypes
BY ActionsOfType

(***************************************************************************)
(* The empty harness satisfies the inductive invariant.                    *)
(***************************************************************************)
LEMMA InitInv == Init => Inv
<1> SUFFICES ASSUME Init PROVE Inv
  OBVIOUS
<1> USE NoneIsNoValue, NoneIsNoPair DEF Init, LifecycleInit
<1>1. TypeOK
  <2>1. LifecycleTypeOK
    BY DEF LifecycleTypeOK, Statuses
  <2>2. posted \in [Tasks -> [Decisions -> 0..MaxSeen]] /\ faults \in 0..MaxFaults
        /\ crashes \in 0..MaxCrashes
    BY BoundsAreNat
  <2> QED
    BY <2>1, <2>2 DEF TypeOK, Pairs
<1>2. ResultMeansDecided /\ CycleIsCurrent /\ ProgressIsReal
  BY DEF ResultMeansDecided, CycleIsCurrent, ProgressIsReal
<1>3. AuditTrail /\ DoneMeansCarriedOut /\ SummaryIsTrue
  BY DEF AuditTrail, DoneMeansCarriedOut, SummaryIsTrue, Pairs, Recorded
<1>4. CommentsArePostedOnce /\ CompletedIsSeen
  BY DEF CommentsArePostedOnce, CompletedIsSeen, Completed
<1> QED
  BY <1>1, <1>2, <1>3, <1>4 DEF Inv

-----------------------------------------------------------------------------
(***************************************************************************)
(* Steps of the queue alone: while no cycle runs, they neither decide a    *)
(* task nor close one.                                                     *)
(***************************************************************************)
QueueMoves ==
    /\ LifecycleTypeOK'
    /\ result' = result
    /\ \A t \in Tasks : status'[t] # status[t] =>
           /\ status[t] \notin {"completed", "done"}
           /\ status'[t] \notin {"completed", "done"}

(* Such a step keeps Inv.                                                  *)
LEMMA QueueMovesInv ==
  ASSUME Inv, QueueMoves, pc \in {"waiting", "sweeping"}, pc' \in {"waiting", "sweeping"},
         UNCHANGED <<drainEvent, batch, current, nextAction, memoryVars, githubVars, historyVars>>
  PROVE  Inv'
<1> USE DEF Inv, memoryVars, githubVars, historyVars
<1>1. current = None /\ batch = {}
  BY DEF CycleIsCurrent
<1>2. TypeOK'
  BY DEF TypeOK, QueueMoves
<1>3. ResultMeansDecided'
  BY DEF ResultMeansDecided, QueueMoves
<1>4. CycleIsCurrent'
  BY <1>1 DEF CycleIsCurrent
<1>5. ProgressIsReal'
  BY <1>1 DEF ProgressIsReal
<1>6. AuditTrail'
  BY DEF AuditTrail, Recorded
<1>7. DoneMeansCarriedOut'
  BY DEF DoneMeansCarriedOut, CarriedOut, QueueMoves, Recorded
<1>8. SummaryIsTrue'
  BY DEF SummaryIsTrue, CarriedOut
<1>9. CommentsArePostedOnce'
  BY <1>1, NoneIsNoPair DEF CommentsArePostedOnce, QueueMoves
<1>10. CompletedIsSeen'
  BY <1>1, CompletedPairs DEF CompletedIsSeen, Completed, QueueMoves
<1> QED
  BY <1>2, <1>3, <1>4, <1>5, <1>6, <1>7, <1>8, <1>9, <1>10

(* enqueue, between two rounds of the drain loop.                          *)
LEMMA SubmitTaskInv ==
  ASSUME Inv, NEW t \in Tasks, NEW a \in Agents, SubmitTask(t, a)
  PROVE  Inv'
<1>1. QueueMoves
  BY DEF SubmitTask, Submit, QueueMoves, Inv, TypeOK, LifecycleTypeOK, Statuses
<1> QED
  BY <1>1, QueueMovesInv DEF SubmitTask, LoopIsFree, loopVars

(* claim_next.                                                             *)
LEMMA HandOutTaskInv ==
  ASSUME Inv, NEW t \in Tasks, NEW a \in Agents, HandOutTask(t, a)
  PROVE  Inv'
<1>1. QueueMoves
  BY DEF HandOutTask, HandOut, QueueMoves, Inv, TypeOK, LifecycleTypeOK, Statuses
<1> QED
  BY <1>1, QueueMovesInv DEF HandOutTask, LoopIsFree, loopVars

(* requeue_stale.                                                          *)
LEMMA RequeueStaleInv ==
  ASSUME Inv, RequeueStale
  PROVE  Inv'
<1>1. QueueMoves
  BY DEF RequeueStale, Expire, Claimed, QueueMoves, Inv, TypeOK, LifecycleTypeOK, Statuses
<1> QED
  BY <1>1, QueueMovesInv DEF RequeueStale, LoopIsFree

(* fail_exhausted.                                                         *)
LEMMA FailExhaustedInv ==
  ASSUME Inv, FailExhausted
  PROVE  Inv'
<1>1. QueueMoves
  BY DEF FailExhausted, GiveUp, IsExhausted, QueueMoves, Inv, TypeOK, LifecycleTypeOK, Statuses
<1> QED
  BY <1>1, QueueMovesInv DEF FailExhausted

(***************************************************************************)
(* POST /queue/complete: a first decision finds no comment of the task on  *)
(* GitHub, a second one disturbs it.                                       *)
(***************************************************************************)
LEMMA QueueCompleteInv ==
  ASSUME Inv, NEW t \in Tasks, NEW d \in Decisions, QueueComplete(t, d)
  PROVE  Inv'
<1> USE NoneIsNoValue DEF Inv, QueueComplete, Decide, WakeDrainLoop, LoopIsFree,
        memoryVars, githubVars
<1>1. current = None /\ batch = {}
  BY DEF CycleIsCurrent
<1>2. TypeOK'
  <2>1. LifecycleTypeOK'
    BY DEF TypeOK, LifecycleTypeOK, Statuses
  <2>2. answers' \in [Tasks -> Nat] /\ stalled' \subseteq Tasks /\ disturbed' \subseteq Tasks
    BY DEF TypeOK
  <2> QED
    BY <2>1, <2>2 DEF TypeOK
<1>3. ResultMeansDecided'
  BY DEF ResultMeansDecided, TypeOK, LifecycleTypeOK
<1>4. CycleIsCurrent'
  BY <1>1 DEF CycleIsCurrent
<1>5. ProgressIsReal'
  BY <1>1 DEF ProgressIsReal
<1>6. AuditTrail'
  BY DEF AuditTrail, Recorded
<1>7. DoneMeansCarriedOut'
  BY DEF DoneMeansCarriedOut, CarriedOut, TypeOK, LifecycleTypeOK, Recorded
<1>8. SummaryIsTrue'
  BY DEF SummaryIsTrue, CarriedOut
<1>9. CommentsArePostedOnce'
  <2> SUFFICES ASSUME NEW u \in Tasks, NEW e \in Decisions,
                      u \notin disturbed', ~Poisoned(e), ~CommentsTwice(e)
               PROVE  posted[u][e] <= 1 /\ (posted[u][e] > 0 => status'[u] = "done")
    BY DEF CommentsArePostedOnce, Poisoned, CommentsTwice
  <2>1. /\ u \notin disturbed
        /\ posted[u][e] <= 1 /\ (posted[u][e] > 0 => status[u] = "done")
    BY <1>1, NoneIsNoPair DEF CommentsArePostedOnce
  <2>2. CASE u = t
    BY <2>1, <2>2 DEF ResultMeansDecided
  <2>3. CASE u # t
    BY <2>1, <2>3 DEF TypeOK, LifecycleTypeOK
  <2> QED
    BY <2>2, <2>3
<1>10. CompletedIsSeen'
  BY DEF CompletedIsSeen, Completed
<1> QED
  BY <1>2, <1>3, <1>4, <1>5, <1>6, <1>7, <1>8, <1>9, <1>10

(***************************************************************************)
(* Steps between two cycles that touch neither the rows nor GitHub.        *)
(***************************************************************************)
LEMMA IdleMovesInv ==
  ASSUME Inv, TypeOK', current = None, current' = None, nextAction' = nextAction,
         pc' \notin {"logging", "acting", "marking"},
         batch' = {} \/ (pc' = "picking" /\ batch' \subseteq DrainCompleted),
         CompletedIsSeen',
         UNCHANGED <<lifecycleVars, memoryVars, githubVars, disturbed>>
  PROVE  Inv'
<1> USE DEF Inv, lifecycleVars, memoryVars, githubVars
<1>1. ResultMeansDecided'
  BY DEF ResultMeansDecided
<1>2. CycleIsCurrent'
  BY DEF CycleIsCurrent, DrainCompleted, Completed
<1>3. ProgressIsReal'
  BY DEF ProgressIsReal
<1>4. AuditTrail' /\ DoneMeansCarriedOut' /\ SummaryIsTrue'
  BY DEF AuditTrail, DoneMeansCarriedOut, SummaryIsTrue, CarriedOut, Recorded
<1>5. CommentsArePostedOnce'
  BY DEF CommentsArePostedOnce
<1> QED
  BY <1>1, <1>2, <1>3, <1>4, <1>5

(* POST /harness/result sets the drain event.                              *)
LEMMA HarnessResultInv ==
  ASSUME Inv, NEW t \in Tasks, HarnessResult(t)
  PROVE  Inv'
<1> USE DEF HarnessResult, LoopIsFree
<1>1. TypeOK'
  BY DEF Inv, TypeOK, lifecycleVars, memoryVars, githubVars, historyVars, LifecycleTypeOK
<1>2. CompletedIsSeen'
  BY DEF CompletedIsSeen
<1> QED
  BY <1>1, <1>2, IdleMovesInv DEF Inv, CycleIsCurrent, historyVars

(* fail_exhausted raises: the round ends, and its requeues stay.           *)
LEMMA SweepFailsInv ==
  ASSUME Inv, SweepFails
  PROVE  Inv'
<1> USE DEF SweepFails
<1>0. faults' \in 0..MaxFaults
  BY BoundsAreNat DEF Inv, TypeOK, Fault
<1>1. TypeOK'
  BY <1>0 DEF Inv, TypeOK, lifecycleVars, memoryVars, githubVars, LifecycleTypeOK
<1>2. CompletedIsSeen'
  BY DEF Inv, CompletedIsSeen, Completed, lifecycleVars
<1> QED
  BY <1>1, <1>2, IdleMovesInv DEF Inv, CycleIsCurrent

(* The loop wakes up and clears the event: the read is next.               *)
LEMMA WakeInv ==
  ASSUME Inv, Wake
  PROVE  Inv'
<1> USE DEF Wake, historyVars
<1>1. TypeOK'
  BY DEF Inv, TypeOK, lifecycleVars, memoryVars, githubVars, LifecycleTypeOK
<1>2. CompletedIsSeen'
  BY DEF CompletedIsSeen
<1> QED
  BY <1>1, <1>2, IdleMovesInv DEF Inv, CycleIsCurrent

(* The loop takes the completed rows into its batch, all of them.          *)
LEMMA ReadInv ==
  ASSUME Inv, Read
  PROVE  Inv'
<1> USE DEF Read, historyVars
<1>1. DrainCompleted \subseteq Pairs
  BY NoneIsNoValue
     DEF Inv, TypeOK, LifecycleTypeOK, ResultMeansDecided, DrainCompleted, Completed, Pairs
<1>2. TypeOK'
  BY <1>1 DEF Inv, TypeOK, lifecycleVars, memoryVars, githubVars, LifecycleTypeOK
<1>3. CompletedIsSeen'
  BY DEF CompletedIsSeen, DrainCompleted, Completed, lifecycleVars
<1>4. DrainCompleted = {} => batch' = {}
  OBVIOUS
<1> QED
  BY <1>2, <1>3, <1>4, IdleMovesInv DEF Inv, CycleIsCurrent

(* The query fails and the loop goes back to waiting.                      *)
LEMMA DrainFailsInv ==
  ASSUME Inv, DrainFails
  PROVE  Inv'
<1> USE DEF DrainFails
<1>0. faults' \in 0..MaxFaults /\ stalled' \subseteq Tasks
  BY BoundsAreNat DEF Inv, TypeOK, Fault, Completed
<1>1. TypeOK'
  BY <1>0 DEF Inv, TypeOK, lifecycleVars, memoryVars, githubVars, LifecycleTypeOK
<1>2. CompletedIsSeen'
  BY DEF CompletedIsSeen, Completed, lifecycleVars
<1> QED
  BY <1>1, <1>2, IdleMovesInv DEF Inv, CycleIsCurrent

(* The harness starts again with an empty event and batch.                 *)
LEMMA RestartInv ==
  ASSUME Inv, Restart
  PROVE  Inv'
<1> USE DEF Restart, loopVars, historyVars
<1>1. TypeOK'
  BY DEF Inv, TypeOK, lifecycleVars, memoryVars, githubVars, LifecycleTypeOK
<1>2. CompletedIsSeen'
  BY DEF Inv, CompletedIsSeen, Completed, lifecycleVars
<1> QED
  BY <1>1, <1>2, IdleMovesInv DEF Inv, CycleIsCurrent

-----------------------------------------------------------------------------
(* The steps of a cycle.                                                   *)

(***************************************************************************)
(* Pick: the pair is one of the batch, so its row is completed.            *)
(***************************************************************************)
LEMMA PickInv ==
  ASSUME Inv, NEW p \in batch, Pick(p)
  PROVE  Inv'
<1> USE DEF Inv, Pick, lifecycleVars, memoryVars, githubVars, historyVars
<1>1. current = None
  BY DEF CycleIsCurrent
<1>2. PICK t \in Tasks : p = <<t, result[t]>> /\ status[t] = "completed"
  BY DEF CycleIsCurrent, DrainCompleted, Completed
<1>3. p \in Pairs /\ p # None
  BY NoneIsNoPair DEF TypeOK, Pairs
<1>4. TypeOK'
  BY <1>3 DEF TypeOK, LifecycleTypeOK
<1>5. ResultMeansDecided'
  BY DEF ResultMeansDecided
<1>6. CycleIsCurrent'
  BY <1>2, <1>3 DEF CycleIsCurrent, DrainCompleted, Task, Decision, Completed
<1>7. ProgressIsReal'
  BY <1>3, ActionLists DEF ProgressIsReal, Actions, Decision, Pairs
<1>8. AuditTrail' /\ DoneMeansCarriedOut' /\ SummaryIsTrue'
  BY DEF AuditTrail, DoneMeansCarriedOut, SummaryIsTrue, CarriedOut, Recorded
<1>9. CommentsArePostedOnce'
  BY <1>1, NoneIsNoPair DEF CommentsArePostedOnce
<1>10. CompletedIsSeen'
  BY <1>1, CompletedPairs DEF CompletedIsSeen, Completed
<1> QED
  BY <1>4, <1>5, <1>6, <1>7, <1>8, <1>9, <1>10

(***************************************************************************)
(* log_action: the record is there before the first action.                *)
(***************************************************************************)
LEMMA LogActionInv ==
  ASSUME Inv, LogAction
  PROVE  Inv'
<1> USE DEF Inv, LogAction, lifecycleVars, githubVars
<1>1. PICK t \in Tasks, d \in Decisions :
          /\ current = <<t, d>>
          /\ Task = t /\ Decision = d /\ Issue = IssueOf[t] /\ Actions = ActionsOf[d]
  BY CurrentPair DEF CycleIsCurrent
<1>2. /\ actionLog' \subseteq Issues \X Decisions /\ undone' \subseteq Issues \X Decisions
      /\ actionLog \subseteq actionLog' /\ undone \subseteq undone'
      /\ <<IssueOf[t], d>> \in actionLog' \cup undone'
  BY <1>1, IssueOfType DEF TypeOK
<1>3. faults' \in 0..MaxFaults
  BY BoundsAreNat DEF Fault, TypeOK
<1>4. TypeOK'
  BY <1>2, <1>3 DEF TypeOK, LifecycleTypeOK
<1>5. ResultMeansDecided' /\ CycleIsCurrent' /\ CompletedIsSeen'
  BY DEF ResultMeansDecided, CycleIsCurrent, DrainCompleted, CompletedIsSeen, Completed,
         Task, Decision
<1>6. ProgressIsReal'
  BY <1>1, <1>2, ActionLists DEF ProgressIsReal, Recorded, Task, Decision, Issue, Actions
<1>7. AuditTrail' /\ DoneMeansCarriedOut' /\ SummaryIsTrue'
  BY <1>2 DEF AuditTrail, DoneMeansCarriedOut, SummaryIsTrue, CarriedOut, Recorded
<1>8. CommentsArePostedOnce'
  BY DEF CommentsArePostedOnce
<1> QED
  BY <1>4, <1>5, <1>6, <1>7, <1>8

(***************************************************************************)
(* What a GitHub call for the current pair leaves alone: labels stay, the  *)
(* number of comments does not go down, and no other pair is touched.      *)
(***************************************************************************)
GithubMoves ==
    /\ labelled' \subseteq Pairs
    /\ posted' \in [Tasks -> [Decisions -> 0..MaxSeen]]
    /\ closed' \subseteq Issues
    /\ \A t \in Tasks, d \in Decisions :
           /\ posted'[t][d] >= posted[t][d]
           /\ <<t, d>> \in labelled => <<t, d>> \in labelled'
           /\ <<t, d>> # current => /\ posted'[t][d] = posted[t][d]
                                    /\ <<t, d>> \in labelled' => <<t, d>> \in labelled

(* A counter up to MaxSeen never falls, and leaves 0.                      *)
LEMMA SeenAgainCounts ==
  ASSUME NEW n \in 0..MaxSeen
  PROVE  SeenAgain(n) \in 0..MaxSeen /\ SeenAgain(n) >= n /\ SeenAgain(n) <= n + 1
         /\ SeenAgain(n) > 0
BY BoundsAreNat DEF SeenAgain

(* What one of the executor's GitHub calls changes.                        *)
LEMMA EffectMoves ==
  ASSUME Inv, current # None, NEW a, Effect(a)
  PROVE  /\ GithubMoves
         /\ a \in {"add_label", "comment", "close_issue"}
         /\ a = "add_label" => current \in labelled'
         /\ a = "comment" => posted'[Task][Decision] = SeenAgain(posted[Task][Decision])
         /\ a # "comment" => posted' = posted
<1>1. PICK t \in Tasks, d \in Decisions :
          current = <<t, d>> /\ Task = t /\ Decision = d /\ Issue = IssueOf[t]
  BY CurrentPair
<1>2. /\ labelled \subseteq Pairs /\ closed \subseteq Issues
      /\ posted \in [Tasks -> [Decisions -> 0..MaxSeen]]
      /\ \A u \in Tasks, e \in Decisions : posted[u][e] \in Nat /\ posted[u][e] \in 0..MaxSeen
      /\ current \in Pairs /\ Issue \in Issues
  BY <1>1, IssueOfType, BoundsAreNat DEF Inv, TypeOK, Pairs
<1>3. CASE a = "add_label"
  BY <1>1, <1>2, <1>3 DEF Effect, GithubMoves
<1>4. CASE a = "comment"
  <2>1. /\ labelled' = labelled /\ closed' = closed
        /\ posted' = [posted EXCEPT ![t][d] = SeenAgain(posted[t][d])]
    BY <1>1, <1>4 DEF Effect
  <2>2. /\ SeenAgain(posted[t][d]) \in 0..MaxSeen
        /\ SeenAgain(posted[t][d]) >= posted[t][d]
    BY <1>2, SeenAgainCounts
  <2>3. posted' \in [Tasks -> [Decisions -> 0..MaxSeen]]
    BY <1>2, <2>1, <2>2
  <2>4. posted'[t][d] = SeenAgain(posted[t][d])
    BY <1>2, <2>1
  <2>5. \A u \in Tasks, e \in Decisions : <<u, e>> # current => posted'[u][e] = posted[u][e]
    BY <1>1, <1>2, <2>1
  <2>6. \A u \in Tasks, e \in Decisions : posted'[u][e] >= posted[u][e]
    BY <1>1, <1>2, <2>2, <2>4, <2>5
  <2> QED
    BY <1>1, <1>2, <1>4, <2>1, <2>3, <2>4, <2>5, <2>6 DEF GithubMoves
<1>5. CASE a = "close_issue"
  BY <1>1, <1>2, <1>5 DEF Effect, GithubMoves, CloseIsAllowed
<1>6. CASE a \notin {"add_label", "comment", "close_issue"}
  BY <1>6 DEF Effect
<1> QED
  BY <1>3, <1>4, <1>5, <1>6

(***************************************************************************)
(* What has been carried out stays so, and what was recorded before is     *)
(* recorded after it: the current pair is, once its actions run.           *)
(***************************************************************************)
LEMMA GithubMovesKeep ==
  ASSUME Inv, GithubMoves, Recorded(<<Issue, Decision>>), current # None,
         UNCHANGED <<lifecycleVars, memoryVars>>
  PROVE  AuditTrail' /\ DoneMeansCarriedOut' /\ SummaryIsTrue' /\ ResultMeansDecided'
<1> USE DEF lifecycleVars, memoryVars
<1>1. PICK t \in Tasks, d \in Decisions :
          current = <<t, d>> /\ Task = t /\ Decision = d /\ Issue = IssueOf[t]
  BY CurrentPair
<1>2. \A u \in Tasks, e \in Decisions : posted[u][e] \in Nat /\ posted'[u][e] \in Nat
  BY BoundsAreNat DEF Inv, TypeOK, GithubMoves
<1>3. AuditTrail'
  <2> SUFFICES ASSUME NEW u \in Tasks, NEW e \in Decisions,
                      <<u, e>> \in labelled' \/ posted'[u][e] > 0
               PROVE  Recorded(<<IssueOf[u], e>>)
    BY DEF AuditTrail, Pairs, Recorded
  <2>1. CASE <<u, e>> = current
    BY <1>1, <2>1
  <2>2. CASE <<u, e>> # current
    <3>1. <<u, e>> \in labelled \/ posted[u][e] > 0
      BY <2>2 DEF GithubMoves
    <3>2. <<u, e>> \in Pairs
      BY DEF Pairs
    <3> QED
      BY <3>1, <3>2 DEF Inv, AuditTrail, Recorded
  <2> QED
    BY <2>1, <2>2
<1>4. ASSUME NEW u \in Tasks, NEW e \in Decisions, CarriedOut(<<u, e>>)
      PROVE  CarriedOut(<<u, e>>)'
  BY <1>2, <1>4 DEF CarriedOut, Carries, GithubMoves
<1>5. DoneMeansCarriedOut'
  <2> SUFFICES ASSUME NEW u \in Tasks, status[u] = "done"
               PROVE  /\ Recorded(<<IssueOf[u], result[u]>>)
                      /\ CarriedOut(<<u, result[u]>>)'
                      /\ ~Poisoned(result[u])
    BY DEF DoneMeansCarriedOut, Poisoned, Recorded
  <2>1. PICK e \in Decisions : result[u] = e
    BY DEF Inv, TypeOK, LifecycleTypeOK, ResultMeansDecided
  <2> QED
    BY <2>1, <1>4 DEF Inv, DoneMeansCarriedOut, Recorded
<1>6. SummaryIsTrue'
  <2> SUFFICES ASSUME NEW i \in Issues, summary[i] # None
               PROVE  \E u \in Tasks : IssueOf[u] = i /\ CarriedOut(<<u, summary[i]>>)'
    BY DEF SummaryIsTrue
  <2>1. PICK u \in Tasks : IssueOf[u] = i /\ CarriedOut(<<u, summary[i]>>)
    BY DEF Inv, SummaryIsTrue
  <2>2. PICK e \in Decisions : summary[i] = e
    BY DEF Inv, TypeOK
  <2> QED
    BY <2>1, <2>2, <1>4
<1>7. ResultMeansDecided'
  BY DEF Inv, ResultMeansDecided
<1> QED
  BY <1>3, <1>5, <1>6, <1>7

(***************************************************************************)
(* After its last action the current pair has been carried out whole.      *)
(***************************************************************************)
LEMMA AllActionsDone ==
  ASSUME Inv, current # None, nextAction > Len(Actions)
  PROVE  CarriedOut(current) /\ ~Poisoned(Decision)
<1>1. PICK t \in Tasks, d \in Decisions :
          current = <<t, d>> /\ Task = t /\ Decision = d /\ Actions = ActionsOf[d]
  BY CurrentPair
<1>2. nextAction \in Nat
  BY DEF Inv, TypeOK
<1>3. \A k \in DOMAIN ActionsOf[d] : k < nextAction
  BY <1>1, <1>2, ActionLists
<1>4. \A k \in DOMAIN ActionsOf[d] :
          /\ ActionsOf[d][k] # "other"
          /\ ActionsOf[d][k] = "add_label" => current \in labelled
          /\ ActionsOf[d][k] = "comment" => posted[t][d] > 0
  BY <1>1, <1>3 DEF Inv, ProgressIsReal
<1> QED
  BY <1>1, <1>4 DEF CarriedOut, Carries, Poisoned

(***************************************************************************)
(* The cycle goes on to the next pair: what is left of the batch is as     *)
(* current as before.                                                      *)
(***************************************************************************)
LEMMA NextPairKeeps ==
  ASSUME Inv, current # None, NextPair, result' = result,
         \A t \in Tasks : status'[t] = status[t] \/ t = Task
  PROVE  CycleIsCurrent' /\ ProgressIsReal'
<1>1. PICK t \in Tasks, d \in Decisions :
          /\ current = <<t, d>>
          /\ Task = t /\ Decision = d /\ Issue = IssueOf[t] /\ Actions = ActionsOf[d]
          /\ status[t] = "completed" /\ result[t] = d
  BY CurrentPair
<1>2. batch \subseteq DrainCompleted /\ current \notin batch
  BY DEF Inv, CycleIsCurrent
<1>3. ASSUME NEW p \in batch
      PROVE  p \in DrainCompleted'
  <2>1. PICK u \in Tasks : p = <<u, result[u]>> /\ status[u] = "completed"
    BY <1>2 DEF DrainCompleted, Completed
  <2>2. u # t
    BY <1>1, <1>2, <2>1
  <2>3. status'[u] = "completed"
    BY <1>1, <2>1, <2>2
  <2> QED
    BY <2>1, <2>3 DEF DrainCompleted, Completed
<1>4. CycleIsCurrent'
  BY <1>3 DEF CycleIsCurrent, NextPair
<1>5. ProgressIsReal'
  BY DEF ProgressIsReal, NextPair
<1> QED
  BY <1>4, <1>5

(***************************************************************************)
(* Act: one more action has been carried out.  The comment of an           *)
(* undisturbed task was not there yet, since the row is not done and no    *)
(* earlier action of the list is a comment.                                *)
(***************************************************************************)
LEMMA ActInv ==
  ASSUME Inv, Act
  PROVE  Inv'
<1> USE DEF Inv, Act, lifecycleVars, memoryVars, historyVars
<1>1. PICK t \in Tasks, d \in Decisions :
          /\ current = <<t, d>>
          /\ Task = t /\ Decision = d /\ Issue = IssueOf[t] /\ Actions = ActionsOf[d]
          /\ status[t] = "completed" /\ result[t] = d
  BY CurrentPair DEF CycleIsCurrent
<1>2. nextAction \in DOMAIN ActionsOf[d] /\ nextAction \in Nat
  BY <1>1, ActionLists DEF TypeOK, ProgressIsReal
<1>3. PICK a \in ActionTypes : a = ActionsOf[d][nextAction] /\ Effect(a)
  BY <1>1, <1>2, ActionLists
<1>4. current # None
  BY DEF CycleIsCurrent
<1>5. /\ GithubMoves
      /\ a \in {"add_label", "comment", "close_issue"}
      /\ a = "add_label" => current \in labelled'
      /\ a = "comment" => posted'[t][d] = SeenAgain(posted[t][d])
      /\ a # "comment" => posted' = posted
  BY <1>1, <1>3, <1>4, EffectMoves
<1>6. \A u \in Tasks, e \in Decisions : posted[u][e] \in 0..MaxSeen /\ posted[u][e] \in Nat
                                       /\ posted'[u][e] \in Nat
  BY <1>5, BoundsAreNat DEF TypeOK, GithubMoves
<1>7. TypeOK'
  <2>1. nextAction' \in Nat
    BY <1>2
  <2>2. /\ labelled' \subseteq Pairs /\ closed' \subseteq Issues
        /\ posted' \in [Tasks -> [Decisions -> 0..MaxSeen]]
    BY <1>5 DEF GithubMoves
  <2> QED
    BY <2>1, <2>2 DEF TypeOK, LifecycleTypeOK
<1>8. AuditTrail' /\ DoneMeansCarriedOut' /\ SummaryIsTrue' /\ ResultMeansDecided'
  BY <1>4, <1>5, GithubMovesKeep DEF ProgressIsReal
<1>9. CycleIsCurrent'
  BY DEF CycleIsCurrent, DrainCompleted, Task, Decision, Completed
<1>10. ProgressIsReal'
  <2>1. ASSUME NEW k \in DOMAIN ActionsOf[d], k < nextAction + 1
        PROVE  /\ ActionsOf[d][k] # "other"
               /\ ActionsOf[d][k] = "add_label" => current \in labelled'
               /\ ActionsOf[d][k] = "comment" => posted'[t][d] > 0
    <3>1. CASE k < nextAction
      <4>1. /\ ActionsOf[d][k] # "other"
            /\ ActionsOf[d][k] = "add_label" => current \in labelled
            /\ ActionsOf[d][k] = "comment" => posted[t][d] > 0
        BY <1>1, <1>4, <3>1 DEF ProgressIsReal
      <4>2. /\ current \in labelled => current \in labelled'
            /\ posted'[t][d] >= posted[t][d]
        BY <1>1, <1>5 DEF GithubMoves
      <4> QED
        BY <1>6, <4>1, <4>2
    <3>2. CASE k = nextAction
      BY <1>3, <1>5, <1>6, <3>2, SeenAgainCounts
    <3> QED
      BY <1>2, <2>1, <3>1, <3>2, ActionLists
  <2> QED
    BY <1>1, <1>2, <2>1 DEF ProgressIsReal, Recorded, Task, Decision, Issue, Actions
<1>11. CommentsArePostedOnce'
  <2> SUFFICES ASSUME NEW u \in Tasks, NEW e \in Decisions,
                      u \notin disturbed, ~Poisoned(e), ~CommentsTwice(e)
               PROVE  /\ posted'[u][e] <= 1
                      /\ posted'[u][e] > 0 =>
                             \/ status[u] = "done"
                             \/ /\ current = <<u, e>>
                                /\ \E k \in DOMAIN ActionsOf[e] :
                                       k < nextAction + 1 /\ ActionsOf[e][k] = "comment"
    BY DEF CommentsArePostedOnce, Poisoned, CommentsTwice
  <2>1. /\ posted[u][e] <= 1
        /\ posted[u][e] > 0 =>
               \/ status[u] = "done"
               \/ /\ current = <<u, e>>
                  /\ \E k \in DOMAIN ActionsOf[e] :
                         k < nextAction /\ ActionsOf[e][k] = "comment"
    BY DEF CommentsArePostedOnce
  <2>2. CASE current # <<u, e>>
    BY <1>5, <2>1, <2>2 DEF GithubMoves
  <2>3. CASE current = <<u, e>> /\ a # "comment"
    BY <1>2, <1>5, <2>1, <2>3, ActionLists
  <2>4. CASE current = <<u, e>> /\ a = "comment"
    <3>1. u = t /\ e = d
      BY <1>1, <2>4
    <3>2. ~ \E k \in DOMAIN ActionsOf[e] : k < nextAction /\ ActionsOf[e][k] = "comment"
      <4> SUFFICES ASSUME NEW k \in DOMAIN ActionsOf[e],
                          k < nextAction, ActionsOf[e][k] = "comment"
                   PROVE  FALSE
        OBVIOUS
      <4>1. nextAction \in DOMAIN ActionsOf[e] /\ ActionsOf[e][nextAction] = "comment"
        BY <1>2, <1>3, <2>4, <3>1
      <4>2. k # nextAction
        BY <1>2
      <4> QED
        BY <4>1, <4>2 DEF CommentsTwice
    <3>3. posted[u][e] = 0
      BY <1>1, <1>6, <2>1, <3>1, <3>2
    <3>4. posted'[u][e] <= 1
      BY <1>5, <1>6, <2>4, <3>1, <3>3, SeenAgainCounts
    <3>5. nextAction \in DOMAIN ActionsOf[e] /\ ActionsOf[e][nextAction] = "comment"
      BY <1>2, <1>3, <2>4, <3>1
    <3>6. nextAction < nextAction + 1
      BY <1>2
    <3> QED
      BY <2>4, <3>4, <3>5, <3>6
  <2> QED
    BY <2>2, <2>3, <2>4
<1>12. CompletedIsSeen'
  BY DEF CompletedIsSeen, Completed
<1> QED
  BY <1>7, <1>8, <1>9, <1>10, <1>11, <1>12

(***************************************************************************)
(* UnknownAction: the pair is left as it is, with a poisoned decision.     *)
(***************************************************************************)
LEMMA UnknownActionInv ==
  ASSUME Inv, UnknownAction
  PROVE  Inv'
<1> USE DEF Inv, UnknownAction, lifecycleVars, memoryVars, githubVars, historyVars
<1>1. PICK t \in Tasks, d \in Decisions :
          /\ current = <<t, d>>
          /\ Task = t /\ Decision = d /\ Issue = IssueOf[t] /\ Actions = ActionsOf[d]
          /\ status[t] = "completed" /\ result[t] = d
  BY CurrentPair DEF CycleIsCurrent
<1>2. current # None
  BY DEF CycleIsCurrent
<1>3. Poisoned(d)
  BY <1>1, ActionLists DEF Poisoned, TypeOK, ProgressIsReal
<1>4. TypeOK'
  BY <1>1 DEF TypeOK, LifecycleTypeOK, NextPair
<1>5. CycleIsCurrent' /\ ProgressIsReal'
  BY <1>2, NextPairKeeps
<1>6. AuditTrail' /\ DoneMeansCarriedOut' /\ SummaryIsTrue' /\ ResultMeansDecided'
  BY DEF AuditTrail, DoneMeansCarriedOut, SummaryIsTrue, CarriedOut, Recorded,
         ResultMeansDecided
<1>7. CommentsArePostedOnce'
  BY <1>1, <1>3 DEF CommentsArePostedOnce
<1>8. CompletedIsSeen'
  BY DEF CompletedIsSeen, Completed, CycleIsCurrent, NextPair, Task
<1> QED
  BY <1>4, <1>5, <1>6, <1>7, <1>8

(***************************************************************************)
(* upsert_summary: execute has returned, so what it reports was done.      *)
(***************************************************************************)
LEMMA UpsertSummaryInv ==
  ASSUME Inv, UpsertSummary
  PROVE  Inv'
<1> USE DEF Inv, UpsertSummary, lifecycleVars, githubVars, historyVars
<1>1. PICK t \in Tasks, d \in Decisions :
          /\ current = <<t, d>>
          /\ Task = t /\ Decision = d /\ Issue = IssueOf[t] /\ Actions = ActionsOf[d]
          /\ status[t] = "completed" /\ result[t] = d
  BY CurrentPair DEF CycleIsCurrent
<1>2. CarriedOut(<<t, d>>) /\ IssueOf[t] \in Issues
  BY <1>1, AllActionsDone, IssueOfType DEF CycleIsCurrent
<1>3. \/ summary' = [summary EXCEPT ![IssueOf[t]] = d]
      \/ summary' = summary
  BY <1>1
<1>4. TypeOK'
  <2>1. faults' \in 0..MaxFaults
    BY BoundsAreNat DEF TypeOK, Fault
  <2>2. summary' \in [Issues -> Decisions \cup {None}]
    BY <1>2, <1>3 DEF TypeOK
  <2> QED
    BY <2>1, <2>2 DEF TypeOK, LifecycleTypeOK
<1>5. CycleIsCurrent'
  BY DEF CycleIsCurrent, DrainCompleted, Task, Decision, Completed
<1>6. ProgressIsReal'
  BY DEF ProgressIsReal, Recorded, Task, Decision, Issue, Actions
<1>7. AuditTrail' /\ DoneMeansCarriedOut' /\ ResultMeansDecided'
  BY DEF AuditTrail, DoneMeansCarriedOut, CarriedOut, ResultMeansDecided, Recorded
<1>8. SummaryIsTrue'
  <2> SUFFICES ASSUME NEW i \in Issues, summary'[i] # None
               PROVE  \E u \in Tasks : IssueOf[u] = i /\ CarriedOut(<<u, summary'[i]>>)
    BY DEF SummaryIsTrue, CarriedOut
  <2>1. CASE i = IssueOf[t]
    BY <1>2, <1>3, <2>1 DEF SummaryIsTrue, TypeOK
  <2>2. CASE i # IssueOf[t]
    BY <1>3, <2>2 DEF SummaryIsTrue, TypeOK
  <2> QED
    BY <2>1, <2>2
<1>9. CommentsArePostedOnce'
  BY DEF CommentsArePostedOnce
<1>10. CompletedIsSeen'
  BY DEF CompletedIsSeen, Completed
<1> QED
  BY <1>4, <1>5, <1>6, <1>7, <1>8, <1>9, <1>10

(***************************************************************************)
(* mark_done: the row that becomes done was logged and carried out.        *)
(***************************************************************************)
LEMMA MarkDoneInv ==
  ASSUME Inv, MarkDone
  PROVE  Inv'
<1> USE DEF Inv, MarkDone, memoryVars, githubVars, historyVars
<1>1. PICK t \in Tasks, d \in Decisions :
          /\ current = <<t, d>>
          /\ Task = t /\ Decision = d /\ Issue = IssueOf[t] /\ Actions = ActionsOf[d]
          /\ status[t] = "completed" /\ result[t] = d
  BY CurrentPair DEF CycleIsCurrent
<1>2. current # None
  BY DEF CycleIsCurrent
<1>3. /\ status' = [status EXCEPT ![t] = "done"] /\ result' = result
      /\ UNCHANGED <<agentUrl, retryCount, attempts>>
  BY <1>1 DEF Close
<1>4. CarriedOut(<<t, d>>) /\ ~Poisoned(d) /\ Recorded(<<IssueOf[t], d>>)
  BY <1>1, <1>2, AllActionsDone DEF ProgressIsReal
<1>5. TypeOK'
  BY <1>3 DEF TypeOK, LifecycleTypeOK, Statuses, NextPair
<1>6. CycleIsCurrent' /\ ProgressIsReal'
  BY <1>1, <1>2, <1>3, NextPairKeeps DEF TypeOK, LifecycleTypeOK
<1>7. ResultMeansDecided'
  BY <1>1, <1>3 DEF ResultMeansDecided, TypeOK, LifecycleTypeOK
<1>8. AuditTrail' /\ SummaryIsTrue'
  BY DEF AuditTrail, SummaryIsTrue, CarriedOut, Recorded
<1>9. DoneMeansCarriedOut'
  <2> SUFFICES ASSUME NEW u \in Tasks, status'[u] = "done"
               PROVE  /\ Recorded(<<IssueOf[u], result[u]>>)
                      /\ CarriedOut(<<u, result[u]>>)
                      /\ ~Poisoned(result[u])
    BY <1>3 DEF DoneMeansCarriedOut, CarriedOut, Poisoned, Recorded
  <2>1. CASE u = t
    BY <1>1, <1>4, <2>1
  <2>2. CASE u # t
    BY <1>3, <2>2 DEF DoneMeansCarriedOut, TypeOK, LifecycleTypeOK, Recorded
  <2> QED
    BY <2>1, <2>2
<1>10. CommentsArePostedOnce'
  BY <1>1, <1>3 DEF CommentsArePostedOnce, TypeOK, LifecycleTypeOK
<1>11. CompletedIsSeen'
  BY <1>1, <1>3 DEF CompletedIsSeen, Completed, CycleIsCurrent, NextPair, TypeOK,
                    LifecycleTypeOK
<1> QED
  BY <1>5, <1>6, <1>7, <1>8, <1>9, <1>10, <1>11

(***************************************************************************)
(* PairFails: whatever the failing call did to GitHub, it did for the task *)
(* that is disturbed now, and after the record was committed.              *)
(***************************************************************************)
LEMMA PairFailsInv ==
  ASSUME Inv, PairFails
  PROVE  Inv'
<1> USE DEF Inv
<1>1. current # None /\ NextPair
  BY DEF PairFails, CycleIsCurrent
<1>2. PICK t \in Tasks, d \in Decisions :
          /\ current = <<t, d>>
          /\ Task = t /\ Decision = d /\ Issue = IssueOf[t] /\ Actions = ActionsOf[d]
          /\ status[t] = "completed" /\ result[t] = d
  BY <1>1, CurrentPair
<1>3. /\ UNCHANGED <<lifecycleVars, memoryVars, crashes, answers>>
      /\ disturbed' = disturbed \cup {t} /\ faults' \in 0..MaxFaults
      /\ stalled' = stalled \cup {t}
  BY <1>2, BoundsAreNat DEF PairFails, Fault, TypeOK
<1>4. UNCHANGED githubVars \/ (GithubMoves /\ Recorded(<<Issue, Decision>>))
  <2>1. ASSUME pc = "acting", nextAction <= Len(Actions), Effect(Actions[nextAction])
        PROVE  GithubMoves
    <3>1. nextAction \in DOMAIN ActionsOf[d]
      BY <1>2, <2>1, ActionLists DEF TypeOK, ProgressIsReal
    <3>2. PICK a \in ActionTypes : Effect(a)
      BY <1>2, <2>1, <3>1, ActionLists
    <3> QED
      BY <1>1, <3>2, EffectMoves
  <2> QED
    BY <2>1 DEF PairFails, ProgressIsReal
<1>5. /\ labelled' \subseteq Pairs /\ closed' \subseteq Issues
      /\ posted' \in [Tasks -> [Decisions -> 0..MaxSeen]]
      /\ \A u \in Tasks, e \in Decisions : u # t => posted'[u][e] = posted[u][e]
  BY <1>2, <1>4 DEF TypeOK, GithubMoves, githubVars
<1>6. TypeOK'
  <2>1. /\ pc' \in {"waiting", "picking"} /\ current' = None /\ nextAction' = 1
        /\ UNCHANGED <<drainEvent, batch>>
    BY <1>1 DEF NextPair
  <2> QED
    BY <1>3, <1>5, <2>1 DEF TypeOK, LifecycleTypeOK, lifecycleVars, memoryVars
<1>7. CycleIsCurrent' /\ ProgressIsReal'
  BY <1>1, <1>3, NextPairKeeps DEF lifecycleVars
<1>8. AuditTrail' /\ DoneMeansCarriedOut' /\ SummaryIsTrue' /\ ResultMeansDecided'
  <2>1. CASE UNCHANGED githubVars
    BY <1>3, <2>1 DEF AuditTrail, DoneMeansCarriedOut, SummaryIsTrue, CarriedOut,
                      ResultMeansDecided, lifecycleVars, memoryVars, githubVars, Recorded
  <2>2. CASE GithubMoves /\ Recorded(<<Issue, Decision>>)
    BY <1>1, <1>3, <2>2, GithubMovesKeep
  <2> QED
    BY <1>4, <2>1, <2>2
<1>9. CommentsArePostedOnce'
  <2> SUFFICES ASSUME NEW u \in Tasks, NEW e \in Decisions,
                      u \notin disturbed', ~Poisoned(e), ~CommentsTwice(e)
               PROVE  posted'[u][e] <= 1 /\ (posted'[u][e] > 0 => status'[u] = "done")
    BY DEF CommentsArePostedOnce, Poisoned, CommentsTwice
  <2>1. u \notin disturbed /\ u # t /\ posted'[u][e] = posted[u][e]
    BY <1>3, <1>5
  <2> QED
    BY <1>2, <1>3, <2>1 DEF CommentsArePostedOnce, lifecycleVars
<1>10. CompletedIsSeen'
  BY <1>1, <1>2, <1>3 DEF CompletedIsSeen, Completed, NextPair, PairFails, lifecycleVars
<1> QED
  BY <1>6, <1>7, <1>8, <1>9, <1>10

(***************************************************************************)
(* Crash: the task of the current pair, if there is one, is disturbed.     *)
(***************************************************************************)
LEMMA CrashInv ==
  ASSUME Inv, Crash
  PROVE  Inv'
<1> USE DEF Inv, Crash, lifecycleVars, memoryVars, githubVars
<1>1. disturbed' \subseteq Tasks /\ disturbed \subseteq disturbed'
  BY CurrentPair DEF TypeOK
<1>2. crashes' \in 0..MaxCrashes
  BY BoundsAreNat DEF TypeOK
<1>3. TypeOK'
  BY <1>1, <1>2 DEF TypeOK, LifecycleTypeOK, Completed
<1>4. ResultMeansDecided'
  BY DEF ResultMeansDecided
<1>5. CycleIsCurrent' /\ ProgressIsReal'
  BY DEF CycleIsCurrent, ProgressIsReal
<1>6. AuditTrail' /\ DoneMeansCarriedOut' /\ SummaryIsTrue'
  BY DEF AuditTrail, DoneMeansCarriedOut, SummaryIsTrue, CarriedOut, Recorded
<1>7. CommentsArePostedOnce'
  <2> SUFFICES ASSUME NEW u \in Tasks, NEW e \in Decisions,
                      u \notin disturbed', ~Poisoned(e), ~CommentsTwice(e)
               PROVE  posted[u][e] <= 1 /\ (posted[u][e] > 0 => status[u] = "done")
    BY DEF CommentsArePostedOnce, Poisoned, CommentsTwice
  <2>1. u \notin disturbed
    BY <1>1
  <2>2. current # <<u, e>>
    <3> SUFFICES ASSUME current = <<u, e>> PROVE FALSE
      OBVIOUS
    <3>1. current # None /\ Task = u
      BY NoneIsNoPair DEF Task
    <3> QED
      BY <3>1
  <2> QED
    BY <2>1, <2>2 DEF CommentsArePostedOnce
<1>8. CompletedIsSeen'
  BY DEF CompletedIsSeen, Completed
<1> QED
  BY <1>3, <1>4, <1>5, <1>6, <1>7, <1>8

-----------------------------------------------------------------------------
(***************************************************************************)
(* Every step preserves the inductive invariant.                           *)
(***************************************************************************)
LEMMA NextInv ==
  ASSUME Inv, [Next]_vars
  PROVE  Inv'
<1>1. CASE UNCHANGED vars
  <2> USE <1>1 DEF vars, lifecycleVars, loopVars, memoryVars, githubVars, historyVars, Inv
  <2>1. TypeOK' /\ ResultMeansDecided'
    BY DEF TypeOK, LifecycleTypeOK, ResultMeansDecided
  <2>2. CycleIsCurrent' /\ ProgressIsReal'
    BY DEF CycleIsCurrent, DrainCompleted, Completed, ProgressIsReal, Recorded, Task,
           Decision, Issue, Actions
  <2>3. AuditTrail' /\ DoneMeansCarriedOut' /\ SummaryIsTrue'
    BY DEF AuditTrail, DoneMeansCarriedOut, SummaryIsTrue, CarriedOut, Recorded
  <2>4. CommentsArePostedOnce' /\ CompletedIsSeen'
    BY DEF CommentsArePostedOnce, CompletedIsSeen, Completed
  <2> QED
    BY <2>1, <2>2, <2>3, <2>4
<1>2. CASE ExecuteStep
  BY <1>2, ReadInv, PickInv, LogActionInv, ActInv, UnknownActionInv,
     UpsertSummaryInv, MarkDoneInv
     DEF ExecuteStep
<1> QED
  BY <1>1, <1>2, SubmitTaskInv, HandOutTaskInv, QueueCompleteInv, HarnessResultInv,
     RequeueStaleInv, FailExhaustedInv, SweepFailsInv, WakeInv, DrainFailsInv,
     PairFailsInv, CrashInv, RestartInv
     DEF Next

(***************************************************************************)
(* The inductive invariant holds in every reachable state.                 *)
(***************************************************************************)
THEOREM Invariance == Spec => []Inv
<1>1. Init => Inv
  BY InitInv
<1>2. Inv /\ [Next]_vars => Inv'
  BY NextInv
<1> QED
  BY <1>1, <1>2, PTL DEF Spec

(***************************************************************************)
(* Every variable keeps its type.                                          *)
(***************************************************************************)
THEOREM TypeCorrect == Spec => []TypeOK
<1>1. Inv => TypeOK
  BY DEF Inv
<1> QED
  BY <1>1, Invariance, PTL

(***************************************************************************)
(* A done task's decision has been logged and carried out on GitHub.       *)
(***************************************************************************)
THEOREM DoneIsCarriedOut == Spec => []DoneMeansCarriedOut
<1>1. Inv => DoneMeansCarriedOut
  BY DEF Inv
<1> QED
  BY <1>1, Invariance, PTL

(***************************************************************************)
(* Nothing reaches GitHub without a record in action_log.                  *)
(***************************************************************************)
THEOREM EverythingIsLogged == Spec => []AuditTrail
<1>1. Inv => AuditTrail
  BY DEF Inv
<1> QED
  BY <1>1, Invariance, PTL

(***************************************************************************)
(* The memory of an issue reports what was really done for it.             *)
(***************************************************************************)
THEOREM SummariesAreTrue == Spec => []SummaryIsTrue
<1>1. Inv => SummaryIsTrue
  BY DEF Inv
<1> QED
  BY <1>1, Invariance, PTL

(***************************************************************************)
(* A comment posted twice is explained by trouble of that very task, or by *)
(* its own decision.                                                       *)
(***************************************************************************)
THEOREM RepeatsHaveReasons == Spec => []RepeatsAreExplained
<1>1. Inv => RepeatsAreExplained
  BY BoundsAreNat DEF Inv, TypeOK, CommentsArePostedOnce, RepeatsAreExplained
<1> QED
  BY <1>1, Invariance, PTL

(***************************************************************************)
(* The loop never sleeps on a completion unless a cycle in trouble left it *)
(* behind.                                                                 *)
(***************************************************************************)
THEOREM TroubleAloneWaits == Spec => []OnlyTroubleWaits
<1>1. ASSUME Inv, pc = "waiting", ~drainEvent, NEW t \in Completed
      PROVE  t \in stalled
  <2>1. batch = {} /\ current = None
    BY <1>1 DEF Inv, CycleIsCurrent
  <2>2. <<t, result[t]>> # None
    BY <1>1, CompletedPairs
  <2> QED
    BY <1>1, <2>1, <2>2 DEF Inv, CompletedIsSeen
<1>2. Inv => OnlyTroubleWaits
  BY <1>1 DEF OnlyTroubleWaits
<1> QED
  BY <1>2, Invariance, PTL

=============================================================================
