------------------------------- MODULE Triage -------------------------------
(***************************************************************************)
(* What the bot decides, and on which knowledge: Dispatcher.dispatch       *)
(* (night_brownie/server.py) puts the agent's configuration and a snapshot *)
(* of the issue's memory summary into the task; run_triage (prompts/       *)
(* triage.py of the issue-triage agent) looks in that snapshot for signs   *)
(* of a recent comment, asks the LLM if there are none, and filters the    *)
(* answer by allow_close; the drain loop executes the decision and writes  *)
(* the summary the next task is given.  Routing says which assignment of   *)
(* the repository handles the event; the queue is TaskLifecycle.           *)
(*                                                                         *)
(* Of a decision three things matter: whether it comments, whether it      *)
(* closes, and whether its rationale, free text of the LLM, has one of the *)
(* guard's keywords, for the rationale is what the summary is made of.     *)
(* The issues are those of outsiders, one in each repository; any of them  *)
(* may be fetched at any time, be it for the bot's own comment.            *)
(***************************************************************************)
EXTENDS TaskLifecycle, Routing

CONSTANTS
    Configs,       \* configurations to choose from
    Replies,       \* what the LLM may answer
    MaxFaults      \* bound on failing steps and crashes of the harness

ASSUME ConfigsHaveSameRepos == \A c, d \in Configs : DOMAIN c = DOMAIN d
ASSUME ConfigsAreLists ==
    \A c \in Configs : /\ DOMAIN c \subseteq Nat
                       /\ \A r \in DOMAIN c : DOMAIN c[r] \subseteq Nat
ASSUME AssignmentsHaveTypes ==
    \A c \in Configs : \A p \in Places(c) :
        /\ Assignment(c, p).port \in Agents \cup {Nothing}
        /\ Assignment(c, p).url \in Agents \cup {Nothing}
        /\ Assignment(c, p).allow_close \in BOOLEAN
ASSUME DecisionsType ==
    Decisions = [comment : BOOLEAN, close : BOOLEAN, keyword : BOOLEAN]
ASSUME RepliesType ==
    Replies \subseteq [kind : {"garbage", "malformed", "unknown", "decision"},
                      comment : BOOLEAN, close : BOOLEAN, keyword : BOOLEAN]
ASSUME NothingIsNoValue == Nothing \notin Nat \cup Agents
ASSUME MaxFaultsIsNat == MaxFaults \in Nat

VARIABLES
    config,        \* the configuration the harness was started with
    registry,      \* Router._url_registry
    place,         \* [task -> the assignment it was routed by, or None]
    told,          \* [task -> memory_summary in its payload, or None]
    summary,       \* [issue -> the decision memory_summary tells of, or None]
    pc,            \* the event loop: "free", between two steps of a drain
                   \* or of a sweep, or "down"
    current,       \* the task being drained, or None
    answers,       \* [task -> runs of run_triage that have ended]
    unaware,       \* [issue -> tasks dispatched before its summary last got a keyword]
    faults

triageVars == <<place, told, answers>>
loopVars == <<pc, current>>
vars == <<lifecycleVars, config, registry, triageVars, summary, loopVars,
          unaware, faults>>

AllPlaces == UNION {Places(c) : c \in Configs}
Issues == UNION {DOMAIN c : c \in Configs}

ASSUME NoneIsNoPlace == None \notin Tasks \cup AllPlaces

TypeOK ==
    /\ LifecycleTypeOK
    /\ config \in Configs
    /\ registry \in {<<>>, StartedUrls(config)}
    /\ place \in [Tasks -> AllPlaces \cup {None}]
    /\ told \in [Tasks -> Decisions \cup {None}]
    /\ summary \in [Issues -> Decisions \cup {None}]
    /\ pc \in {"free", "posted", "recorded", "sweeping", "down"}
    /\ current \in Tasks \cup {None}
    /\ answers \in [Tasks -> Nat]
    /\ unaware \in [Issues -> SUBSET Tasks]
    /\ faults \in 0..MaxFaults

Init ==
    /\ LifecycleInit
    /\ config \in Configs
    /\ registry = <<>>
    /\ place = [t \in Tasks |-> None]
    /\ told = [t \in Tasks |-> None]
    /\ summary = [i \in Issues |-> None]
    /\ pc = "free" /\ current = None
    /\ answers = [t \in Tasks |-> 0]
    /\ unaware = [i \in Issues |-> {}]
    /\ faults = 0

-----------------------------------------------------------------------------
(* The harness, up to the queue.                                           *)

(***************************************************************************)
(* The containers are up: _run_loop registers all their URLs at once.      *)
(***************************************************************************)
RegisterUrls ==
    /\ pc = "free"
    /\ registry' = StartedUrls(config)
    /\ UNCHANGED <<lifecycleVars, config, triageVars, summary, loopVars,
                   unaware, faults>>

\* A faulty MemoryOf: the summary of the first issue for all.
MemoryOfFirst(i) == summary[1]

(***************************************************************************)
(* get_memory_summary: what is known when the task is dispatched.          *)
(***************************************************************************)
MemoryOf(i) == summary[i]

(***************************************************************************)
(* An update of the issue has been fetched; its task is enqueued, unless   *)
(* nobody handles it.                                                      *)
(***************************************************************************)
Dispatch(t, i) ==
    LET k == Route(config, i, registry) IN
    /\ pc = "free"
    /\ k # Nothing
    /\ Submit(t, UrlOf(config[i][k], registry))
    /\ place' = [place EXCEPT ![t] = <<i, k>>]
    /\ told' = [told EXCEPT ![t] = MemoryOf(i)]
    /\ UNCHANGED <<config, registry, answers, summary, loopVars, unaware, faults>>

HandOutTask(t, u) ==
    /\ pc = "free"
    /\ HandOut(t, u)
    /\ UNCHANGED <<config, registry, triageVars, summary, loopVars, unaware,
                   faults>>

RequeueStale ==
    /\ pc = "free"
    /\ pc' = "sweeping"
    /\ \E S \in SUBSET Claimed : Expire(S)
    /\ UNCHANGED <<config, registry, triageVars, summary, current, unaware,
                   faults>>

FailExhausted ==
    /\ pc = "sweeping"
    /\ pc' = "free"
    /\ GiveUp
    /\ UNCHANGED <<config, registry, triageVars, summary, current, unaware,
                   faults>>

(***************************************************************************)
(* A step of the harness fails: a call raises, a write is undone, or the   *)
(* process dies.                                                           *)
(***************************************************************************)
Fault == faults < MaxFaults /\ faults' = faults + 1

(***************************************************************************)
(* fail_exhausted raises after requeue_stale: exhausted tasks can be       *)
(* claimed until the next round.                                           *)
(***************************************************************************)
SweepFails ==
    /\ pc = "sweeping"
    /\ pc' = "free"
    /\ Fault
    /\ UNCHANGED <<lifecycleVars, config, registry, triageVars, summary, current,
                   unaware>>

-----------------------------------------------------------------------------
(* The agent.                                                              *)

(***************************************************************************)
(* _recent_comment_in_memory: a keyword, whoever wrote it and whenever.    *)
(***************************************************************************)
GuardFires(summaryText) == summaryText # None /\ summaryText.keyword

(***************************************************************************)
(* The guard's own rationale, "A comment was posted recently ...", has two *)
(* of the keywords.                                                        *)
(***************************************************************************)
GuardSkip == [comment |-> FALSE, close |-> FALSE, keyword |-> TRUE]

\* A faulty AllowClose: the agent's configuration is merged in last.
AllowCloseMerged(a) == IF a.shadow = Nothing THEN a.allow_close ELSE a.shadow

(***************************************************************************)
(* payload["allow_close"]: dispatch sets it after it has merged the        *)
(* agent's configuration in.                                               *)
(***************************************************************************)
AllowClose(a) == a.allow_close

(***************************************************************************)
(* parse_llm_response: no JSON object, or text after it, is a skip; so is  *)
(* an unknown decision, which the rationale quotes.                        *)
(***************************************************************************)
Parsed(reply, allowClose) ==
    CASE reply.kind = "garbage" -> [comment |-> FALSE, close |-> FALSE, keyword |-> FALSE]
      [] reply.kind = "unknown" -> [comment |-> FALSE, close |-> FALSE, keyword |-> reply.keyword]
      [] reply.kind = "decision" -> [comment |-> reply.comment,
                                     close |-> reply.close /\ allowClose,
                                     keyword |-> reply.keyword]

IssueOf(t) == place[t][1]

(***************************************************************************)
(* run_triage on a task that was handed out, however long ago, and the     *)
(* completion of the task with its decision.                               *)
(***************************************************************************)
RunTriage(t) ==
    /\ pc = "free"
    /\ answers[t] < attempts[t]
    /\ answers' = [answers EXCEPT ![t] = @ + 1]
    /\ IF GuardFires(told[t])
       THEN Decide(t, GuardSkip)
       ELSE \E reply \in Replies :
               /\ reply.kind # "malformed"
               /\ Decide(t, Parsed(reply, AllowClose(Assignment(config, place[t]))))
    /\ UNCHANGED <<config, registry, place, told, summary, loopVars,
                   unaware, faults>>

(***************************************************************************)
(* The LLM call fails, or its answer is JSON of the wrong shape (actions   *)
(* null or without a type, a rationale that is no string): run_triage      *)
(* raises, and the task is not completed.                                  *)
(***************************************************************************)
TriageRaises(t) ==
    /\ pc = "free"
    /\ answers[t] < attempts[t]
    /\ ~GuardFires(told[t])
    /\ \E reply \in Replies : reply.kind = "malformed"
    /\ answers' = [answers EXCEPT ![t] = @ + 1]
    /\ UNCHANGED <<lifecycleVars, config, registry, place, told, summary,
                   loopVars, unaware, faults>>

-----------------------------------------------------------------------------
(* The drain loop.  DrainLoop has it in full.                              *)

Execute(t) ==
    /\ pc = "free"
    /\ status[t] = "completed"
    /\ pc' = "posted"
    /\ current' = t
    /\ UNCHANGED <<lifecycleVars, config, registry, triageVars, summary, unaware, faults>>

HasKeyword(i) == GuardFires(summary[i])

DispatchedFor(i) == {t \in Tasks : place[t] # None /\ IssueOf(t) = i}

(***************************************************************************)
(* The summary is replaced by the decision just executed, whatever the     *)
(* decision was and whenever its task was dispatched; or the write is      *)
(* undone by the fault of a polling thread (see SharedConnection), and the *)
(* old summary stays.                                                      *)
(***************************************************************************)
UpsertSummary ==
    LET i == IssueOf(current) IN
    /\ pc = "posted"
    /\ pc' = "recorded"
    /\ \/ /\ summary' = [summary EXCEPT ![i] = result[current]]
          /\ unaware' = IF ~HasKeyword(i) /\ result[current].keyword
                        THEN [unaware EXCEPT ![i] = DispatchedFor(i)]
                        ELSE unaware
          /\ UNCHANGED faults
       \/ Fault /\ UNCHANGED <<summary, unaware>>
    /\ UNCHANGED <<lifecycleVars, config, registry, triageVars, current>>

MarkDone ==
    /\ pc = "recorded"
    /\ Close(current)
    /\ pc' = "free" /\ current' = None
    /\ UNCHANGED <<config, registry, triageVars, summary, unaware, faults>>

(***************************************************************************)
(* A call of the pair raises: the task stays completed.                    *)
(***************************************************************************)
PairFails ==
    /\ pc \in {"posted", "recorded"}
    /\ Fault
    /\ pc' = "free" /\ current' = None
    /\ UNCHANGED <<lifecycleVars, config, registry, triageVars, summary, unaware>>

Crash ==
    /\ pc # "down"
    /\ Fault
    /\ pc' = "down" /\ current' = None
    /\ registry' = <<>>
    /\ UNCHANGED <<lifecycleVars, config, triageVars, summary, unaware>>

Restart ==
    /\ pc = "down"
    /\ pc' = "free"
    /\ UNCHANGED <<lifecycleVars, config, registry, triageVars, summary, current,
                   unaware, faults>>

Next ==
    \/ RegisterUrls
    \/ \E t \in Tasks, i \in Issues : Dispatch(t, i)
    \/ \E t \in Tasks, u \in Agents : HandOutTask(t, u)
    \/ \E t \in Tasks : RunTriage(t) \/ TriageRaises(t) \/ Execute(t)
    \/ RequeueStale \/ FailExhausted \/ SweepFails
    \/ UpsertSummary \/ MarkDone \/ PairFails
    \/ Crash \/ Restart

Spec == Init /\ [][Next]_vars

-----------------------------------------------------------------------------
(***************************************************************************)
(* The step comments on the issue.                                         *)
(***************************************************************************)
Comments(i) == /\ current = None
               /\ current' # None
               /\ IssueOf(current') = i
               /\ result[current'].comment

(***************************************************************************)
(* The duplicate-comment guard, from end to end: once the summary of an    *)
(* issue has a keyword, the bot neither comments on the issue nor lets the *)
(* keyword go, except for tasks that were dispatched before the keyword    *)
(* was there, however late they are triaged and executed.  (So it stays    *)
(* silent for good, not for 24 hours, once those are through.)             *)
(***************************************************************************)
GuardHolds ==
    [][\A i \in Issues :
          HasKeyword(i) /\ (Comments(i) \/ ~HasKeyword(i)') => current' \in unaware[i]]_vars

(***************************************************************************)
(* Agents and their containers serve several repositories.  A decision     *)
(* closes an issue only if the assignment of that very repository has      *)
(* allow_close, whatever else is configured for the agent.                 *)
(***************************************************************************)
CloseIsPermitted ==
    \A t \in Tasks :
        result[t] # None /\ result[t].close =>
            config[IssueOf(t)][place[t][2]].allow_close

(***************************************************************************)
(* After startup no event is without an agent if any assignment of its     *)
(* repository that handles it has a URL, or is of a type that some         *)
(* repository has an image for.                                            *)
(***************************************************************************)
ConfiguredAgentsAreReachable ==
    registry = StartedUrls(config) =>
        \A p \in Places(config) :
            /\ HandlesEvent(Assignment(config, p))
            /\ \/ Assignment(config, p).url # Nothing
               \/ \E q \in Places(config) :
                     /\ Assignment(config, q).type = Assignment(config, p).type
                     /\ Assignment(config, q).port # Nothing
            => Route(config, p[1], registry) # Nothing

=============================================================================
