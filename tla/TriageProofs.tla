---------------------------- MODULE TriageProofs ----------------------------
(***************************************************************************)
(* What Triage and Routing guarantee for every configuration, every answer *)
(* of the LLM, every number of tasks and every max_retries.                *)
(***************************************************************************)
EXTENDS Triage, WellFoundedInduction, TLAPS

(***************************************************************************)
(* A task has a place from its dispatch on; it is one of the configuration *)
(* the harness runs with.  What was handed out or decided was dispatched.  *)
(***************************************************************************)
TasksHavePlaces ==
    \A t \in Tasks :
        /\ status[t] # "absent" <=> place[t] # None
        /\ place[t] # None => place[t] \in Places(config)
        /\ attempts[t] > 0 => status[t] # "absent"
        /\ result[t] # None => status[t] # "absent"
        /\ status[t] = "completed" => result[t] # None

(***************************************************************************)
(* The event loop works on a completed task, which nobody else gets at.    *)
(***************************************************************************)
CurrentIsCompleted ==
    /\ current # None <=> pc \in {"posted", "recorded"}
    /\ current # None => status[current] = "completed"

(***************************************************************************)
(* A task that was told of a comment is answered by the guard; and one     *)
(* that is dispatched while the summary has a keyword is told of it.       *)
(***************************************************************************)
GuardAnswers ==
    \A t \in Tasks : GuardFires(told[t]) /\ result[t] # None => result[t] = GuardSkip

OthersAreTold ==
    \A i \in Issues : HasKeyword(i) =>
        \A t \in DispatchedFor(i) \ unaware[i] : GuardFires(told[t])

Inv ==
    /\ TypeOK
    /\ TasksHavePlaces
    /\ CurrentIsCompleted
    /\ GuardAnswers
    /\ OthersAreTold
    /\ CloseIsPermitted

-----------------------------------------------------------------------------
(* Routing.                                                                *)

(***************************************************************************)
(* Every set of numbers has a least one, and every set of places a first.  *)
(***************************************************************************)
LEMMA LeastExists ==
  ASSUME NEW S, S \subseteq Nat, S # {}
  PROVE  \E k \in S : \A j \in S : k <= j
<1>1. PICK k \in S : \A j \in S : ~(<<j, k>> \in OpToRel(<, Nat))
  BY NatLessThanWellFounded, WFMin
<1>2. \A j \in S : <<j, k>> \in OpToRel(<, Nat) <=> j < k
  BY DEF OpToRel
<1>3. \A j \in S : ~(j < k)
  BY <1>1, <1>2
<1> QED
  BY <1>3

LEMMA FirstExists ==
  ASSUME NEW S, S \subseteq Nat \X Nat, S # {}
  PROVE  \E p \in S : \A q \in S : ~Before(q, p)
<1> DEFINE R == LexPairOrdering(OpToRel(<, Nat), OpToRel(<, Nat), Nat, Nat)
<1>1. IsWellFoundedOn(R, Nat \X Nat)
  BY NatLessThanWellFounded, WFLexPairOrdering
<1>2. PICK p \in S : \A q \in S : ~(<<q, p>> \in R)
  BY <1>1, WFMin
<1>3. ASSUME NEW q \in S, Before(q, p) PROVE <<q, p>> \in R
  BY <1>3 DEF LexPairOrdering, OpToRel, Before
<1> QED
  BY <1>2, <1>3

(***************************************************************************)
(* The places of a configuration, by their two numbers.                    *)
(***************************************************************************)
LEMMA PlacesAreNumbers ==
  ASSUME NEW c \in Configs
  PROVE  /\ Places(c) \subseteq Nat \X Nat
         /\ \A p \in Places(c) : p[1] \in DOMAIN c /\ p[2] \in DOMAIN c[p[1]]
         /\ \A r \in DOMAIN c : \A k \in DOMAIN c[r] :
               /\ <<r, k>> \in Places(c)
               /\ Assignment(c, <<r, k>>) = c[r][k]
  BY ConfigsAreLists DEF Places, Assignment

(***************************************************************************)
(* route() returns the first assignment that handles the event and has a   *)
(* URL, and nothing only if there is none.                                 *)
(***************************************************************************)
LEMMA RouteIsFirst ==
  ASSUME NEW c \in Configs, NEW r \in DOMAIN c, NEW reg
  PROVE  /\ Candidates(c, r, reg) = {} => Route(c, r, reg) = Nothing
         /\ Candidates(c, r, reg) # {} =>
               /\ Route(c, r, reg) \in Candidates(c, r, reg)
               /\ Route(c, r, reg) # Nothing
               /\ \A j \in Candidates(c, r, reg) : Route(c, r, reg) <= j
<1>1. Candidates(c, r, reg) \subseteq Nat
  BY ConfigsAreLists DEF Candidates
<1>2. ASSUME Candidates(c, r, reg) # {}
      PROVE  \E k \in Candidates(c, r, reg) : \A j \in Candidates(c, r, reg) : k <= j
  BY <1>1, <1>2, LeastExists
<1> QED
  BY <1>1, <1>2, NothingIsNoValue DEF Route

(***************************************************************************)
(* A type has a container exactly if some assignment of it has an image    *)
(* and a port; the container's port is that of one of them.                *)
(***************************************************************************)
LEMMA ContainersForTypes ==
  ASSUME NEW c \in Configs
  PROVE  /\ \A q \in Places(c) : Assignment(c, q).port # Nothing =>
                Assignment(c, q).type \in DOMAIN StartedUrls(c)
         /\ \A type \in DOMAIN StartedUrls(c) : StartedUrls(c)[type] \in Agents
<1>1. ASSUME NEW q \in Places(c), Assignment(c, q).port # Nothing
      PROVE  Assignment(c, q).type \in DOMAIN StartedUrls(c)
  <2> DEFINE S == {p \in Places(c) : /\ Assignment(c, p).port # Nothing
                                     /\ Assignment(c, p).type = Assignment(c, q).type}
  <2>1. S \subseteq Nat \X Nat /\ S # {}
    BY <1>1, PlacesAreNumbers
  <2>2. PICK p \in S : \A x \in S : ~Before(x, p)
    BY <2>1, FirstExists
  <2>3. p \in AgentSpecs(c)
    BY <2>2 DEF AgentSpecs
  <2> QED
    BY <2>2, <2>3 DEF StartedUrls
<1>2. ASSUME NEW type \in DOMAIN StartedUrls(c)
      PROVE  StartedUrls(c)[type] \in Agents
  <2>1. PICK p \in AgentSpecs(c) : Assignment(c, p).type = type
    BY DEF StartedUrls
  <2> DEFINE spec == CHOOSE x \in AgentSpecs(c) : Assignment(c, x).type = type
  <2>2. spec \in AgentSpecs(c)
    BY <2>1
  <2>3. Assignment(c, spec).port \in Agents
    BY <2>2, AssignmentsHaveTypes DEF AgentSpecs
  <2>4. StartedUrls(c)[type] = Assignment(c, spec).port
    BY DEF StartedUrls
  <2> QED
    BY <2>3, <2>4
<1> QED
  BY <1>1, <1>2

(***************************************************************************)
(* The URL of an assignment is that of an agent, before and after startup. *)
(***************************************************************************)
LEMMA UrlsAreAgents ==
  ASSUME NEW c \in Configs, NEW p \in Places(c), NEW reg \in {<<>>, StartedUrls(c)}
  PROVE  UrlOf(Assignment(c, p), reg) \in Agents \cup {Nothing}
<1>1. CASE reg = <<>>
  <2>1. DOMAIN reg = {}
    BY <1>1
  <2> QED
    BY <2>1, AssignmentsHaveTypes DEF UrlOf
<1>2. CASE reg = StartedUrls(c)
  BY <1>2, AssignmentsHaveTypes, ContainersForTypes DEF UrlOf
<1> QED
  BY <1>1, <1>2

(***************************************************************************)
(* An event finds an agent once the containers are up, if any assignment   *)
(* that handles it has a URL or a type that somebody has an image for.     *)
(***************************************************************************)
LEMMA AgentsAreReachable ==
  ASSUME config \in Configs
  PROVE  ConfiguredAgentsAreReachable
<1> SUFFICES ASSUME registry = StartedUrls(config), NEW p \in Places(config),
                    HandlesEvent(Assignment(config, p)),
                    \/ Assignment(config, p).url # Nothing
                    \/ \E q \in Places(config) :
                          /\ Assignment(config, q).type = Assignment(config, p).type
                          /\ Assignment(config, q).port # Nothing
             PROVE  Route(config, p[1], registry) # Nothing
  BY DEF ConfiguredAgentsAreReachable
<1>1. UrlOf(Assignment(config, p), registry) # Nothing
  <2>1. CASE Assignment(config, p).type \in DOMAIN registry
    BY <2>1, ContainersForTypes, NothingIsNoValue DEF UrlOf
  <2>2. CASE Assignment(config, p).type \notin DOMAIN registry
    BY <2>2, ContainersForTypes DEF UrlOf
  <2> QED
    BY <2>1, <2>2
<1>2. p[1] \in DOMAIN config /\ p[2] \in DOMAIN config[p[1]]
  BY PlacesAreNumbers
<1>3. p[2] \in Candidates(config, p[1], registry)
  BY <1>1, <1>2 DEF Candidates, Assignment
<1> QED
  BY <1>2, <1>3, RouteIsFirst

-----------------------------------------------------------------------------
(* A harness that starts for the first time has dispatched nothing.        *)
LEMMA InitInv == Init => Inv
<1> SUFFICES ASSUME Init PROVE Inv
  OBVIOUS
<1> USE DEF Init, LifecycleInit
<1>1. TypeOK
  <2>1. LifecycleTypeOK
    BY DEF LifecycleTypeOK, Statuses
  <2>2. 0 \in 0..MaxFaults
    BY MaxFaultsIsNat
  <2> QED
    BY <2>1, <2>2 DEF TypeOK
<1>2. TasksHavePlaces /\ CurrentIsCompleted
  BY DEF TasksHavePlaces, CurrentIsCompleted
<1>3. GuardAnswers /\ OthersAreTold
  BY DEF GuardAnswers, OthersAreTold, HasKeyword, GuardFires
<1>4. CloseIsPermitted
  BY DEF CloseIsPermitted
<1> QED
  BY <1>1, <1>2, <1>3, <1>4 DEF Inv

-----------------------------------------------------------------------------
(***************************************************************************)
(* Steps of the queue that neither dispatch nor decide: claims, expiries,  *)
(* failures and mark_done.                                                 *)
(***************************************************************************)
QueueMoves ==
    /\ LifecycleTypeOK'
    /\ result' = result /\ UNCHANGED <<config, place, told, summary, unaware>>
    /\ \A t \in Tasks :
           /\ status'[t] = "absent" <=> status[t] = "absent"
           /\ status'[t] = "completed" => status[t] = "completed"
           /\ attempts'[t] > 0 => attempts[t] > 0 \/ status[t] # "absent"

LEMMA QueueMovesKeep ==
  ASSUME Inv, QueueMoves
  PROVE  /\ TasksHavePlaces' /\ GuardAnswers' /\ OthersAreTold'
         /\ CloseIsPermitted'
<1> USE DEF Inv, QueueMoves
<1>1. TasksHavePlaces'
  BY DEF TasksHavePlaces
<1>2. GuardAnswers'
  BY DEF GuardAnswers
<1>3. OthersAreTold'
  BY DEF OthersAreTold, HasKeyword, DispatchedFor, IssueOf
<1>4. CloseIsPermitted'
  BY DEF CloseIsPermitted, IssueOf
<1> QED
  BY <1>1, <1>2, <1>3, <1>4

(* Such steps, and those that leave the queue alone.                       *)
LEMMA QueueInv ==
  ASSUME Inv,
         \/ \E t \in Tasks, u \in Agents : HandOutTask(t, u)
         \/ RequeueStale \/ FailExhausted \/ SweepFails \/ MarkDone
         \/ RegisterUrls \/ PairFails \/ Crash \/ Restart \/ UNCHANGED vars
         \/ \E t \in Tasks : TriageRaises(t) \/ Execute(t)
  PROVE  Inv'
<1> USE DEF Inv, triageVars, loopVars, lifecycleVars
<1>1. LifecycleTypeOK
  BY DEF TypeOK
<1>2. ASSUME NEW t \in Tasks, NEW u \in Agents, HandOutTask(t, u)
      PROVE  QueueMoves /\ TypeOK' /\ CurrentIsCompleted'
  <2>1. QueueMoves
    BY <1>1, <1>2 DEF HandOutTask, HandOut, QueueMoves, LifecycleTypeOK, Statuses
  <2> QED
    BY <1>2, <2>1 DEF HandOutTask, QueueMoves, TypeOK, CurrentIsCompleted
<1>3. CASE RequeueStale
  <2>1. QueueMoves
    BY <1>1, <1>3 DEF RequeueStale, Expire, Claimed, QueueMoves, LifecycleTypeOK, Statuses
  <2>2. TypeOK' /\ CurrentIsCompleted'
    BY <1>3, <2>1 DEF RequeueStale, QueueMoves, TypeOK, CurrentIsCompleted
  <2> QED
    BY <2>1, <2>2, QueueMovesKeep
<1>4. CASE FailExhausted
  <2>1. QueueMoves
    BY <1>1, <1>4 DEF FailExhausted, GiveUp, IsExhausted, QueueMoves, LifecycleTypeOK, Statuses
  <2>2. TypeOK' /\ CurrentIsCompleted'
    BY <1>4, <2>1 DEF FailExhausted, QueueMoves, TypeOK, CurrentIsCompleted
  <2> QED
    BY <2>1, <2>2, QueueMovesKeep
<1>5. CASE MarkDone
  <2>1. current \in Tasks
    BY <1>5 DEF MarkDone, CurrentIsCompleted, TypeOK
  <2>2. QueueMoves
    BY <1>1, <1>5, <2>1 DEF MarkDone, Close, QueueMoves, LifecycleTypeOK, Statuses
  <2>3. TypeOK' /\ CurrentIsCompleted'
    BY <1>5, <2>2 DEF MarkDone, QueueMoves, TypeOK, CurrentIsCompleted
  <2> QED
    BY <2>2, <2>3, QueueMovesKeep
<1>6. ASSUME UNCHANGED <<lifecycleVars, config, place, told, summary, unaware>>
      PROVE  QueueMoves
  BY <1>1, <1>6 DEF QueueMoves, LifecycleTypeOK
<1>7. CASE RegisterUrls
  <2>1. TypeOK' /\ CurrentIsCompleted' /\ QueueMoves
    BY <1>6, <1>7 DEF RegisterUrls, TypeOK, LifecycleTypeOK, CurrentIsCompleted
  <2> QED
    BY <2>1, QueueMovesKeep
<1>8. CASE SweepFails \/ PairFails \/ Crash
  <2>1. faults' \in 0..MaxFaults
    BY <1>8, MaxFaultsIsNat DEF SweepFails, PairFails, Crash, Fault, TypeOK
  <2>2. TypeOK' /\ CurrentIsCompleted' /\ QueueMoves
    BY <1>6, <1>8, <2>1
       DEF SweepFails, PairFails, Crash, TypeOK, LifecycleTypeOK, CurrentIsCompleted
  <2> QED
    BY <2>2, QueueMovesKeep
<1>9. CASE Restart \/ UNCHANGED vars
  <2>1. TypeOK' /\ CurrentIsCompleted' /\ QueueMoves
    BY <1>6, <1>9 DEF Restart, vars, TypeOK, LifecycleTypeOK, CurrentIsCompleted
  <2> QED
    BY <2>1, QueueMovesKeep
<1>10. ASSUME NEW t \in Tasks, TriageRaises(t)
       PROVE  TypeOK' /\ CurrentIsCompleted' /\ QueueMoves
  <2>1. answers' \in [Tasks -> Nat]
    BY <1>10 DEF TriageRaises, TypeOK
  <2> QED
    BY <1>6, <1>10, <2>1 DEF TriageRaises, TypeOK, LifecycleTypeOK, CurrentIsCompleted
<1>11. ASSUME NEW t \in Tasks, Execute(t)
       PROVE  TypeOK' /\ CurrentIsCompleted' /\ QueueMoves
  <2>1. t # None
    BY NoneIsNoPlace
  <2> QED
    BY <1>6, <1>11, <2>1 DEF Execute, TypeOK, LifecycleTypeOK, CurrentIsCompleted
<1> QED
  BY <1>2, <1>3, <1>4, <1>5, <1>7, <1>8, <1>9, <1>10, <1>11, QueueMovesKeep

(***************************************************************************)
(* A dispatch: the task is new, and goes to an agent by way of the first   *)
(* assignment that can take it now.                                        *)
(***************************************************************************)
LEMMA DispatchRoutes ==
  ASSUME Inv, NEW t \in Tasks, NEW i \in Issues, Dispatch(t, i)
  PROVE  LET k == Route(config, i, registry)
         IN  /\ config \in Configs /\ i \in DOMAIN config
             /\ status[t] = "absent" /\ place[t] = None /\ result[t] = None
             /\ pc = "free" /\ current = None /\ attempts[t] = 0
             /\ k \in Candidates(config, i, registry)
             /\ \A j \in Candidates(config, i, registry) : k <= j
             /\ k \in DOMAIN config[i] /\ <<i, k>> \in Places(config)
             /\ UrlOf(config[i][k], registry) \in Agents
<1> DEFINE k == Route(config, i, registry)
<1> USE DEF Inv
<1>1. /\ config \in Configs /\ i \in DOMAIN config /\ registry \in {<<>>, StartedUrls(config)}
      /\ status[t] = "absent" /\ place[t] = None /\ result[t] = None
      /\ pc = "free" /\ current = None /\ attempts[t] = 0
  BY ConfigsHaveSameRepos
     DEF Dispatch, Submit, TypeOK, LifecycleTypeOK, Issues, TasksHavePlaces, CurrentIsCompleted
<1>2. /\ k \in Candidates(config, i, registry) /\ k # Nothing
      /\ \A j \in Candidates(config, i, registry) : k <= j
  BY <1>1, RouteIsFirst DEF Dispatch
<1>3. k \in DOMAIN config[i] /\ UrlOf(config[i][k], registry) # Nothing
  BY <1>2 DEF Candidates
<1>4. <<i, k>> \in Places(config) /\ Assignment(config, <<i, k>>) = config[i][k]
  BY <1>1, <1>3, PlacesAreNumbers
<1>5. UrlOf(config[i][k], registry) \in Agents
  BY <1>1, <1>3, <1>4, UrlsAreAgents
<1> QED
  BY <1>1, <1>2, <1>3, <1>4, <1>5

(* Such a step keeps Inv: the task is told what the summary says now.      *)
LEMMA DispatchInv ==
  ASSUME Inv, NEW t \in Tasks, NEW i \in Issues, Dispatch(t, i)
  PROVE  Inv'
<1> DEFINE k == Route(config, i, registry)
<1> USE DEF Inv
<1>1. /\ config \in Configs /\ i \in DOMAIN config
      /\ status[t] = "absent" /\ place[t] = None /\ result[t] = None
      /\ pc = "free" /\ current = None /\ attempts[t] = 0
  BY DispatchRoutes
<1>2. /\ k \in Candidates(config, i, registry)
      /\ \A j \in Candidates(config, i, registry) : k <= j
  BY DispatchRoutes
<1>3. /\ k \in DOMAIN config[i] /\ <<i, k>> \in Places(config)
      /\ UrlOf(config[i][k], registry) \in Agents
  BY DispatchRoutes
<1>4. /\ status' = [status EXCEPT ![t] = "pending"]
      /\ agentUrl' = [agentUrl EXCEPT ![t] = UrlOf(config[i][k], registry)]
      /\ place' = [place EXCEPT ![t] = <<i, k>>]
      /\ told' = [told EXCEPT ![t] = summary[i]]
      /\ UNCHANGED <<retryCount, result, attempts, config, registry, answers, summary, pc,
                     current, unaware, faults>>
  BY DEF Dispatch, Submit, MemoryOf, loopVars
<1>5. <<i, k>> \in AllPlaces /\ <<i, k>> # None
  BY <1>1, <1>3, NoneIsNoPlace DEF AllPlaces
<1> HIDE DEF k
<1>6. TypeOK'
  <2>1. LifecycleTypeOK'
    BY <1>3, <1>4 DEF TypeOK, LifecycleTypeOK, Statuses
  <2>2. place' \in [Tasks -> AllPlaces \cup {None}] /\ told' \in [Tasks -> Decisions \cup {None}]
    BY <1>4, <1>5 DEF TypeOK
  <2> QED
    BY <1>4, <2>1, <2>2 DEF TypeOK
<1>7. TasksHavePlaces'
  BY <1>1, <1>3, <1>4, <1>5 DEF TasksHavePlaces, TypeOK, LifecycleTypeOK
<1>8. CurrentIsCompleted'
  BY <1>1, <1>4 DEF CurrentIsCompleted
<1>9. GuardAnswers'
  BY <1>1, <1>4 DEF GuardAnswers, TypeOK
<1>10. OthersAreTold'
  <2> SUFFICES ASSUME NEW j \in Issues, HasKeyword(j)', NEW u \in DispatchedFor(j)' \ unaware'[j]
               PROVE  GuardFires(told'[u])
    BY DEF OthersAreTold
  <2>1. HasKeyword(j) /\ u \in Tasks /\ u \notin unaware[j]
    BY <1>4 DEF HasKeyword, DispatchedFor
  <2>2. CASE u = t
    <3>1. j = i
      BY <1>4, <2>2 DEF DispatchedFor, IssueOf, TypeOK
    <3>2. told'[u] = summary[j]
      BY <1>4, <2>2, <3>1 DEF TypeOK
    <3> QED
      BY <2>1, <3>2 DEF HasKeyword
  <2>3. CASE u # t
    <3>1. place'[u] = place[u] /\ told'[u] = told[u]
      BY <1>4, <2>3 DEF TypeOK
    <3> QED
      BY <2>1, <3>1 DEF OthersAreTold, DispatchedFor, IssueOf
  <2> QED
    BY <2>2, <2>3
<1>11. CloseIsPermitted'
  BY <1>1, <1>4 DEF CloseIsPermitted, IssueOf, TypeOK
<1> QED
  BY <1>6, <1>7, <1>8, <1>9, <1>10, <1>11

(***************************************************************************)
(* parse_llm_response returns a decision that the drain loop knows, and    *)
(* drops a close that is not allowed.                                      *)
(***************************************************************************)
LEMMA ParsedIsPermitted ==
  ASSUME NEW reply \in Replies, reply.kind # "malformed", NEW allow \in BOOLEAN
  PROVE  /\ Parsed(reply, allow) \in Decisions
         /\ Parsed(reply, allow).close => allow
<1>1. reply \in [kind : {"garbage", "malformed", "unknown", "decision"},
                 comment : BOOLEAN, close : BOOLEAN, keyword : BOOLEAN]
  BY RepliesType
<1>2. CASE reply.kind = "garbage"
  BY <1>2, DecisionsType DEF Parsed
<1>3. CASE reply.kind = "unknown"
  BY <1>1, <1>3, DecisionsType DEF Parsed
<1>4. CASE reply.kind = "decision"
  <2>1. Parsed(reply, allow) = [comment |-> reply.comment, close |-> reply.close /\ allow,
                                keyword |-> reply.keyword]
    BY <1>4 DEF Parsed
  <2> QED
    BY <1>1, <2>1, DecisionsType
<1> QED
  BY <1>1, <1>2, <1>3, <1>4

(***************************************************************************)
(* The triage ends: a decision of the guard, or one the assignment permits.*)
(***************************************************************************)
LEMMA RunTriageDecides ==
  ASSUME Inv, NEW t \in Tasks, RunTriage(t)
  PROVE  \E d \in Decisions :
             /\ Decide(t, d)
             /\ GuardFires(told[t]) => d = GuardSkip
             /\ d.close => config[IssueOf(t)][place[t][2]].allow_close
<1> USE DEF Inv
<1>1. CASE GuardFires(told[t])
  <2>1. GuardSkip \in Decisions /\ ~GuardSkip.close
    BY DecisionsType DEF GuardSkip
  <2> QED
    BY <1>1, <2>1 DEF RunTriage
<1>2. CASE ~GuardFires(told[t])
  <2>1. place[t] \in Places(config) /\ config \in Configs
    BY DEF RunTriage, TasksHavePlaces, TypeOK, LifecycleTypeOK
  <2>2. AllowClose(Assignment(config, place[t])) \in BOOLEAN
    BY <2>1, AssignmentsHaveTypes DEF AllowClose
  <2>3. AllowClose(Assignment(config, place[t])) = config[IssueOf(t)][place[t][2]].allow_close
    BY DEF AllowClose, Assignment, IssueOf
  <2>4. PICK reply \in Replies :
            /\ reply.kind # "malformed"
            /\ Decide(t, Parsed(reply, AllowClose(Assignment(config, place[t]))))
    BY <1>2 DEF RunTriage
  <2> QED
    BY <1>2, <2>2, <2>3, <2>4, ParsedIsPermitted
<1> QED
  BY <1>1, <1>2

(* Such a step keeps Inv.                                                  *)
LEMMA RunTriageInv ==
  ASSUME Inv, NEW t \in Tasks, RunTriage(t)
  PROVE  Inv'
<1> USE DEF Inv
<1>1. PICK d \in Decisions :
          /\ Decide(t, d)
          /\ GuardFires(told[t]) => d = GuardSkip
          /\ d.close => config[IssueOf(t)][place[t][2]].allow_close
  BY RunTriageDecides
<1>2. /\ attempts[t] > 0 /\ status' = [status EXCEPT ![t] = "completed"]
      /\ result' = [result EXCEPT ![t] = d] /\ UNCHANGED <<agentUrl, retryCount, attempts>>
  BY <1>1 DEF Decide
<1>3. /\ pc = "free" /\ answers' = [answers EXCEPT ![t] = @ + 1]
      /\ UNCHANGED <<config, registry, place, told, summary, pc, current, unaware, faults>>
  BY DEF RunTriage, loopVars
<1>4. d # None /\ place[t] # None
  BY <1>2, NoneIsNoValue DEF TasksHavePlaces
<1>5. TypeOK'
  <2>1. LifecycleTypeOK'
    BY <1>2 DEF TypeOK, LifecycleTypeOK, Statuses
  <2>2. answers' \in [Tasks -> Nat]
    BY <1>3 DEF TypeOK
  <2> QED
    BY <1>3, <2>1, <2>2 DEF TypeOK
<1>6. TasksHavePlaces'
  BY <1>2, <1>3, <1>4 DEF TasksHavePlaces, TypeOK, LifecycleTypeOK
<1>7. CurrentIsCompleted'
  BY <1>3 DEF CurrentIsCompleted
<1>8. GuardAnswers'
  BY <1>1, <1>2, <1>3 DEF GuardAnswers, TypeOK, LifecycleTypeOK
<1>9. OthersAreTold'
  BY <1>3 DEF OthersAreTold, HasKeyword, DispatchedFor, IssueOf
<1>10. CloseIsPermitted'
  BY <1>1, <1>2, <1>3 DEF CloseIsPermitted, IssueOf, TypeOK, LifecycleTypeOK
<1> QED
  BY <1>5, <1>6, <1>7, <1>8, <1>9, <1>10

(***************************************************************************)
(* The summary gets a keyword: whoever was dispatched until now is unaware.*)
(* A write that is undone leaves both as they were.                        *)
(***************************************************************************)
LEMMA UpsertSummaryInv ==
  ASSUME Inv, UpsertSummary
  PROVE  Inv'
<1> DEFINE i == IssueOf(current)
<1> USE DEF Inv
<1>1. /\ pc = "posted" /\ pc' = "recorded"
      /\ UNCHANGED <<lifecycleVars, config, registry, triageVars, current>>
      /\ \/ /\ summary' = [summary EXCEPT ![i] = result[current]]
            /\ unaware' = IF ~HasKeyword(i) /\ result[current].keyword
                          THEN [unaware EXCEPT ![i] = DispatchedFor(i)]
                          ELSE unaware
            /\ UNCHANGED faults
         \/ Fault /\ UNCHANGED <<summary, unaware>>
  BY DEF UpsertSummary
<1>2. current \in Tasks /\ result[current] \in Decisions
  BY <1>1 DEF CurrentIsCompleted, TasksHavePlaces, TypeOK, LifecycleTypeOK
<1>3. i \in Issues
  BY <1>1, <1>2, PlacesAreNumbers
     DEF CurrentIsCompleted, TasksHavePlaces, TypeOK, IssueOf, Issues
<1> HIDE DEF i
<1>4. DispatchedFor(i) \subseteq Tasks
  BY DEF DispatchedFor
<1>5. TypeOK'
  <2>1. faults' \in 0..MaxFaults
    BY <1>1, MaxFaultsIsNat DEF Fault, TypeOK
  <2>2. summary' \in [Issues -> Decisions \cup {None}] /\ unaware' \in [Issues -> SUBSET Tasks]
    BY <1>1, <1>2, <1>3, <1>4 DEF TypeOK
  <2> QED
    BY <1>1, <2>1, <2>2 DEF TypeOK, lifecycleVars, LifecycleTypeOK, triageVars
<1>6. CurrentIsCompleted'
  BY <1>1 DEF CurrentIsCompleted, lifecycleVars
<1>7. TasksHavePlaces' /\ GuardAnswers' /\ CloseIsPermitted'
  BY <1>1 DEF TasksHavePlaces, GuardAnswers, CloseIsPermitted, IssueOf, lifecycleVars, triageVars
<1>8. OthersAreTold'
  <2> SUFFICES ASSUME NEW j \in Issues, HasKeyword(j)', NEW u \in DispatchedFor(j)' \ unaware'[j]
               PROVE  GuardFires(told[u])
    BY <1>1 DEF OthersAreTold, triageVars
  <2>1. u \in DispatchedFor(j)
    BY <1>1 DEF DispatchedFor, IssueOf, triageVars
  <2>2. CASE HasKeyword(j)
    <3>1. unaware'[j] = unaware[j]
      BY <1>1, <1>3, <2>2 DEF TypeOK
    <3> QED
      BY <2>1, <2>2, <3>1 DEF OthersAreTold
  <2>3. CASE ~HasKeyword(j)
    <3>1. summary' # summary
      BY <2>3 DEF HasKeyword
    <3>2. j = i /\ result[current].keyword
      BY <1>1, <1>2, <1>3, <2>3, <3>1 DEF HasKeyword, GuardFires, TypeOK
    <3>3. unaware'[j] = DispatchedFor(j)
      BY <1>1, <1>3, <2>3, <3>1, <3>2 DEF TypeOK
    <3> QED
      BY <2>1, <3>3
  <2> QED
    BY <2>2, <2>3
<1> QED
  BY <1>5, <1>6, <1>7, <1>8

-----------------------------------------------------------------------------
(* The guard, as an action.                                                *)

(***************************************************************************)
(* What is executed with a comment, or replaces the summary by one without *)
(* a keyword, was not decided by the guard.                                *)
(***************************************************************************)
LEMMA GuardStep ==
  ASSUME Inv, [Next]_vars, NEW i \in Issues, HasKeyword(i),
         Comments(i) \/ ~HasKeyword(i)'
  PROVE  current' \in unaware[i]
<1> USE DEF Inv
<1>1. ASSUME NEW t \in Tasks, place[t] # None, IssueOf(t) = i, result[t] # None,
             result[t] # GuardSkip
      PROVE  t \in unaware[i]
  BY <1>1 DEF GuardAnswers, OthersAreTold, DispatchedFor
<1>2. CASE Comments(i)
  <2>1. PICK t \in Tasks : Execute(t)
    BY <1>2 DEF Comments, Next, vars, loopVars, RegisterUrls, Dispatch, HandOutTask, RunTriage,
                TriageRaises, RequeueStale, FailExhausted, SweepFails, UpsertSummary, MarkDone,
                PairFails, Crash, Restart
  <2>2. status[t] = "completed" /\ current' = t
    BY <2>1 DEF Execute
  <2>3. result[t].comment /\ IssueOf(t) = i
    BY <1>2, <2>2 DEF Comments
  <2>4. result[t] # GuardSkip
    BY <2>3 DEF GuardSkip
  <2>5. place[t] # None /\ result[t] # None
    BY <2>2 DEF TasksHavePlaces
  <2> QED
    BY <1>1, <2>2, <2>3, <2>4, <2>5
<1>3. CASE ~HasKeyword(i)'
  <2>1. summary' # summary
    BY <1>3 DEF HasKeyword
  <2>2. UpsertSummary
    BY <2>1 DEF Next, vars, RegisterUrls, Dispatch, HandOutTask, RunTriage, TriageRaises, Execute,
                RequeueStale, FailExhausted, SweepFails, MarkDone, PairFails, Crash, Restart
  <2>3. /\ pc = "posted" /\ summary' = [summary EXCEPT ![IssueOf(current)] = result[current]]
        /\ current' = current
    BY <2>1, <2>2 DEF UpsertSummary
  <2>4. /\ current \in Tasks /\ place[current] # None /\ result[current] \in Decisions
        /\ result[current] # None
    BY <2>3 DEF CurrentIsCompleted, TasksHavePlaces, TypeOK, LifecycleTypeOK
  <2>5. IssueOf(current) = i /\ ~result[current].keyword
    BY <1>3, <2>3, <2>4 DEF HasKeyword, GuardFires, TypeOK
  <2>6. result[current] # GuardSkip
    BY <2>5 DEF GuardSkip
  <2> QED
    BY <1>1, <2>3, <2>4, <2>5, <2>6
<1> QED
  BY <1>2, <1>3

-----------------------------------------------------------------------------
(* The theorems.                                                           *)

(***************************************************************************)
(* Inv is an inductive invariant of Triage.                                *)
(***************************************************************************)
THEOREM Invariance == Spec => []Inv
<1>1. Inv /\ [Next]_vars => Inv'
  BY QueueInv, DispatchInv, RunTriageInv, UpsertSummaryInv DEF Next
<1> QED
  BY <1>1, InitInv, PTL DEF Spec

(***************************************************************************)
(* Every variable keeps its type: in particular every task is enqueued for *)
(* the URL of an agent, and every decision is one the drain loop knows.    *)
(***************************************************************************)
THEOREM TypeCorrect == Spec => []TypeOK
<1>1. Inv => TypeOK
  BY DEF Inv
<1> QED
  BY <1>1, Invariance, PTL

(***************************************************************************)
(* No answer of the LLM, retry or second decision closes an issue unless   *)
(* the assignment it was routed by has allow_close.                        *)
(***************************************************************************)
THEOREM ClosesArePermitted == Spec => []CloseIsPermitted
<1>1. Inv => CloseIsPermitted
  BY DEF Inv
<1> QED
  BY <1>1, Invariance, PTL

(***************************************************************************)
(* In every configuration the agents it names are reached once the         *)
(* containers are up.                                                      *)
(***************************************************************************)
THEOREM NamedAgentsAreReachable == Spec => []ConfiguredAgentsAreReachable
<1>1. Inv => ConfiguredAgentsAreReachable
  BY AgentsAreReachable DEF Inv, TypeOK
<1> QED
  BY <1>1, Invariance, PTL

(***************************************************************************)
(* The duplicate-comment guard holds from end to end, whatever is retried, *)
(* crashes or comes late.                                                  *)
(***************************************************************************)
THEOREM GuardIsKept == Spec => GuardHolds
<1>1. Inv /\ [Next]_vars =>
        [\A i \in Issues :
            HasKeyword(i) /\ (Comments(i) \/ ~HasKeyword(i)') => current' \in unaware[i]]_vars
  BY GuardStep
<1> QED
  BY <1>1, Invariance, PTL DEF Spec, GuardHolds

=============================================================================
