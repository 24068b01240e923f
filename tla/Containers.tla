----------------------------- MODULE Containers -----------------------------
(***************************************************************************)
(* The agents' containers over several lives of the harness process:       *)
(* startup and shutdown (night_brownie/__main__.py), the container manager *)
(* (night_brownie/containers/manager.py) and the engine behind its         *)
(* backends (containers/docker.py, containers/apple.py).                   *)
(*                                                                         *)
(* The engine knows a container by its agent's name, which is taken until  *)
(* the container is removed, whether it runs or not.  What the manager     *)
(* knows ends with the process; the containers do not.  An agent serves    *)
(* /health when its startup loop has drained the backlog, for which it     *)
(* needs the harness.                                                      *)
(*                                                                         *)
(* Nothing in night_brownie calls handle_container_exit yet.  Monitored    *)
(* says whether there is a caller: one call for each exit, at any later    *)
(* time, while other waits for health go on.                               *)
(***************************************************************************)
EXTENDS Integers, Sequences

CONSTANTS
    Agents,
    Specs,       \* the agents in the order of _collect_agent_images
    Retries,     \* the health checks of one wait (30 in _wait_for_health)
    Monitored,   \* whether somebody calls handle_container_exit
    MaxStarts, MaxExits, MaxFaults, MaxKills   \* bounds

ASSUME SpecsListAgents ==
    /\ Specs \in Seq(Agents) /\ Specs # <<>>
    /\ \A j, k \in 1..Len(Specs) : Specs[j] = Specs[k] => j = k
ASSUME RetriesIsPositive == Retries \in Nat \ {0}
ASSUME MonitoredType == Monitored \in BOOLEAN
ASSUME BoundsAreNat ==
    MaxStarts \in Nat /\ MaxExits \in Nat /\ MaxFaults \in Nat /\ MaxKills \in Nat

VARIABLES
    harness,      \* "down"; "binding" the server's port; "starting" the agents;
                  \* "running"; "stopping": in stop_all
    pollerDead,   \* the poller task has ended with an exception
    next,         \* the position in Specs of the agent being started
    tries,        \* the checks its start_agent has left, 0 before its container runs
    registered,   \* the agents whose URL the router has
    handles, failed, attempts,   \* _handles, _failed, _restart_attempts
    restarting,   \* [agent -> checks its handle_container_exit has left; 0: no wait]
    unseen,       \* the agents whose exit handle_container_exit was not called for yet
    box,          \* [agent -> the container of its name at the engine]
    starts, exits, faults, kills,
    mine,         \* the agents whose container was started in this life of the harness
    runs,         \* [agent -> containers started in this life]
    broken        \* the agents for whom an engine call failed in this life

processVars == <<harness, pollerDead, next, tries, registered>>
managerVars == <<handles, failed, attempts, restarting>>
historyVars == <<mine, runs, broken>>
vars == <<processVars, managerVars, unseen, box, starts, exits, faults, kills, historyVars>>

Zero == [a \in Agents |-> 0]

Up == {"booting", "healthy"}

TypeOK ==
    /\ harness \in {"down", "binding", "starting", "running", "stopping"}
    /\ pollerDead \in BOOLEAN
    /\ next \in 1..Len(Specs) /\ tries \in 0..Retries
    /\ registered \subseteq Agents
    /\ handles \subseteq Agents /\ failed \subseteq Agents
    /\ attempts \in [Agents -> 0..1]
    /\ restarting \in [Agents -> 0..Retries]
    /\ unseen \subseteq Agents
    /\ box \in [Agents -> {"none", "booting", "healthy", "exited"}]
    /\ starts \in 0..MaxStarts /\ exits \in 0..MaxExits
    /\ faults \in 0..MaxFaults /\ kills \in 0..MaxKills
    /\ mine \subseteq Agents /\ runs \in [Agents -> Nat] /\ broken \subseteq Agents

Init ==
    /\ harness = "down" /\ pollerDead = FALSE
    /\ next = 1 /\ tries = 0 /\ registered = {}
    /\ handles = {} /\ failed = {} /\ attempts = Zero /\ restarting = Zero
    /\ unseen = {}
    /\ box = [a \in Agents |-> "none"]
    /\ starts = 0 /\ exits = 0 /\ faults = 0 /\ kills = 0
    /\ mine = {} /\ runs = Zero /\ broken = {}

-----------------------------------------------------------------------------
(* The engine.                                                             *)

(***************************************************************************)
(* run_container starts a container of the agent's name.                   *)
(***************************************************************************)
RunContainer(a) ==
    /\ box[a] = "none"
    /\ box' = [box EXCEPT ![a] = "booting"]
    /\ mine' = mine \cup {a}
    /\ runs' = [runs EXCEPT ![a] = @ + 1]

(***************************************************************************)
(* It raises because the name is taken; or it or a call for the image      *)
(* fails, perhaps between creating the container and starting it.          *)
(***************************************************************************)
RunRaises(a) ==
    \/ box[a] # "none" /\ UNCHANGED <<box, faults>>
    \/ /\ faults < MaxFaults
       /\ faults' = faults + 1
       /\ \/ UNCHANGED box
          \/ box[a] = "none" /\ box' = [box EXCEPT ![a] = "exited"]

(***************************************************************************)
(* The agent's startup loop has found the queue empty.                     *)
(***************************************************************************)
Boots(a) ==
    /\ box[a] = "booting"
    /\ harness \in {"starting", "running"}
    /\ box' = [box EXCEPT ![a] = "healthy"]
    /\ UNCHANGED <<processVars, managerVars, unseen, starts, exits, faults, kills,
                   historyVars>>

ContainerExits(a) ==
    /\ box[a] \in Up
    /\ exits < MaxExits
    /\ exits' = exits + 1
    /\ box' = [box EXCEPT ![a] = "exited"]
    /\ unseen' = IF a \in mine THEN unseen \cup {a} ELSE unseen
    /\ UNCHANGED <<processVars, managerVars, starts, faults, kills, historyVars>>

(***************************************************************************)
(* Somebody removes a container that has exited.                           *)
(***************************************************************************)
Removed(a) ==
    /\ box[a] = "exited"
    /\ box' = [box EXCEPT ![a] = "none"]
    /\ UNCHANGED <<processVars, managerVars, unseen, starts, exits, faults, kills,
                   historyVars>>

-----------------------------------------------------------------------------
(* Startup.                                                                *)

(***************************************************************************)
(* _run_start: a new process with an empty manager and router; _run_loop   *)
(* creates the poller, then the server.                                    *)
(***************************************************************************)
Launch ==
    /\ harness = "down"
    /\ starts < MaxStarts
    /\ starts' = starts + 1
    /\ harness' = "binding"
    /\ UNCHANGED <<pollerDead, next, tries, registered, managerVars, unseen, box, exits,
                   faults, kills, historyVars>>

(***************************************************************************)
(* The end of the process, with everything it knew.                        *)
(***************************************************************************)
ProcessEnds ==
    /\ harness' = "down" /\ pollerDead' = FALSE
    /\ next' = 1 /\ tries' = 0 /\ registered' = {}
    /\ handles' = {} /\ failed' = {} /\ attempts' = Zero /\ restarting' = Zero
    /\ unseen' = {}
    /\ mine' = {} /\ runs' = Zero /\ broken' = {}

(***************************************************************************)
(* uv_server.started: containers may be launched from now on.              *)
(***************************************************************************)
ServerStarted ==
    /\ harness = "binding"
    /\ harness' = "starting"
    /\ UNCHANGED <<pollerDead, next, tries, registered, managerVars, unseen, box, starts,
                   exits, faults, kills, historyVars>>

(***************************************************************************)
(* start_agent up to its wait for health.                                  *)
(***************************************************************************)
StartAgent ==
    LET a == Specs[next] IN
    /\ harness = "starting" /\ tries = 0
    /\ RunContainer(a)
    /\ handles' = handles \cup {a}
    /\ attempts' = [attempts EXCEPT ![a] = 0]
    /\ tries' = Retries
    /\ UNCHANGED <<harness, pollerDead, next, registered, failed, restarting, unseen,
                   starts, exits, faults, kills, broken>>

(***************************************************************************)
(* Whatever start_agent raises ends the process before the try block whose *)
(* finally calls stop_all.                                                 *)
(***************************************************************************)
StartRaises ==
    /\ harness = "starting" /\ tries = 0
    /\ RunRaises(Specs[next])
    /\ ProcessEnds
    /\ UNCHANGED <<starts, exits, kills>>

(***************************************************************************)
(* A check of _wait_for_health succeeds: the next agent, or, after the     *)
(* last, the URLs of all are registered.                                   *)
(***************************************************************************)
StartAnswered ==
    /\ harness = "starting" /\ tries > 0
    /\ box[Specs[next]] = "healthy"
    /\ tries' = 0
    /\ IF next < Len(Specs)
         THEN next' = next + 1 /\ UNCHANGED <<harness, registered>>
         ELSE /\ harness' = "running"
              /\ registered' = {Specs[k] : k \in 1..Len(Specs)}
              /\ UNCHANGED next
    /\ UNCHANGED <<pollerDead, managerVars, unseen, box, starts, exits, faults, kills,
                   historyVars>>

\* A faulty StartUnanswered: the attempts are not counted.
StartUncounted ==
    /\ harness = "starting" /\ tries > 0
    /\ UNCHANGED vars

(***************************************************************************)
(* It does not, or not in time; after the last one ContainerError.         *)
(***************************************************************************)
StartUnanswered ==
    /\ harness = "starting" /\ tries > 0
    /\ \/ /\ tries > 1
          /\ tries' = tries - 1
          /\ UNCHANGED <<harness, pollerDead, next, registered, managerVars, unseen,
                         historyVars>>
       \/ tries = 1 /\ ProcessEnds
    /\ UNCHANGED <<box, starts, exits, faults, kills>>

-----------------------------------------------------------------------------
(* handle_container_exit.                                                  *)

\* A faulty Restart: the attempt is counted when the wait is over.
RestartUncounted(a) ==
    /\ attempts[a] = 0
    /\ \/ /\ RunContainer(a)
          /\ handles' = handles \cup {a}
          /\ restarting' = [restarting EXCEPT ![a] = Retries]
          /\ UNCHANGED <<attempts, faults, broken>>
       \/ /\ RunRaises(a)
          /\ attempts' = [attempts EXCEPT ![a] = 1]
          /\ broken' = IF faults' = faults THEN broken ELSE broken \cup {a}
          /\ UNCHANGED <<handles, restarting, mine, runs>>
    /\ UNCHANGED failed

(***************************************************************************)
(* The first exit: another container, if run_container lets it.  What it   *)
(* raises goes to the caller.                                              *)
(***************************************************************************)
Restart(a) ==
    /\ attempts[a] = 0
    /\ attempts' = [attempts EXCEPT ![a] = 1]
    /\ \/ /\ RunContainer(a)
          /\ handles' = handles \cup {a}
          /\ restarting' = [restarting EXCEPT ![a] = Retries]
          /\ UNCHANGED <<faults, broken>>
       \/ /\ RunRaises(a)
          /\ broken' = IF faults' = faults THEN broken ELSE broken \cup {a}
          /\ UNCHANGED <<handles, restarting, mine, runs>>
    /\ UNCHANGED failed

\* A faulty GiveUp: the agent is forgotten, not marked.
GiveUpUnmarked(a) ==
    /\ attempts[a] >= 1
    /\ handles' = handles \ {a}
    /\ UNCHANGED <<failed, attempts, restarting, box, faults, historyVars>>

(***************************************************************************)
(* The second exit.                                                        *)
(***************************************************************************)
GiveUp(a) ==
    /\ attempts[a] >= 1
    /\ failed' = failed \cup {a}
    /\ handles' = handles \ {a}
    /\ UNCHANGED <<attempts, restarting, box, faults, historyVars>>

HandleExit(a) ==
    /\ Monitored
    /\ harness \in {"starting", "running"}
    /\ a \in unseen
    /\ unseen' = unseen \ {a}
    /\ \/ a \in failed /\ UNCHANGED <<managerVars, box, faults, historyVars>>
       \/ a \notin failed /\ (Restart(a) \/ GiveUp(a))
    /\ UNCHANGED <<processVars, starts, exits, kills>>

RestartAnswered(a) ==
    /\ harness \in {"starting", "running"}
    /\ restarting[a] > 0
    /\ box[a] = "healthy"
    /\ restarting' = [restarting EXCEPT ![a] = 0]
    /\ UNCHANGED <<processVars, handles, failed, attempts, unseen, box, starts, exits,
                   faults, kills, historyVars>>

\* A faulty RestartUnanswered: a failed restart loses its handle too.
RestartDropped(a) ==
    /\ harness \in {"starting", "running"}
    /\ restarting[a] > 0
    /\ restarting' = [restarting EXCEPT ![a] = @ - 1]
    /\ failed' = IF restarting[a] = 1 THEN failed \cup {a} ELSE failed
    /\ handles' = IF restarting[a] = 1 THEN handles \ {a} ELSE handles
    /\ UNCHANGED <<processVars, attempts, unseen, box, starts, exits, faults, kills,
                   historyVars>>

\* A faulty RestartUnanswered: the wait goes on beyond its last check.
RestartUnbounded(a) ==
    /\ harness \in {"starting", "running"}
    /\ restarting[a] >= 0
    /\ restarting' = [restarting EXCEPT ![a] = @ - 1]
    /\ UNCHANGED <<processVars, handles, failed, attempts, unseen, box, starts, exits,
                   faults, kills, historyVars>>

(***************************************************************************)
(* After the last check the agent has failed; its handle stays.            *)
(***************************************************************************)
RestartUnanswered(a) ==
    /\ harness \in {"starting", "running"}
    /\ restarting[a] > 0
    /\ restarting' = [restarting EXCEPT ![a] = @ - 1]
    /\ failed' = IF restarting[a] = 1 THEN failed \cup {a} ELSE failed
    /\ UNCHANGED <<processVars, handles, attempts, unseen, box, starts, exits, faults,
                   kills, historyVars>>

-----------------------------------------------------------------------------
(* Shutdown.                                                               *)

(***************************************************************************)
(* An exception in the poller, logged by _on_poller_done.                  *)
(***************************************************************************)
PollerDies ==
    /\ harness \in {"binding", "starting", "running"}
    /\ ~pollerDead
    /\ pollerDead' = TRUE
    /\ UNCHANGED <<harness, next, tries, registered, managerVars, unseen, box, starts,
                   exits, faults, kills, historyVars>>

(***************************************************************************)
(* The process is told to end, or cannot bind its port, while _run_loop is *)
(* not yet in its try block.                                               *)
(***************************************************************************)
EndsEarly ==
    /\ harness \in {"binding", "starting"}
    /\ ProcessEnds
    /\ UNCHANGED <<box, starts, exits, faults, kills>>

(***************************************************************************)
(* server_task ends: the finally cancels the poller and awaits it.  Of a   *)
(* poller that has died already this raises its exception, which is no     *)
(* CancelledError.                                                         *)
(***************************************************************************)
Shutdown ==
    /\ harness = "running"
    /\ \/ /\ ~pollerDead
          /\ harness' = "stopping"
          /\ UNCHANGED <<pollerDead, next, tries, registered, managerVars, unseen,
                         historyVars>>
       \/ pollerDead /\ ProcessEnds
    /\ UNCHANGED <<box, starts, exits, faults, kills>>

(***************************************************************************)
(* One round of stop_all: the container is stopped and removed, or gone    *)
(* already, or the engine raises, before or after it stopped.  A handle    *)
(* can be that of an earlier container if a later one was left half done.  *)
(***************************************************************************)
StopContainer(a) ==
    /\ harness = "stopping"
    /\ a \in handles
    /\ handles' = handles \ {a}
    /\ \/ /\ \/ box' = [box EXCEPT ![a] = "none"]
             \/ a \in broken /\ UNCHANGED box
          /\ UNCHANGED <<faults, broken>>
       \/ /\ faults < MaxFaults
          /\ faults' = faults + 1
          /\ \/ UNCHANGED box
             \/ box[a] \in Up /\ box' = [box EXCEPT ![a] = "exited"]
          /\ broken' = broken \cup {a}
    /\ UNCHANGED <<processVars, failed, attempts, restarting, unseen, starts, exits,
                   kills, mine, runs>>

StopAllReturns ==
    /\ harness = "stopping"
    /\ handles = {}
    /\ ProcessEnds
    /\ UNCHANGED <<box, starts, exits, faults, kills>>

Kill ==
    /\ harness # "down"
    /\ kills < MaxKills
    /\ kills' = kills + 1
    /\ ProcessEnds
    /\ UNCHANGED <<box, starts, exits, faults>>

-----------------------------------------------------------------------------

Next ==
    \/ Launch \/ ServerStarted \/ StartAgent \/ StartRaises
    \/ StartAnswered \/ StartUnanswered
    \/ PollerDies \/ EndsEarly \/ Shutdown \/ StopAllReturns \/ Kill
    \/ \E a \in Agents :
         \/ Boots(a) \/ ContainerExits(a) \/ Removed(a)
         \/ HandleExit(a) \/ RestartAnswered(a) \/ RestartUnanswered(a)
         \/ StopContainer(a)

Spec == Init /\ [][Next]_vars

(***************************************************************************)
(* The event loop gets on with what it has begun.  Nothing is assumed of   *)
(* the agents, of who launches or ends the process, or of who calls        *)
(* handle_container_exit.                                                  *)
(***************************************************************************)
Fairness ==
    /\ WF_vars(ServerStarted)
    /\ WF_vars(StartAgent \/ StartRaises)
    /\ WF_vars(StartAnswered \/ StartUnanswered)
    /\ \A a \in Agents : WF_vars(RestartAnswered(a) \/ RestartUnanswered(a))
    /\ \A a \in Agents : WF_vars(StopContainer(a))
    /\ WF_vars(StopAllReturns)

FairSpec == Spec /\ Fairness

-----------------------------------------------------------------------------
(* Properties.                                                             *)

(***************************************************************************)
(* However the exits of a container interleave with the waits for health   *)
(* of start_agent and handle_container_exit, it is restarted once at most. *)
(***************************************************************************)
RestartedOnce == \A a \in Agents : runs[a] <= 2

(***************************************************************************)
(* An exited container of a running harness is accounted for: its exit is  *)
(* still to be handled, its agent was given up, or its one restart was     *)
(* refused, under way, or failed at the engine.                            *)
(***************************************************************************)
NoExitIsForgotten ==
    \A a \in mine :
        harness \in {"starting", "running"} /\ box[a] = "exited" =>
            \/ a \in unseen \cup failed \cup broken
            \/ restarting[a] > 0
            \/ attempts[a] = 1 /\ runs[a] = 1

Leaves == harness # "down" /\ harness' = "down" /\ kills' = kills

(***************************************************************************)
(* When the harness ends by itself after startup, and its poller is alive, *)
(* stop_all has left none of its containers running, and none behind that  *)
(* would hold a name, but those given up by handle_container_exit (which   *)
(* drops the handle of an exited container) and those the engine failed on.*)
(***************************************************************************)
LeftoversAreExplained ==
    [][Leaves /\ harness \in {"running", "stopping"} /\ ~pollerDead =>
        \A a \in mine :
            \/ box[a] = "none"
            \/ a \in broken
            \/ a \in failed /\ box[a] = "exited"]_vars

(***************************************************************************)
(* __main__.py:291: "On shutdown (SIGINT/SIGTERM), the poller task is      *)
(* cancelled cleanly and any managed containers are stopped."  Read for a  *)
(* shutdown after startup and engine calls that work.                      *)
(***************************************************************************)
ShutdownStopsContainers ==
    [][Leaves /\ harness \in {"running", "stopping"} =>
        \A a \in mine : box[a] \notin Up \/ a \in broken]_vars

(***************************************************************************)
(* Startup and shutdown come to an end, whatever the containers do.        *)
(***************************************************************************)
HarnessSettles ==
    harness \in {"binding", "starting", "stopping"} ~> harness \in {"running", "down"}

=============================================================================
