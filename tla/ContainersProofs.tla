-------------------------- MODULE ContainersProofs --------------------------
(***************************************************************************)
(* What Containers guarantees for every list of agents, every number of    *)
(* health checks, and every number of starts, exits, faults and kills,     *)
(* whether or not somebody calls handle_container_exit.                    *)
(***************************************************************************)
EXTENDS Containers, TLAPS

(***************************************************************************)
(* A process knows of a container only after it has started it, and        *)
(* start_agent comes once to every agent: it finds nothing to forget.      *)
(***************************************************************************)
StartsInOrder ==
    /\ harness \in {"down", "binding"} => mine = {}
    /\ tries > 0 => harness = "starting"
    /\ harness = "starting" =>
           \A k \in 1..Len(Specs) :
               k > next \/ (k = next /\ tries = 0) => Specs[k] \notin mine
    /\ \A a \in Agents \ mine : runs[a] = 0 /\ attempts[a] = 0
    /\ unseen \subseteq mine

(***************************************************************************)
(* The containers of an agent in one life are start_agent's and those of   *)
(* the restarts that were counted.                                         *)
(***************************************************************************)
RestartsAreCounted ==
    /\ \A a \in Agents : runs[a] <= 1 + attempts[a]
    /\ \A a \in mine : runs[a] >= 1

(***************************************************************************)
(* Nothing takes an agent's place before its exit is handled.              *)
(***************************************************************************)
UnseenStayDown == \A a \in unseen : box[a] \notin Up

(***************************************************************************)
(* The manager lets go of the handle of a container that is gone, that the *)
(* engine failed on, or that has exited and was given up.                  *)
(***************************************************************************)
HandlesAreKept ==
    \A a \in mine :
        \/ a \in handles
        \/ box[a] = "none"
        \/ a \in broken
        \/ a \in failed /\ box[a] = "exited"

Inv ==
    /\ TypeOK
    /\ StartsInOrder
    /\ RestartsAreCounted
    /\ UnseenStayDown
    /\ HandlesAreKept
    /\ NoExitIsForgotten

-----------------------------------------------------------------------------
(***************************************************************************)
(* No process, and no container.                                           *)
(***************************************************************************)
LEMMA InitInv == Init => Inv
<1> SUFFICES ASSUME Init PROVE Inv
  OBVIOUS
<1> USE DEF Init, Zero
<1>1. TypeOK
  <2>1. 1 \in 1..Len(Specs) /\ 0 \in 0..Retries
    BY SpecsListAgents, RetriesIsPositive
  <2>3. Zero \in [Agents -> 0..1] /\ Zero \in [Agents -> 0..Retries] /\ Zero \in [Agents -> Nat]
    BY RetriesIsPositive
  <2>2. 0 \in 0..MaxStarts /\ 0 \in 0..MaxExits /\ 0 \in 0..MaxFaults /\ 0 \in 0..MaxKills
    BY BoundsAreNat
  <2>4. box \in [Agents -> {"none", "booting", "healthy", "exited"}]
    OBVIOUS
  <2> HIDE DEF Zero
  <2> QED
    BY <2>1, <2>2, <2>3, <2>4 DEF TypeOK
<1>2. StartsInOrder /\ RestartsAreCounted
  BY DEF StartsInOrder, RestartsAreCounted
<1>3. UnseenStayDown /\ HandlesAreKept /\ NoExitIsForgotten
  BY DEF UnseenStayDown, HandlesAreKept, NoExitIsForgotten
<1> QED
  BY <1>1, <1>2, <1>3 DEF Inv

(***************************************************************************)
(* However a process ends, what it knew ends with it.                      *)
(***************************************************************************)
LEMMA ProcessEndsInv ==
  ASSUME ProcessEnds,
         box' \in [Agents -> {"none", "booting", "healthy", "exited"}],
         starts' \in 0..MaxStarts, exits' \in 0..MaxExits,
         faults' \in 0..MaxFaults, kills' \in 0..MaxKills
  PROVE  Inv'
<1> USE DEF ProcessEnds, Zero
<1>1. TypeOK'
  <2>1. 1 \in 1..Len(Specs) /\ 0 \in 0..Retries
    BY SpecsListAgents, RetriesIsPositive
  <2>2. Zero \in [Agents -> 0..1] /\ Zero \in [Agents -> 0..Retries] /\ Zero \in [Agents -> Nat]
    BY RetriesIsPositive
  <2> HIDE DEF Zero
  <2> QED
    BY <2>1, <2>2 DEF TypeOK
<1>2. StartsInOrder' /\ RestartsAreCounted'
  BY DEF StartsInOrder, RestartsAreCounted
<1>3. UnseenStayDown' /\ HandlesAreKept' /\ NoExitIsForgotten'
  BY DEF UnseenStayDown, HandlesAreKept, NoExitIsForgotten
<1> QED
  BY <1>1, <1>2, <1>3 DEF Inv

(***************************************************************************)
(* What a raising run_container leaves at the engine.                      *)
(***************************************************************************)
LEMMA RunRaisesEffect ==
  ASSUME TypeOK, NEW a \in Agents, RunRaises(a)
  PROVE  /\ box' \in [Agents -> {"none", "booting", "healthy", "exited"}]
         /\ faults' \in 0..MaxFaults
         /\ \A b \in Agents : b # a => box'[b] = box[b]
         /\ \/ box'[a] = box[a]
            \/ box'[a] = "exited" /\ box[a] = "none" /\ faults' # faults
         /\ faults' = faults => box[a] # "none"
<1>1. CASE box[a] # "none" /\ UNCHANGED <<box, faults>>
  BY <1>1 DEF TypeOK
<1>2. CASE faults < MaxFaults /\ faults' = faults + 1 /\ UNCHANGED box
  <2>1. faults + 1 \in 0..MaxFaults /\ faults + 1 # faults
    BY <1>2, BoundsAreNat DEF TypeOK
  <2> QED
    BY <1>2, <2>1 DEF TypeOK
<1>3. CASE /\ faults < MaxFaults /\ faults' = faults + 1
           /\ box[a] = "none" /\ box' = [box EXCEPT ![a] = "exited"]
  <2>1. faults + 1 \in 0..MaxFaults /\ faults + 1 # faults
    BY <1>3, BoundsAreNat DEF TypeOK
  <2> QED
    BY <1>3, <2>1 DEF TypeOK
<1> QED
  BY <1>1, <1>2, <1>3 DEF RunRaises

-----------------------------------------------------------------------------
(***************************************************************************)
(* Boots, ContainerExits and Removed: what happens at the engine.          *)
(***************************************************************************)
LEMMA EngineInv ==
  ASSUME Inv, NEW a \in Agents, Boots(a) \/ ContainerExits(a) \/ Removed(a)
  PROVE  Inv'
<1> USE DEF Inv, processVars, managerVars, historyVars, Up
<1>1. CASE Boots(a)
  <2> USE <1>1 DEF Boots
  <2>1. TypeOK'
    BY DEF TypeOK
  <2>2. StartsInOrder' /\ RestartsAreCounted'
    BY DEF StartsInOrder, RestartsAreCounted
  <2>3. UnseenStayDown' /\ HandlesAreKept' /\ NoExitIsForgotten'
    BY DEF UnseenStayDown, HandlesAreKept, NoExitIsForgotten, TypeOK
  <2> QED
    BY <2>1, <2>2, <2>3
<1>2. CASE ContainerExits(a)
  <2> USE <1>2 DEF ContainerExits
  <2>1. TypeOK'
    <3>1. exits + 1 \in 0..MaxExits
      BY BoundsAreNat DEF TypeOK
    <3> QED
      BY <3>1 DEF TypeOK
  <2>2. StartsInOrder' /\ RestartsAreCounted'
    BY DEF StartsInOrder, RestartsAreCounted
  <2>3. UnseenStayDown' /\ HandlesAreKept' /\ NoExitIsForgotten'
    BY DEF UnseenStayDown, HandlesAreKept, NoExitIsForgotten, TypeOK
  <2> QED
    BY <2>1, <2>2, <2>3
<1>3. CASE Removed(a)
  <2> USE <1>3 DEF Removed
  <2>1. TypeOK'
    BY DEF TypeOK
  <2>2. StartsInOrder' /\ RestartsAreCounted'
    BY DEF StartsInOrder, RestartsAreCounted
  <2>3. UnseenStayDown' /\ HandlesAreKept' /\ NoExitIsForgotten'
    BY DEF UnseenStayDown, HandlesAreKept, NoExitIsForgotten, TypeOK
  <2> QED
    BY <2>1, <2>2, <2>3
<1> QED
  BY <1>1, <1>2, <1>3

(***************************************************************************)
(* Launch and ServerStarted: the process has started no container.         *)
(***************************************************************************)
LEMMA LaunchInv ==
  ASSUME Inv, Launch \/ ServerStarted
  PROVE  Inv'
<1> USE DEF Inv, Launch, ServerStarted, managerVars, historyVars
<1>1. TypeOK'
  <2>1. CASE Launch
    <3>1. starts + 1 \in 0..MaxStarts
      BY <2>1, BoundsAreNat DEF TypeOK
    <3> QED
      BY <2>1, <3>1 DEF TypeOK
  <2>2. CASE ServerStarted
    BY <2>2 DEF TypeOK
  <2> QED
    BY <2>1, <2>2
<1>2. StartsInOrder' /\ RestartsAreCounted'
  BY DEF StartsInOrder, RestartsAreCounted
<1>3. UnseenStayDown' /\ HandlesAreKept' /\ NoExitIsForgotten'
  BY DEF UnseenStayDown, HandlesAreKept, NoExitIsForgotten, StartsInOrder
<1> QED
  BY <1>1, <1>2, <1>3

(***************************************************************************)
(* StartAgent: the first container of this agent, so the attempts it sets  *)
(* to zero were zero.                                                      *)
(***************************************************************************)
LEMMA StartAgentInv ==
  ASSUME Inv, StartAgent
  PROVE  Inv'
<1> USE DEF Inv, StartAgent, RunContainer
<1> DEFINE a == Specs[next]
<1>1. /\ a \in Agents /\ a \notin mine
      /\ runs[a] = 0 /\ attempts[a] = 0 /\ a \notin unseen
  BY SpecsListAgents DEF TypeOK, StartsInOrder
<1>2. /\ mine' = mine \cup {a} /\ handles' = handles \cup {a}
      /\ box' = [box EXCEPT ![a] = "booting"]
      /\ runs' = [runs EXCEPT ![a] = @ + 1]
      /\ attempts' = [attempts EXCEPT ![a] = 0]
      /\ tries' = Retries
      /\ UNCHANGED <<harness, pollerDead, next, registered, failed, restarting, unseen,
                     starts, exits, faults, kills, broken>>
  OBVIOUS
<1>3. \A k \in 1..Len(Specs) : k > next => Specs[k] # a
  BY SpecsListAgents DEF TypeOK
<1> HIDE DEF a
<1>4. TypeOK'
  BY <1>1, <1>2, RetriesIsPositive DEF TypeOK
<1>5. StartsInOrder'
  BY <1>1, <1>2, <1>3, RetriesIsPositive DEF StartsInOrder, TypeOK
<1>6. RestartsAreCounted'
  BY <1>1, <1>2 DEF RestartsAreCounted, TypeOK
<1>7. UnseenStayDown' /\ HandlesAreKept' /\ NoExitIsForgotten'
  BY <1>1, <1>2 DEF UnseenStayDown, HandlesAreKept, NoExitIsForgotten, TypeOK
<1> QED
  BY <1>4, <1>5, <1>6, <1>7

(***************************************************************************)
(* The rest of start_agent: it raises, or a check of its wait ends.        *)
(***************************************************************************)
LEMMA StartEndsInv ==
  ASSUME Inv, StartRaises \/ StartAnswered \/ StartUnanswered
  PROVE  Inv'
<1> USE DEF Inv
<1>1. CASE StartRaises
  <2>1. Specs[next] \in Agents
    BY SpecsListAgents DEF TypeOK
  <2> QED
    BY <1>1, <2>1, RunRaisesEffect, ProcessEndsInv DEF StartRaises, TypeOK
<1>2. CASE StartAnswered
  <2> USE <1>2 DEF StartAnswered, managerVars, historyVars
  <2>1. TypeOK'
    <3>1. next < Len(Specs) => next + 1 \in 1..Len(Specs)
      BY SpecsListAgents DEF TypeOK
    <3>2. {Specs[k] : k \in 1..Len(Specs)} \subseteq Agents
      BY SpecsListAgents
    <3> QED
      BY <3>1, <3>2, RetriesIsPositive DEF TypeOK
  <2>2. StartsInOrder' /\ RestartsAreCounted'
    BY DEF StartsInOrder, RestartsAreCounted, TypeOK
  <2>3. UnseenStayDown' /\ HandlesAreKept' /\ NoExitIsForgotten'
    BY DEF UnseenStayDown, HandlesAreKept, NoExitIsForgotten
  <2> QED
    BY <2>1, <2>2, <2>3
<1>3. CASE StartUnanswered /\ tries > 1
  <2> USE <1>3 DEF StartUnanswered, managerVars, historyVars
  <2>1. /\ tries' = tries - 1 /\ tries' \in 0..Retries /\ tries' > 0
        /\ harness = "starting"
        /\ UNCHANGED <<harness, pollerDead, next, registered, managerVars, unseen,
                       historyVars, box, starts, exits, faults, kills>>
    BY RetriesIsPositive DEF TypeOK
  <2>2. TypeOK'
    BY <2>1 DEF TypeOK
  <2>3. StartsInOrder' /\ RestartsAreCounted'
    BY <2>1 DEF StartsInOrder, RestartsAreCounted, TypeOK
  <2>4. UnseenStayDown' /\ HandlesAreKept' /\ NoExitIsForgotten'
    BY <2>1 DEF UnseenStayDown, HandlesAreKept, NoExitIsForgotten
  <2> QED
    BY <2>2, <2>3, <2>4
<1>4. CASE StartUnanswered /\ ~(tries > 1)
  BY <1>4, ProcessEndsInv DEF StartUnanswered, TypeOK
<1> QED
  BY <1>1, <1>2, <1>3, <1>4

-----------------------------------------------------------------------------
(***************************************************************************)
(* A handled exit: the one restart is counted whatever becomes of it, and  *)
(* it can only be refused while the first container was the only one.      *)
(***************************************************************************)
LEMMA RestartInv ==
  ASSUME Inv, NEW a \in Agents, HandleExit(a), a \notin failed, Restart(a)
  PROVE  Inv'
<1> USE DEF Inv, HandleExit, processVars
<1>1. /\ a \in mine /\ attempts[a] = 0 /\ runs[a] = 1 /\ box[a] \notin Up
      /\ harness \in {"starting", "running"} /\ unseen' = unseen \ {a}
      /\ attempts' = [attempts EXCEPT ![a] = 1]
      /\ UNCHANGED <<harness, pollerDead, next, tries, registered, failed, starts,
                     exits, kills>>
  BY DEF Restart, StartsInOrder, RestartsAreCounted, UnseenStayDown, TypeOK
<1>2. CASE /\ RunContainer(a) /\ handles' = handles \cup {a}
           /\ restarting' = [restarting EXCEPT ![a] = Retries]
           /\ UNCHANGED <<faults, broken>>
  <2> USE <1>1, <1>2 DEF RunContainer
  <2>1. TypeOK'
    BY RetriesIsPositive DEF TypeOK
  <2>2. mine' = mine
    OBVIOUS
  <2>3. StartsInOrder' /\ RestartsAreCounted'
    BY <2>2 DEF StartsInOrder, RestartsAreCounted, TypeOK
  <2>4. UnseenStayDown' /\ HandlesAreKept' /\ NoExitIsForgotten'
    BY <2>2 DEF UnseenStayDown, HandlesAreKept, NoExitIsForgotten, TypeOK
  <2> QED
    BY <2>1, <2>3, <2>4
<1>3. CASE /\ RunRaises(a)
           /\ broken' = IF faults' = faults THEN broken ELSE broken \cup {a}
           /\ UNCHANGED <<handles, restarting, mine, runs>>
  <2>1. /\ box' \in [Agents -> {"none", "booting", "healthy", "exited"}]
        /\ faults' \in 0..MaxFaults
        /\ \A b \in Agents : b # a => box'[b] = box[b]
        /\ \/ box'[a] = box[a]
           \/ box'[a] = "exited" /\ a \in broken'
        /\ broken \subseteq broken'
    BY <1>3, RunRaisesEffect
  <2>2. broken' \subseteq Agents
    BY <1>3 DEF TypeOK
  <2>3. TypeOK'
    <3>1. attempts' \in [Agents -> 0..1] /\ unseen' \subseteq Agents
      BY <1>1 DEF TypeOK
    <3>2. UNCHANGED <<harness, pollerDead, next, tries, registered, handles, failed,
                      restarting, starts, exits, kills, mine, runs>>
      BY <1>1, <1>3
    <3> HIDE DEF HandleExit
    <3> QED
      BY <2>1, <2>2, <3>1, <3>2 DEF TypeOK
  <2>4. StartsInOrder' /\ RestartsAreCounted'
    BY <1>1, <1>3 DEF StartsInOrder, RestartsAreCounted, TypeOK
  <2>5. UnseenStayDown' /\ HandlesAreKept'
    BY <1>1, <1>3, <2>1 DEF UnseenStayDown, HandlesAreKept, TypeOK, Up
  <2>6. NoExitIsForgotten'
    BY <1>1, <1>3, <2>1 DEF NoExitIsForgotten, TypeOK
  <2> QED
    BY <2>3, <2>4, <2>5, <2>6
<1> QED
  BY <1>2, <1>3 DEF Restart

(* _handle_exit: the restart, the second failure, or the exit it ignores.  *)
LEMMA HandleExitInv ==
  ASSUME Inv, NEW a \in Agents, HandleExit(a)
  PROVE  Inv'
<1> USE DEF Inv, HandleExit, processVars
<1>1. CASE a \in failed
  <2>1. UNCHANGED <<managerVars, box, faults, historyVars>>
    BY <1>1
  <2> USE <1>1, <2>1 DEF managerVars, historyVars
  <2>2. TypeOK'
    BY DEF TypeOK
  <2>3. StartsInOrder' /\ RestartsAreCounted'
    BY DEF StartsInOrder, RestartsAreCounted
  <2>4. UnseenStayDown' /\ HandlesAreKept' /\ NoExitIsForgotten'
    BY DEF UnseenStayDown, HandlesAreKept, NoExitIsForgotten
  <2> QED
    BY <2>2, <2>3, <2>4
<1>2. CASE a \notin failed /\ Restart(a)
  BY <1>2, RestartInv
<1>3. CASE a \notin failed /\ GiveUp(a)
  <2> USE <1>3 DEF GiveUp, historyVars
  <2>1. a \in mine /\ box[a] \notin Up
    BY DEF StartsInOrder, UnseenStayDown
  <2>2. TypeOK'
    BY DEF TypeOK
  <2>3. StartsInOrder' /\ RestartsAreCounted'
    BY DEF StartsInOrder, RestartsAreCounted
  <2>4. UnseenStayDown' /\ HandlesAreKept' /\ NoExitIsForgotten'
    BY <2>1 DEF UnseenStayDown, HandlesAreKept, NoExitIsForgotten, TypeOK, Up
  <2> QED
    BY <2>2, <2>3, <2>4
<1> QED
  BY <1>1, <1>2, <1>3

(***************************************************************************)
(* A check of a restart's wait: only a healthy container or a failed agent *)
(* ends the wait.                                                          *)
(***************************************************************************)
LEMMA RestartChecksInv ==
  ASSUME Inv, NEW a \in Agents, RestartAnswered(a) \/ RestartUnanswered(a)
  PROVE  Inv'
<1> USE DEF Inv, processVars, historyVars
<1>1. CASE RestartAnswered(a)
  <2> USE <1>1 DEF RestartAnswered
  <2>1. TypeOK'
    BY RetriesIsPositive DEF TypeOK
  <2>2. StartsInOrder' /\ RestartsAreCounted'
    BY DEF StartsInOrder, RestartsAreCounted
  <2>3. UnseenStayDown' /\ HandlesAreKept' /\ NoExitIsForgotten'
    BY DEF UnseenStayDown, HandlesAreKept, NoExitIsForgotten, TypeOK
  <2> QED
    BY <2>1, <2>2, <2>3
<1>2. CASE RestartUnanswered(a)
  <2> USE <1>2 DEF RestartUnanswered
  <2>1. restarting[a] - 1 \in 0..Retries /\ (restarting[a] # 1 => restarting[a] - 1 > 0)
    BY RetriesIsPositive DEF TypeOK
  <2>2. failed \subseteq failed' /\ failed' \subseteq Agents
    BY DEF TypeOK
  <2>3. TypeOK'
    BY <2>1, <2>2 DEF TypeOK
  <2>4. StartsInOrder' /\ RestartsAreCounted'
    BY DEF StartsInOrder, RestartsAreCounted
  <2>5. UnseenStayDown' /\ HandlesAreKept'
    BY <2>2 DEF UnseenStayDown, HandlesAreKept
  <2>6. NoExitIsForgotten'
    BY <2>1, <2>2 DEF NoExitIsForgotten, TypeOK
  <2> QED
    BY <2>3, <2>4, <2>5, <2>6
<1> QED
  BY <1>1, <1>2

-----------------------------------------------------------------------------
(***************************************************************************)
(* The ends of the process that run no further code of the manager.        *)
(***************************************************************************)
LEMMA EndsInv ==
  ASSUME Inv, EndsEarly \/ StopAllReturns \/ Kill
  PROVE  Inv'
<1> USE DEF Inv
<1>1. CASE EndsEarly \/ StopAllReturns
  BY <1>1, ProcessEndsInv DEF EndsEarly, StopAllReturns, TypeOK
<1>2. CASE Kill
  <2>1. kills + 1 \in 0..MaxKills
    BY <1>2, BoundsAreNat DEF Kill, TypeOK
  <2> QED
    BY <1>2, <2>1, ProcessEndsInv DEF Kill, TypeOK
<1> QED
  BY <1>1, <1>2

(* The poller's end, and the stop of everything it leaves running.         *)
LEMMA ShutdownInv ==
  ASSUME Inv, PollerDies \/ Shutdown
  PROVE  Inv'
<1> USE DEF Inv
<1>1. CASE \/ PollerDies
           \/ Shutdown /\ ~pollerDead
  <2> USE <1>1 DEF PollerDies, Shutdown, managerVars, historyVars
  <2>1. TypeOK'
    BY DEF TypeOK
  <2>2. StartsInOrder' /\ RestartsAreCounted'
    BY DEF StartsInOrder, RestartsAreCounted
  <2>3. UnseenStayDown' /\ HandlesAreKept' /\ NoExitIsForgotten'
    BY DEF UnseenStayDown, HandlesAreKept, NoExitIsForgotten
  <2> QED
    BY <2>1, <2>2, <2>3
<1>2. CASE Shutdown /\ pollerDead
  BY <1>2, ProcessEndsInv DEF Shutdown, TypeOK
<1> QED
  BY <1>1, <1>2

(***************************************************************************)
(* StopContainer: a handle goes with its container or with a failure.      *)
(***************************************************************************)
LEMMA StopContainerInv ==
  ASSUME Inv, NEW a \in Agents, StopContainer(a)
  PROVE  Inv'
<1> USE DEF Inv, StopContainer, processVars
<1>1. /\ broken \subseteq broken' /\ broken' \subseteq Agents
      /\ faults' \in 0..MaxFaults
      /\ box' \in [Agents -> {"none", "booting", "healthy", "exited"}]
      /\ \A b \in Agents : b # a => box'[b] = box[b]
      /\ a \in broken' \/ box'[a] = "none"
      /\ box'[a] \in Up => box'[a] = box[a]
  <2>1. CASE \/ box' = [box EXCEPT ![a] = "none"] /\ UNCHANGED <<faults, broken>>
             \/ a \in broken /\ UNCHANGED <<box, faults, broken>>
    BY <2>1 DEF TypeOK, Up
  <2>2. CASE /\ faults < MaxFaults /\ faults' = faults + 1
             /\ \/ UNCHANGED box
                \/ box[a] \in Up /\ box' = [box EXCEPT ![a] = "exited"]
             /\ broken' = broken \cup {a}
    <3>1. faults + 1 \in 0..MaxFaults
      BY <2>2, BoundsAreNat DEF TypeOK
    <3> QED
      BY <2>2, <3>1 DEF TypeOK, Up
  <2> QED
    BY <2>1, <2>2
<1>2. /\ harness = "stopping" /\ handles' = handles \ {a}
      /\ UNCHANGED <<harness, pollerDead, next, tries, registered, failed, attempts,
                     restarting, unseen, starts, exits, kills, mine, runs>>
  OBVIOUS
<1> HIDE DEF StopContainer
<1>3. TypeOK'
  BY <1>1, <1>2 DEF TypeOK
<1>4. StartsInOrder' /\ RestartsAreCounted'
  BY <1>1, <1>2 DEF StartsInOrder, RestartsAreCounted
<1>5. UnseenStayDown' /\ HandlesAreKept' /\ NoExitIsForgotten'
  BY <1>1, <1>2 DEF UnseenStayDown, HandlesAreKept, NoExitIsForgotten, TypeOK
<1> QED
  BY <1>3, <1>4, <1>5

(***************************************************************************)
(* Every step preserves the inductive invariant.                           *)
(***************************************************************************)
LEMMA NextInv == Inv /\ [Next]_vars => Inv'
<1> SUFFICES ASSUME Inv, [Next]_vars PROVE Inv'
  OBVIOUS
<1>1. CASE Launch \/ ServerStarted
  BY <1>1, LaunchInv
<1>2. CASE StartAgent
  BY <1>2, StartAgentInv
<1>3. CASE StartRaises \/ StartAnswered \/ StartUnanswered
  BY <1>3, StartEndsInv
<1>4. CASE PollerDies \/ Shutdown
  BY <1>4, ShutdownInv
<1>5. CASE EndsEarly \/ StopAllReturns \/ Kill
  BY <1>5, EndsInv
<1>6. ASSUME NEW a \in Agents, Boots(a) \/ ContainerExits(a) \/ Removed(a)
      PROVE  Inv'
  BY <1>6, EngineInv
<1>7. ASSUME NEW a \in Agents, HandleExit(a)
      PROVE  Inv'
  BY <1>7, HandleExitInv
<1>8. ASSUME NEW a \in Agents, RestartAnswered(a) \/ RestartUnanswered(a)
      PROVE  Inv'
  BY <1>8, RestartChecksInv
<1>9. ASSUME NEW a \in Agents, StopContainer(a)
      PROVE  Inv'
  BY <1>9, StopContainerInv
<1>10. CASE UNCHANGED vars
  BY <1>10 DEF vars, processVars, managerVars, historyVars, Inv, TypeOK, StartsInOrder,
              RestartsAreCounted, UnseenStayDown, HandlesAreKept, NoExitIsForgotten
<1> QED
  BY <1>1, <1>2, <1>3, <1>4, <1>5, <1>6, <1>7, <1>8, <1>9, <1>10 DEF Next

-----------------------------------------------------------------------------
(* The theorems.                                                           *)

(***************************************************************************)
(* The inductive invariant holds throughout.                               *)
(***************************************************************************)
THEOREM Invariance == Spec => []Inv
<1>1. Inv /\ [Next]_vars => Inv'
  BY NextInv
<1> QED
  BY InitInv, <1>1, PTL DEF Spec

(***************************************************************************)
(* Every variable stays in its type, the manager's counters in range.      *)
(***************************************************************************)
THEOREM TypeCorrect == Spec => []TypeOK
<1>1. Inv => TypeOK
  BY DEF Inv
<1> QED
  BY Invariance, <1>1, PTL

(***************************************************************************)
(* manager.py: an agent's container is restarted once at most, however its *)
(* exits come between the waits for health.                                *)
(***************************************************************************)
THEOREM OneRestartAtMost == Spec => []RestartedOnce
<1>1. Inv => RestartedOnce
  <2> SUFFICES ASSUME Inv, NEW a \in Agents PROVE runs[a] <= 2
    BY DEF RestartedOnce
  <2>1. runs[a] \in Nat /\ attempts[a] \in 0..1 /\ runs[a] <= 1 + attempts[a]
    BY DEF Inv, TypeOK, RestartsAreCounted
  <2> QED
    BY <2>1
<1> QED
  BY Invariance, <1>1, PTL

(***************************************************************************)
(* handle_container_exit accounts for every exit of a running harness.     *)
(***************************************************************************)
THEOREM ExitsAreAccountedFor == Spec => []NoExitIsForgotten
<1>1. Inv => NoExitIsForgotten
  BY DEF Inv
<1> QED
  BY Invariance, <1>1, PTL

(***************************************************************************)
(* A process that ends by itself after startup, with a live poller, went   *)
(* through the whole of stop_all.                                          *)
(***************************************************************************)
LEMMA OnlyStopAllLeaves ==
  ASSUME Inv, Next, Leaves, harness \in {"running", "stopping"}, ~pollerDead
  PROVE  StopAllReturns
<1> USE DEF Leaves
<1>1. ~Kill
  BY DEF Kill, Inv, TypeOK
<1>2. ~(StartRaises \/ StartUnanswered \/ EndsEarly)
  BY DEF StartRaises, StartUnanswered, EndsEarly, Inv, StartsInOrder
<1>3. ~(Launch \/ ServerStarted \/ StartAgent \/ StartAnswered \/ PollerDies \/ Shutdown)
  BY DEF Launch, ServerStarted, StartAgent, StartAnswered, PollerDies, Shutdown
<1>4. \A a \in Agents :
        ~(\/ Boots(a) \/ ContainerExits(a) \/ Removed(a) \/ HandleExit(a)
          \/ RestartAnswered(a) \/ RestartUnanswered(a) \/ StopContainer(a))
  BY DEF Boots, ContainerExits, Removed, HandleExit, RestartAnswered, RestartUnanswered,
         StopContainer, processVars
<1> QED
  BY <1>1, <1>2, <1>3, <1>4 DEF Next

(***************************************************************************)
(* __main__.py's finally: what stop_all leaves behind is what the engine   *)
(* failed on, or an exited container whose agent was given up.             *)
(***************************************************************************)
THEOREM LeftoversHaveReasons == Spec => LeftoversAreExplained
<1> DEFINE Explained ==
      Leaves /\ harness \in {"running", "stopping"} /\ ~pollerDead =>
        \A a \in mine :
            \/ box[a] = "none"
            \/ a \in broken
            \/ a \in failed /\ box[a] = "exited"
<1>1. Inv /\ [Next]_vars => [Explained]_vars
  <2> SUFFICES ASSUME Inv, Next, Leaves, harness \in {"running", "stopping"}, ~pollerDead
               PROVE  \A a \in mine :
                          \/ box[a] = "none"
                          \/ a \in broken
                          \/ a \in failed /\ box[a] = "exited"
    OBVIOUS
  <2>1. handles = {}
    BY OnlyStopAllLeaves DEF StopAllReturns
  <2> QED
    BY <2>1 DEF Inv, HandlesAreKept
<1> QED
  BY Invariance, <1>1, PTL DEF Spec, LeftoversAreExplained

=============================================================================
