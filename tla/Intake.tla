------------------------------- MODULE Intake -------------------------------
(***************************************************************************)
(* From an update of an issue on GitHub to a task in the queue: the poller *)
(* (night_brownie/poller.py), the poll state it keeps in the memory store  *)
(* (night_brownie/memory.py), the router's URLs                            *)
(* (night_brownie/routers/agent.py) and the startup order of               *)
(* night_brownie/__main__.py.                                              *)
(*                                                                         *)
(* poll_repo runs in a thread: GitHub, other polls and the clock move on   *)
(* from one page of its fetch to the next and on to its stamp, which is    *)
(* taken from a clock that may differ from GitHub's.  The events it returns*)
(* are dispatched one by one on the event loop, each dispatch awaiting its *)
(* nudge.  Only last_polled and the queue survive a crash.                 *)
(***************************************************************************)
EXTENDS Integers, FiniteSets, Functions

CONSTANTS
    Repos, Issues,
    RepoOf,          \* [Issues -> Repos]
    Collaborators,   \* the issues whose author is a collaborator of the repo
    Number,          \* [Issues -> Nat], their order within one second
    PageSize,        \* issues on a page of the listing
    Lag, Lead,       \* how far the harness's clock is behind or ahead of GitHub's
    StaticUrl,       \* whether the agent's URL stands in the configuration
    MaxConcurrent,   \* the poller's max_concurrent
    Never,           \* no poll recorded
    MaxTime, MaxVersion, MaxUpdates, MaxClosed, MaxFaults   \* bounds

ASSUME RepoOfType == RepoOf \in [Issues -> Repos]
ASSUME CollaboratorsType == Collaborators \subseteq Issues
ASSUME IssuesAreFinite == IsFiniteSet(Issues)
ASSUME NumberType == Number \in [Issues -> Nat]
ASSUME PageSizeIsPositive == PageSize \in Nat \ {0}
ASSUME SkewsAreNat == Lag \in Nat /\ Lead \in Nat
ASSUME StaticUrlType == StaticUrl \in BOOLEAN
ASSUME MaxConcurrentIsPositive == MaxConcurrent \in Nat \ {0}
ASSUME NeverIsNoTime == Never \notin Int
ASSUME BoundsAreNat ==
    /\ MaxTime \in Nat /\ MaxVersion \in Nat /\ MaxUpdates \in Nat
    /\ MaxClosed \in Nat /\ MaxFaults \in Nat

VARIABLES
    now,         \* GitHub's clock
    version,     \* [issue -> how often it was created or updated]
    updatedAt,   \* [issue -> time of its last update]
    open,        \* the open issues
    lastPolled,  \* [repo -> poll_state.last_polled, or Never]
    mode,        \* the poller task: "polling" a cycle, "sleeping" between two,
                 \* "dead" by an exception; "off": the harness is not running
    phase,       \* [repo -> where its _poll_one is; "idle": it has returned]
    attempt,     \* [repo -> the loop variable of _poll_with_backoff, 0 outside of it]
    offset,      \* [repo -> places of the listing requested since its fetch began]
    batch,       \* [repo -> the events poll_repo has read, not yet dispatched]
    handled,     \* open issues for whose latest version a task has been enqueued
    urlKnown,    \* Router.register_url has been called
    faults,
    unstamped,   \* repositories whose last stamp was undone
    excuse       \* [issue -> why the last update of it may be lost, or "none", as
                 \* always for collaborators' issues, which get no tasks]

pollerVars == <<mode, phase, attempt, offset, batch>>
githubVars == <<version, updatedAt, open>>
historyVars == <<unstamped, excuse>>
vars == <<now, githubVars, lastPolled, pollerVars, handled, urlKnown, faults,
          historyVars>>

(***************************************************************************)
(* An issue as it stood when it was read, and where in the listing its page*)
(* began: an issue that is pushed back is read twice.                      *)
(***************************************************************************)
Events == Issues \X (1..MaxVersion) \X Nat

Excuses == {"none", "late", "shifted", "outrun", "dropped"}

IssuesOf(r) == {i \in Issues : RepoOf[i] = r}

TypeOK ==
    /\ now \in 0..MaxTime
    /\ version \in [Issues -> 0..MaxVersion]
    /\ updatedAt \in [Issues -> 0..MaxTime]
    /\ open \subseteq Issues
    /\ lastPolled \in [Repos -> (-Lag)..(MaxTime + Lead) \cup {Never}]
    /\ mode \in {"polling", "sleeping", "dead", "off"}
    /\ phase \in [Repos -> {"idle", "waiting", "fetching", "stamping",
                            "dispatching", "backoff"}]
    /\ attempt \in [Repos -> 0..1]
    /\ offset \in [Repos -> Nat]
    /\ batch \in [Repos -> SUBSET Events]
    /\ handled \subseteq Issues
    /\ urlKnown \in BOOLEAN
    /\ faults \in 0..MaxFaults
    /\ unstamped \subseteq Repos
    /\ excuse \in [Issues -> Excuses]

Init ==
    /\ now = 0
    /\ version = [i \in Issues |-> 0]
    /\ updatedAt = [i \in Issues |-> 0]
    /\ open = {}
    /\ lastPolled = [r \in Repos |-> Never]
    /\ mode = "sleeping"
    /\ phase = [r \in Repos |-> "idle"]
    /\ attempt = [r \in Repos |-> 0]
    /\ offset = [r \in Repos |-> 0]
    /\ batch = [r \in Repos |-> {}]
    /\ handled = {}
    /\ urlKnown = FALSE
    /\ faults = 0
    /\ unstamped = {}
    /\ excuse = [i \in Issues |-> "none"]

-----------------------------------------------------------------------------
(* GitHub and time.                                                        *)

Tick ==
    /\ now < MaxTime
    /\ now' = now + 1
    /\ UNCHANGED <<githubVars, lastPolled, pollerVars, handled, urlKnown, faults, historyVars>>

(***************************************************************************)
(* get_issues(state="open", since=last_polled, sort by updated, newest     *)
(* first): the open issues updated at or after that second, all of them if *)
(* there is none.                                                          *)
(***************************************************************************)
UpdatedSince(i) ==
    lastPolled[RepoOf[i]] = Never \/ updatedAt[i] >= lastPolled[RepoOf[i]]

Listing(r) == {i \in IssuesOf(r) \cap open : UpdatedSince(i)}

Precedes(j, i) ==
    \/ updatedAt[j] > updatedAt[i]
    \/ updatedAt[j] = updatedAt[i] /\ Number[j] > Number[i]

Rank(i) == Cardinality({j \in Listing(RepoOf[i]) : Precedes(j, i)})

IsLatest(i, e) == e[1] = i /\ e[2] = version[i]

(***************************************************************************)
(* The latest version of the issue has been read by the poll.              *)
(***************************************************************************)
IsRead(i) == \E e \in batch[RepoOf[i]] : IsLatest(i, e)

(***************************************************************************)
(* An issue is created, updated or reopened, MaxVersion times at most, all *)
(* issues together MaxUpdates times.                                       *)
(***************************************************************************)
Update(i) ==
    LET r == RepoOf[i] IN
    /\ version[i] < MaxVersion
    /\ FoldFunction(+, 0, version) < MaxUpdates
    /\ version' = [version EXCEPT ![i] = @ + 1]
    /\ updatedAt' = [updatedAt EXCEPT ![i] = now]
    /\ open' = open \cup {i}
    /\ handled' = handled \ {i}
    /\ excuse' = [excuse EXCEPT ![i] =
                     IF i \in Collaborators THEN "none"
                     ELSE IF offset[r] > 0 THEN "late"
                     ELSE IF lastPolled[r] # Never /\ now < lastPolled[r] THEN "outrun"
                     ELSE "none"]
    /\ UNCHANGED <<now, lastPolled, pollerVars, urlKnown, faults, unstamped>>

(***************************************************************************)
(* An issue is closed.  The issues behind it in the listing move up, and   *)
(* the first one of the page that is requested next is on no later page.   *)
(* MaxClosed issues are closed at a time.                                  *)
(***************************************************************************)
Close(i) ==
    LET r == RepoOf[i]
        shifted == {j \in Listing(r) \ Collaborators :
                       /\ phase[r] = "fetching" /\ ~IsRead(j)
                       /\ Precedes(i, j) /\ Rank(j) = offset[r]}
    IN
    /\ i \in open
    /\ Cardinality({j \in Issues : version[j] > 0} \ open) < MaxClosed
    /\ open' = open \ {i}
    /\ handled' = handled \ {i}
    /\ excuse' = [j \in Issues |-> IF j = i THEN "none"
                                   ELSE IF j \in shifted THEN "shifted" ELSE excuse[j]]
    /\ UNCHANGED <<now, version, updatedAt, lastPolled, pollerVars, urlKnown,
                   faults, unstamped>>

-----------------------------------------------------------------------------
(* The poll cycle.                                                         *)

(***************************************************************************)
(* run calls poll_all, which gathers one _poll_one for each repository.    *)
(***************************************************************************)
StartCycle ==
    /\ mode = "sleeping"
    /\ mode' = "polling"
    /\ phase' = [r \in Repos |-> "waiting"]
    /\ UNCHANGED <<now, githubVars, lastPolled, attempt, offset, batch, handled,
                   urlKnown, faults, historyVars>>

\* A faulty InSemaphore: a waiting poll holds its place already.
InCycle == {r \in Repos : phase[r] # "idle"}

InSemaphore == {r \in Repos : phase[r] \notin {"idle", "waiting"}}

Acquire(r) ==
    /\ phase[r] = "waiting"
    /\ Cardinality(InSemaphore) < MaxConcurrent
    /\ phase' = [phase EXCEPT ![r] = "fetching"]
    /\ UNCHANGED <<now, githubVars, lastPolled, mode, attempt, offset, batch, handled,
                   urlKnown, faults, historyVars>>

(***************************************************************************)
(* list(get_issues(...)) requests one page after the other, each from the  *)
(* listing as it is then.  Issues of collaborators are left out of what is *)
(* read, not of the pages.                                                 *)
(***************************************************************************)
FetchPage(r) ==
    LET next == offset[r] + PageSize
        read == {i \in Listing(r) : Rank(i) \in offset[r]..(next - 1)} \ Collaborators
    IN
    /\ phase[r] = "fetching"
    /\ offset' = [offset EXCEPT ![r] = next]
    /\ batch' = [batch EXCEPT ![r] = @ \cup {<<i, version[i], offset[r]>> : i \in read}]
    /\ phase' = [phase EXCEPT ![r] =
                    IF Cardinality(Listing(r)) > next THEN @ ELSE "stamping"]
    /\ excuse' = [i \in Issues |-> IF i \in read THEN "none" ELSE excuse[i]]
    /\ UNCHANGED <<now, githubVars, lastPolled, mode, attempt, handled, urlKnown,
                   faults, unstamped>>

(***************************************************************************)
(* A step of the poller, a call of it or the process fails.                *)
(***************************************************************************)
Fault == faults < MaxFaults /\ faults' = faults + 1

(***************************************************************************)
(* datetime.now on the harness.                                            *)
(***************************************************************************)
ClockReadings == (now - Lag)..(now + Lead)

StampedAt(r, time) ==
    /\ lastPolled' = [lastPolled EXCEPT ![r] = time]
    /\ unstamped' = unstamped \ {r}

\* A faulty Stamp: the time is rounded up.
StampAhead(r) ==
    /\ phase[r] = "stamping"
    /\ phase' = [phase EXCEPT ![r] = "dispatching"]
    /\ offset' = [offset EXCEPT ![r] = 0]
    /\ \E time \in ClockReadings : StampedAt(r, time + 1) /\ UNCHANGED faults
    /\ UNCHANGED <<now, githubVars, mode, attempt, batch, handled, urlKnown,
                   excuse>>

\* A faulty Stamp: INSERT OR IGNORE keeps the first stamp.
StampOnce(r) ==
    /\ phase[r] = "stamping"
    /\ phase' = [phase EXCEPT ![r] = "dispatching"]
    /\ offset' = [offset EXCEPT ![r] = 0]
    /\ IF lastPolled[r] = Never THEN \E time \in ClockReadings : StampedAt(r, time)
                                ELSE UNCHANGED <<lastPolled, unstamped>>
    /\ UNCHANGED <<now, githubVars, mode, attempt, batch, handled, urlKnown,
                   faults, excuse>>

\* A faulty Stamp: an UPDATE that does not name the repository.
StampAll(r) ==
    /\ phase[r] = "stamping"
    /\ phase' = [phase EXCEPT ![r] = "dispatching"]
    /\ offset' = [offset EXCEPT ![r] = 0]
    /\ \E time \in ClockReadings : lastPolled' = [s \in Repos |-> time]
    /\ UNCHANGED <<now, githubVars, mode, attempt, batch, handled, urlKnown,
                   faults, historyVars>>

(***************************************************************************)
(* set_last_polled(now), before any of the events is dispatched.  The write*)
(* may be undone by the fault of another thread (see SharedConnection); the*)
(* call returns all the same.                                              *)
(***************************************************************************)
Stamp(r) ==
    /\ phase[r] = "stamping"
    /\ phase' = [phase EXCEPT ![r] = "dispatching"]
    /\ offset' = [offset EXCEPT ![r] = 0]
    /\ \/ \E time \in ClockReadings : StampedAt(r, time) /\ UNCHANGED faults
       \/ unstamped' = unstamped \cup {r} /\ Fault /\ UNCHANGED lastPolled
    /\ UNCHANGED <<now, githubVars, mode, attempt, batch, handled, urlKnown,
                   excuse>>

(***************************************************************************)
(* Router.route finds no URL before the agent's container has been started *)
(* and registered, unless the configuration has one.                       *)
(***************************************************************************)
IsRoutable == urlKnown \/ StaticUrl

(***************************************************************************)
(* Events are let go; that matters if nothing has happened to their issue  *)
(* since it was read.                                                      *)
(***************************************************************************)
Dropped(events) ==
    [i \in Issues |-> IF i \in open /\ \E e \in events : IsLatest(i, e) THEN "dropped" ELSE excuse[i]]

(***************************************************************************)
(* on_event for one event: a task is enqueued, or the event is let go.     *)
(***************************************************************************)
DispatchEvent(r, e) ==
    /\ phase[r] = "dispatching"
    /\ e \in batch[r]
    /\ batch' = [batch EXCEPT ![r] = @ \ {e}]
    /\ IF IsRoutable
       THEN /\ handled' = handled \cup {i \in open : IsLatest(i, e)}
            /\ UNCHANGED excuse
       ELSE /\ excuse' = Dropped({e})
            /\ UNCHANGED handled
    /\ UNCHANGED <<now, githubVars, lastPolled, mode, phase, attempt, offset,
                   urlKnown, faults, unstamped>>

(***************************************************************************)
(* All events are dispatched: _poll_one releases the semaphore.            *)
(***************************************************************************)
PollReturns(r) ==
    /\ phase[r] = "dispatching"
    /\ batch[r] = {}
    /\ phase' = [phase EXCEPT ![r] = "idle"]
    /\ attempt' = [attempt EXCEPT ![r] = 0]
    /\ UNCHANGED <<now, githubVars, lastPolled, mode, offset, batch,
                   handled, urlKnown, faults, historyVars>>

EndCycle ==
    /\ mode = "polling"
    /\ \A r \in Repos : phase[r] = "idle"
    /\ mode' = "sleeping"
    /\ UNCHANGED <<now, githubVars, lastPolled, phase, attempt, offset, batch,
                   handled, urlKnown, faults, historyVars>>

-----------------------------------------------------------------------------
(* Failures.                                                               *)

(***************************************************************************)
(* poll_repo raises: what it has read so far is gone.                      *)
(***************************************************************************)
LeaveFetch(r, where) ==
    /\ phase' = [phase EXCEPT ![r] = where]
    /\ attempt' = [attempt EXCEPT ![r] = 0]
    /\ offset' = [offset EXCEPT ![r] = 0]
    /\ batch' = [batch EXCEPT ![r] = {}]

(***************************************************************************)
(* 403 or 429, on whichever page: one more attempt after a pause, inside   *)
(* the semaphore.  If the limit persists then (it need not count as another*)
(* fault), the repository is left for this cycle.                          *)
(***************************************************************************)
RateLimited(r) ==
    /\ phase[r] = "fetching"
    /\ \/ attempt[r] = 0 /\ Fault /\ LeaveFetch(r, "backoff")
       \/ attempt[r] = 1 /\ LeaveFetch(r, "idle") /\ UNCHANGED faults
    /\ UNCHANGED <<now, githubVars, lastPolled, mode, handled, urlKnown,
                   historyVars>>

BackoffEnds(r) ==
    /\ phase[r] = "backoff"
    /\ phase' = [phase EXCEPT ![r] = "fetching"]
    /\ attempt' = [attempt EXCEPT ![r] = 1]
    /\ UNCHANGED <<now, githubVars, lastPolled, mode, offset, batch, handled,
                   urlKnown, faults, historyVars>>

(***************************************************************************)
(* Any other GithubException: the repository is left for this cycle.       *)
(***************************************************************************)
ApiFails(r) ==
    /\ phase[r] = "fetching"
    /\ Fault
    /\ LeaveFetch(r, "idle")
    /\ UNCHANGED <<now, githubVars, lastPolled, mode, handled, urlKnown,
                   historyVars>>

(***************************************************************************)
(* What is lost with the batch of a poll that ends now: the next poll would*)
(* fetch it again if the stamp were not there yet.                         *)
(***************************************************************************)
LostWith(r) == IF phase[r] = "dispatching" THEN batch[r] ELSE {}

(***************************************************************************)
(* An exception of another kind (the connection, SQLite): gather raises it,*)
(* run ends with it, and _on_poller_done logs it.  The _poll_one of other  *)
(* repositories go on to their end.  set_last_polled may raise though its  *)
(* stamp is committed (see SharedConnection).                              *)
(***************************************************************************)
PollRaises(r) ==
    /\ phase[r] \in {"fetching", "stamping", "dispatching"}
    /\ Fault
    /\ LeaveFetch(r, "idle")
    /\ mode' = "dead"
    /\ \/ /\ excuse' = Dropped(LostWith(r))
          /\ UNCHANGED <<lastPolled, unstamped>>
       \/ /\ phase[r] = "stamping"
          /\ \E time \in ClockReadings : StampedAt(r, time)
          /\ excuse' = Dropped(batch[r])
    /\ UNCHANGED <<now, githubVars, handled, urlKnown>>

Crash ==
    /\ mode # "off"
    /\ Fault
    /\ mode' = "off"
    /\ phase' = [r \in Repos |-> "idle"]
    /\ attempt' = [r \in Repos |-> 0]
    /\ offset' = [r \in Repos |-> 0]
    /\ batch' = [r \in Repos |-> {}]
    /\ excuse' = Dropped(UNION {LostWith(r) : r \in Repos})
    /\ urlKnown' = FALSE
    /\ UNCHANGED <<now, githubVars, lastPolled, handled, unstamped>>

(***************************************************************************)
(* _run_loop creates the poller task first ...                             *)
(***************************************************************************)
Restart ==
    /\ mode = "off"
    /\ mode' = "sleeping"
    /\ UNCHANGED <<now, githubVars, lastPolled, phase, attempt, offset, batch,
                   handled, urlKnown, faults, historyVars>>

(***************************************************************************)
(* ... then waits for the server, starts the containers, waits for their   *)
(* health and registers their URLs.                                        *)
(***************************************************************************)
RegisterUrl ==
    /\ mode # "off"
    /\ ~urlKnown
    /\ urlKnown' = TRUE
    /\ UNCHANGED <<now, githubVars, lastPolled, pollerVars, handled, faults,
                   historyVars>>

PollStep(r) ==
    \/ Acquire(r) \/ FetchPage(r) \/ Stamp(r) \/ PollReturns(r) \/ BackoffEnds(r)
    \/ \E e \in batch[r] : DispatchEvent(r, e)

Next ==
    \/ Tick
    \/ \E i \in Issues : Update(i) \/ Close(i)
    \/ StartCycle \/ EndCycle
    \/ \E r \in Repos : PollStep(r) \/ RateLimited(r) \/ ApiFails(r) \/ PollRaises(r)
    \/ Crash \/ Restart \/ RegisterUrl

Spec == Init /\ [][Next]_vars

(***************************************************************************)
(* Threads and coroutines of the poller get on, and a repository that      *)
(* waits for the semaphore gets its turn: it is handed over in FIFO order. *)
(***************************************************************************)
FairSpec ==
    /\ Spec
    /\ WF_vars(StartCycle) /\ WF_vars(EndCycle) /\ WF_vars(Restart)
    /\ \A r \in Repos : SF_vars(PollStep(r))

-----------------------------------------------------------------------------
(***************************************************************************)
(* The latest version of the issue has its task, is about to get it, or    *)
(* will be fetched by the next poll of its repository.                     *)
(***************************************************************************)
IsCovered(i) ==
    \/ i \in handled
    \/ phase[RepoOf[i]] = "dispatching" /\ IsRead(i)
    \/ UpdatedSince(i)

Concerns(i) == i \in open \ Collaborators

(***************************************************************************)
(* The four ways to lose an update of an open issue, and no other:         *)
(*   late     it came after the first page of a fetch was requested and    *)
(*            before the poll's stamp, and was not seen on a later page;   *)
(*   shifted  the issue was the first of the next page when another one    *)
(*            before it in the listing was closed;                         *)
(*   outrun   it came when GitHub's clock had not reached the last stamp;  *)
(*   dropped  its event was in a batch when the process or the poller died,*)
(*            or there was no URL to send it to.                           *)
(* Rate limits, a fetch that fails between two pages, a stamp that is      *)
(* undone, a harness clock that is behind and the polls of other           *)
(* repositories lose none.                                                 *)
(***************************************************************************)
LossIsExplained ==
    \A i \in Issues : Concerns(i) => IsCovered(i) \/ excuse[i] # "none"

(***************************************************************************)
(* An update that has its task already is fetched again by a later poll,   *)
(* and gets a second one, only in the seconds by which the harness's clock *)
(* is behind: in the very second of the stamp if it is not.  This holds    *)
(* however often the repository is polled and whatever fails in between,   *)
(* unless the last stamp was undone.                                       *)
(***************************************************************************)
RefetchedOnlyAtStamp ==
    [][\A i \in Issues :
          LET r == RepoOf[i] IN
          /\ \E e \in batch'[r] \ batch[r] : IsLatest(i, e)
          /\ i \in handled
          => r \in unstamped \/ updatedAt[i] - lastPolled[r] \in 0..Lag]_vars

(***************************************************************************)
(* Polling goes on: unless the poller has died, every repository comes to  *)
(* the end of a poll again and again, whatever the others do with the      *)
(* semaphore.                                                              *)
(***************************************************************************)
PollingGoesOn ==
    \A r \in Repos : []<>(phase[r] = "dispatching" \/ mode = "dead") /\ []<>(phase[r] = "idle")

(***************************************************************************)
(* SPEC.md: "GitHub events are never silently dropped - even when agents   *)
(* are temporarily unavailable".  Every update has its task or is still    *)
(* to be fetched.                                                          *)
(***************************************************************************)
EventsAreNotDropped == \A i \in Issues : Concerns(i) => IsCovered(i)

=============================================================================
