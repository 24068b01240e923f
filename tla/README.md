# Night Brownie: TLA+ specifications

Night Brownie watches GitHub repositories, hands issue events as tasks to agents
over HTTP, and carries out the decisions they return. Its promise is about a
long way with many stops: a poller, a durable queue, agents that come and go,
a drain loop that talks to GitHub. This directory models that way in TLA+, checks
it with TLC on small instances, and proves with TLAPS, for every instance, all of the
safety that those runs check. Paths below are relative to the repository.

## 1. The system

| Component | Code | State | Operations |
|---|---|---|---|
| Task queue | `night_brownie/queue.py` | SQLite table `task_queue`: status, agent URL, timestamps, retry count, result | `enqueue`, `claim_next`, `heartbeat`, `complete`, `drain_completed`, `mark_done`, `requeue_stale`, `fail_exhausted` |
| Dispatcher | `server.py` `Dispatcher` | none of its own | enqueue a task, then nudge its agent once |
| Drain loop, executor | `server.py` `_drain_loop`, `executor.py` | `drain_event`; the pairs of a cycle | log the decision, call GitHub, write the summary, mark the task done |
| Requeue loop | `server.py` `_requeue_loop` | none of its own | expire stale claims, fail exhausted tasks |
| Memory store | `memory.py` | SQLite tables `action_log`, `memory_summary`, `poll_state` | append, upsert, read |
| Queue endpoints | `routers/queue.py`, `routers/result.py` | none of their own | `/queue/next`, `/queue/complete`, `/queue/heartbeat`, `/harness/result` |
| Router | `routers/agent.py` | runtime URL of each agent type | `register_url`, `route` |
| Poller | `poller.py` | asyncio task, semaphore, one thread for each poll | fetch, stamp, dispatch; back off at rate limits |
| Startup, shutdown | `__main__.py` | the tasks it creates | poller, then server, then containers, then their URLs |
| Client library | `night-brownie-client` | none | `next_task`, `complete_task`, `heartbeat` |
| Triage agent | `agents/issue-triage` | a process: startup loop, then server with background tasks | claim, triage (an LLM call), complete |
| Triage logic | `prompts/triage.py` | none | duplicate-comment guard, parsing, `allow_close` filter |
| Container manager, backends | `containers/` | handles, restart counts, failed set; the engine's containers | start and wait for health, restart once, stop all |
| Configuration, credentials, protocol models, LLM wrappers, logging, tracing, health | the rest | none that changes | |

**How they interact.** The harness is one process with one event loop; only the
polls run in threads. Endpoints, dispatcher, drain loop and requeue loop call the
queue and the memory store directly, without awaiting. Agents are other processes
and only talk HTTP: the harness nudges them at `/task`, they ask for work at
`/queue/next`, report at `/queue/complete`, then wake the drain loop at
`/harness/result`. What survives a crash of the harness is the two databases and
GitHub itself.

**What is hard.** A claim can expire under a worker that is still busy, which
later reports as if nothing had happened. Nudges are sent once and not repeated,
and an agent asks once per nudge. Nothing is atomic between GitHub and the
databases. A poll's window is closed before its events are in the queue. Each
process can die between any two steps. `PROJECT.json` lists these hazards one by
one, at their lines, with the property that covers each.

**What makes each part correct.**

- Queue: the retry counter is exact, every claim can end, leases are not cut
  short, nobody is overtaken; two who claim at once do not get the same task, and no
  transaction is left open.
- Memory store: what a call wrote is on disk when it returns, whatever the other
  threads on its connection did meanwhile, unless SQLite itself took it back.
- Triage and routing: the bot does not repeat itself once it knows of its comment; it
  closes only where it may; no agent that is configured is out of reach.
- Drain loop: done means carried out and logged; trouble stays with its own task, and
  only trouble makes a completion wait; every accepted decision is carried out in the end.
- Delivery: two workers have one task only after an expiry; hand-outs are bounded;
  a waiting task at a listening agent has an explanation; claims end.
- Intake: updates are lost in four known ways only; none is fetched again needlessly;
  polling goes on.
- Containers: one restart at most; no exit is forgotten; what a shutdown leaves
  running has a reason; startup and shutdown end.

## 2. The modules

```
TaskLifecycle            what the queue promises, without clock and order
   |-- TaskQueue         the table with its timestamps, on the lifecycle's actions
   |-- ClaimProtocol     claim_next by statements; implements TaskLifecycle
   |-- DrainLoop         completion -> GitHub, on the lifecycle's actions
   |-- Delivery          nudge -> claim -> completion, on the lifecycle's actions
   `-- Triage            event -> agent's decision -> summary, on the lifecycle's actions
          `-- Routing    which agent, which URL: operators on the configuration
SharedConnection         MemoryStore's statements and commits on one connection
Intake                   issue update -> poll -> task
Containers               process start -> agents' containers -> shutdown
```

Each `MC*` module instantiates one of them for TLC, and each has its theorems in a
`*Proofs` module that extends it (`TriageProofs` has those of `Routing`). An operator whose comment says
"A faulty ..." is the definition below it with a plausible mistake; no
specification uses it, it exists to show that a property notices that mistake
(`PROJECT.json`, "mutants").

**TaskLifecycle** has the columns `status`, `agentUrl`, `retryCount`, `result`
and the ghost `attempts` (how often `claim_next` returned the task). `Submit`,
`HandOut`, `Decide`, `Close`, `Expire`, `GiveUp` are `enqueue`, `claim_next`,
`complete`, `mark_done`, `requeue_stale`, `fail_exhausted`. Which claims expire is
free. `Decide` is possible in *every* status: the UPDATE in `complete` names the
task only. Its guard `attempts > 0` says who calls it: a task id is known to
those that were handed the task.

**TaskQueue** adds `created_at`, `claimed_at`, `last_heartbeat` and the clock.
Each method is one step: all callers are coroutines of one event loop, no method
awaits, each commits once (and where they are not, `ClaimProtocol` says why it does not
matter). The ghost `touched` is when a worker last did
something for the task, whatever became of the row.

**ClaimProtocol** has what `claim_next` promises beyond the way the harness uses it:
*"concurrent callers - whether in the same process or different ones - cannot
double-claim the same task"*. Each process has one connection and one `lock`; a caller
goes through lock, `BEGIN IMMEDIATE`, SELECT, UPDATE, COMMIT or ROLLBACK, and parsing.
`writer` is the connection that holds SQLite's write lock, `dirty` the uncommitted row
of each connection, `table` what is committed. A BEGIN that meets another's transaction
waits or raises (`BeginRaises`); any statement may fail, after which SQLite may have rolled
the transaction back by itself; then the ROLLBACK on the way out raises as well, and like one
that succeeds leaves no transaction (`Rollback`); a process may die. The other methods are
one autocommitted statement each (`OtherCall`); they can run when no thread of their own
process is inside `claim_next` and no other connection is writing. The instance `L` reads
the lifecycle off the committed rows: the COMMIT is `HandOut`, all else in `claim_next`
is a stutter.

**SharedConnection** has the writes of `MemoryStore` as Python's `sqlite3` makes them in its
default mode: `execute` looks whether a transaction is open, begins one if not, runs the
statement; `commit` looks again. Each is a step, since the module releases the GIL in
each. `view` is what the connection sees, `durable` what is on disk, both as sets of
writes. `StartCycle` is a gather of `poll_all`: an exception in a poll thread ends the poller,
but not the other polls of its gather; one on the event loop is logged (`EndsPolling`).
A call that fails (`Fails`, and `ReadFails` for the reads) leaves the transaction open, as
after a lock of another process, or has it rolled back by SQLite (`RolledBack`), as on a full
disk or an I/O error: then what *other* threads had written in it is gone too, and their
`commit` finds no transaction and returns. `undone` remembers those writes. The modules that
build on the store take that into account: a write may return and be undone
(`Stamp` in `Intake`, `LogAction` and `UpsertSummary` in `DrainLoop`, `UpsertSummary` in
`Triage`).

**Routing** and **Triage**: `Route` and `AgentSpecs` are `Router.route` and
`_collect_agent_images` on a configuration, a sequence of sequences of assignments as in
the YAML. In `Triage` a task carries the `place` of the assignment it was routed by and
`told`, the summary at the time of its dispatch. `RunTriage` is the guard, the LLM call
(any of `Replies`), the parsing and the `allow_close` filter; what a decision is here is
whether it comments, whether it closes, and whether its rationale has one of the
guard's keywords. The drain loop is cut down to what the summary needs; `DrainLoop` has it
in full. `unaware` is a ghost: the tasks that were dispatched before the keyword came.

**DrainLoop** cuts the drain cycle at every commit and GitHub call (`Wake`, `Read`, `Pick`,
`LogAction`, `Act`, `UpsertSummary`, `MarkDone`), because a crash can come between
any two and a call can fail at any (`DrainFails`, `PairFails`, the latter with or without
its effect on GitHub; `SweepFails` for `fail_exhausted`). `Wake` clears the event, `Read`
reads the completed rows. Endpoints run only between cycles (`LoopIsFree`), as in the code, whose
loop body does not await. `batch` is what `drain_completed` returned; labels and
comments are what GitHub ends up with. A worker sends at most one completion per
hand-out (`answers[t] < attempts[t]`), as the client library does, at any later time.
The ghosts: `disturbed` are the tasks that trouble of their own may have executed twice,
`stalled` those whose cycle failed or died after their last completion, `undone` the
records and summaries that SQLite took back.

**Delivery** has the agent process (`draining` -> `binding` -> `serving`, or `down`),
its workers (the startup loop is one, each background task is one) and the nudges
on their way. A nudge reaches an agent that listens, is refused by one that does not, or
times out at one that does (`NudgeFails`). `ServeTask` and `ServeComplete` include the loss
of the answer after the commit. An exception ends a background task, but the whole agent
when it is in the startup loop. A round of the requeue loop is two calls (`Sweep`,
`EndSweep`); the second may raise after the first has committed (`SweepFails`), or the
process may end between them: `tornSweeps` counts both. `owed` is a ghost: wake-ups lost
since the agent's queue was last empty. There is no clock: any claim may expire at any time,
which includes every case that `TaskQueue` with heartbeats allows.

**Intake** has the issues of each repository with the time of their last update, the
poll of each repository with its semaphore and its one retry, `last_polled`, and
whether the router knows the agent's URL. `list(get_issues(...))` is one request for each
page (`FetchPage`), from the listing as GitHub has it at that moment, newest first and,
within one second, in a fixed order (`Number`); PyGithub follows the link to the next page as
long as there is one. An issue that is updated or closed between two requests moves the
others: what is pushed back is read twice (`Events` has the page, so it is dispatched
twice), what moves up may be missed. The stamp is the harness's clock, up to `Lag` behind
and `Lead` ahead of GitHub's (`ClockReadings`); a difference may also change
between two polls. `FetchPage`, `Stamp` and `DispatchEvent` are separate: they run in a thread,
in that thread, and on the event loop. `handled` is a ghost, the open issues whose
latest version has been given a task; `excuse` says what befell the last update of an issue,
`unstamped` whose stamp was undone. Who is a collaborator does not change.

**Containers** has the process (`down` -> `binding` -> `starting` -> `running` ->
`stopping`), what its container manager knows, which is lost with the process, and
`box`: what the engine has under each agent's name, which is not. `StartAgent` and
`Restart` reach up to the first await; each health check is a step
(`StartAnswered`, `StartUnanswered`, `RestartAnswered`, `RestartUnanswered`), so that exits
and calls of `handle_container_exit` fall between them. `StopContainer` is one round of
`stop_all`; nothing of the event loop runs between two rounds, but the engine may fail
and the process may be killed. `RunRaises` is every way an engine call can raise,
first of all that the name is taken: no code removes a container that exited.
`mine`, `runs` and `broken` are ghosts of one life of the process. Nothing in
`night_brownie` calls `handle_container_exit` yet (tests do, and
docs/specs/01-agent-harness/plan.md:481 promises it), hence the constant
`Monitored`: TRUE gives it a caller who calls once for each exit, at any later time.

## 3. The runs

| Run (`.cfg`) | Question | Instance | Result |
|---|---|---|---|
| `MCTaskQueue` | Is the table right under every order of calls? | 2 tasks, 2 agents, 4 ticks, timeout 1, 1 retry | holds, 49 310 states |
| `MCClaimProtocol` | May `claim_next` be taken as one step, by threads and processes? | 3 callers in 2 processes, 2 tasks, no retry, 1 fault, 1 crash | holds, 196 580 states |
| `MCDrainLoop` | Does done mean done, with failures, who waits, and is every decision carried out? | 2 tasks of one issue, a normal and a poisoned decision, 1 retry, 1 fault, 1 crash | holds, 775 269 states |
| `MCDrainLoopClose` | Does `allow_close` close? | 1 task, no retry, no fault, no crash | violated |
| `MCDelivery` | Who holds what, why does a task wait, do claims end, does startup take the backlog? | 2 tasks, 1 agent with 2 workers, 1 retry, 1 crash of either side, 1 other failure | holds, 191 274 states |
| `MCTriage` | Does the guard hold, who may close, is every agent in reach? | 2 tasks, 2 repositories, 3 configurations, 5 kinds of reply, 1 retry, 1 fault or crash | holds, 566 017 states |
| `MCSharedConnection` | Is what was written on disk? | 2 poll threads and the event loop, 2 writes each, 1 fault, 1 crash | holds, 821 762 states |
| `MCSharedConnectionPoller` | Does polling survive its own threads? | the same, 1 write each, no fault, no crash | violated |
| `MCIntake` | How can an update get lost, and does polling go on? | 2 repositories, semaphore of 1, 2 issues (one a collaborator's), pages of 1, clock off by 1 either way, 2 updates, 2 times, 1 issue closed at a time, 1 fault or crash | holds, 317 534 states |
| `MCIntakeDropped` | Are events never dropped? | 1 repository, 1 issue, one clock, no fault, no crash | violated |
| `MCContainers` | Restarts, exits and leftovers | 2 agents, 2 health checks, 3 lives, 3 exits, 2 engine faults, 1 kill, `Monitored` | holds, 147 650 states |
| `MCContainersStop` | Does a shutdown stop the containers? | 2 agents, no exit, fault or kill, not `Monitored` | violated |

**Bounds.** Two tasks are enough for one to overtake, hold up or be mistaken for
another; two workers are enough for one to outlive its claim. Four ticks with a
timeout of one let a task be claimed, expire, be claimed again and expire again
under a first worker that still sends heartbeats. A third caller in
`MCClaimProtocol` puts two threads of one process beside one of another; both tasks can
still be claimed, expire and fail without a retry, whose accounting is `MCTaskQueue`'s
affair. In `MCSharedConnection` a second write of the same thread can meet what the first
left behind. The three configurations of `MCTriage` are one container for two repositories,
an agent whose image only another repository names, and listed event types. One crash is enough for each torn pair of
commits, and the crash can come at each of them. In `MCIntake` two clock values
put an update in the second of a stamp and before it; two updates let a second
one of the same issue meet the poll of the first; the second repository has no issues,
its polls compete for the semaphore and must not touch the stamp of the first; with pages
of one, two issues are two pages, and closing the first between them hides the second;
a clock one second off puts a stamp before and after an update of the same second; a rate
limit that persists is one fault, so a poll can give up at it. In `MCContainers` two agents are a first
that is up while the second starts; three exits are one more than an agent's two
containers have; in three lives one is killed, one meets what that left behind, one
starts after it was removed; the 30 health checks are two, one that is followed by
another and one that is not. Faults, crashes, losses and the clock are bounded in the guards of
their actions, under the names `Max...`; comments are counted up to `MaxSeen`. Symmetry
is used in `MCTaskQueue` and `MCTriage`, which have no liveness. Deadlock is checked
in `ClaimProtocol`, `DrainLoop` and `Delivery`. It is off in `TaskQueue`, which ends when the
clock bound is reached, in `SharedConnection` and `Triage`, which end when all writes are
made and all tasks are through, in `Intake`, where a dead poller is dead, and in `Containers`, where the process
may be down for good: nothing restarts them.

**What the violated runs show.** Each one checks what the repository says of itself:

1. *`close_issue` is skipped "unless the agent's configuration includes
   `allow_close: true`"* (agent-protocol.md:167). It is skipped always: the drain
   loop does not pass the setting on. (`CloseIsPermitted` in `Triage` is the half that
   holds: no decision closes without leave.)
2. *"Poll all repos in a continuous loop at \*interval_seconds\* frequency"*
   (`poller.py:206`). A poll thread that stamps shares one `sqlite3` connection with the
   event loop and with the other polls. If two of them look before either begins, the second
   BEGIN raises `OperationalError`; if one commits the other's statement, the other's COMMIT
   raises. Neither is a `GithubException`, so if it comes in a poll thread the poller ends,
   with a line in the log. (TLC's trace has the event loop as the other one; two polls
   do as well.) `RaisesAreOverlaps` is what is true, and `ReturnedIsDurable`: no
   write that returned is lost by it.
3. *"GitHub events are never silently dropped"* (docs/specs/02-messaging-update/SPEC.md:11).
   They are between `get_issues` and the stamp, and before the first URL is registered,
   without any fault. `LossIsExplained` is what is true; it adds the pages that shift, a
   harness clock that is ahead, and crashes.
4. *"On shutdown (SIGINT/SIGTERM), the poller task is cancelled cleanly and any managed
   containers are stopped"* (`__main__.py:291`). Not if the poller has died before: the
   `finally` awaits it, which raises what it died of, and `stop_all` is not reached.
   `LeftoversAreExplained` is what is true. Three further gaps are in the model without a
   run of their own: every way out of startup skips the `finally`; an agent that is given
   up leaves its exited container, whose name makes the next start fail; and a restart is
   refused by the engine unless someone has removed the exited container
   (the last disjunct of `NoExitIsForgotten`).

**Disagreements without a run of their own.** Each is in a model as the code has it, and
a property says what is true instead:

- `log_action` *"Append[s] a decision record"* (`memory.py:80`), and a stamp is *"Persist[ed]"*
  (`memory.py:159`). When SQLite rolls a transaction back because of an error in one thread,
  the writes of another thread that were in it are gone, and its call returns as
  if nothing had happened (`ReturnedIsDurable`, `undone`).
- *"Other `github.GithubException` errors are re-raised"* (`poller.py:127`, and `:154`). They
  are logged, and the repository is skipped for this cycle (`ApiFails`).
- *"the drain loop will retry"* a failed nudge (`server.py:67`). It does not; a task whose
  nudge was refused stays pending at a serving, idle agent until some later nudge or a
  restart (`BacklogIsExplained`).
- *"executor checks `action_log` before executing"* (docs/specs/02-messaging-update/SPEC.md:50,
  docs/howtos/write-an-agent.md:125). It does not, and `action_log` has no task id: a
  task completed twice comments twice (`RepeatsAreExplained`). Nor does anything make
  the actions of one decision distinct: one that lists two comments posts both.
- The status diagram of docs/specs/02-messaging-update/SPEC.md:92 has no edge out of `failed`
  and `done`. `complete` has (`Decide` in every status).
- *"if a comment was posted in the last 24 hours (from memory), action is `skip`"*
  (docs/specs/01-agent-harness/plan.md:540). The guard knows the rationale of the last
  decision that was executed when the task was dispatched. Two tasks of an issue that are
  dispatched close together both comment, and so does one whose predecessor's rationale
  has no keyword; once there is a keyword, the guard's own rationale keeps it there, and the
  bot is silent for good, not for 24 hours (`GuardHolds`).
- `parse_llm_response` *"returns a `skip` decision on any parse failure"* (`triage.py:72`).
  JSON of the wrong shape raises (`TriageRaises`).
- `dispatch` merges the agent's configuration over the issue's fields, so a configuration
  key `labels`, which the example has, hides the issue's labels from the agent; and the prompt reads
  `author` and `issue_number`, which the poller does not set. Data, not in the models.

**Fairness.** In `DrainLoop`: asyncio runs ready coroutines in turn, so the drain loop
wakes when its timeout has passed even though other handlers keep taking the loop
(strong fairness of `Wake`); a cycle and a sweep run to their end; someone restarts
the process. Nothing is assumed of agents. In `Delivery`: requests are served and the
requeue loop runs, again against handlers that take the loop (strong fairness);
triage returns or raises; nudges reach an agent that listens; abandoned claims expire;
the harness is restarted, agents need not be. In `ClaimProtocol`: a thread that wants the lock
or the write transaction again and again gets it (strong fairness of `Acquire` and `Begin`:
SQLite's busy timeout of five seconds is long against the other's statements) and gets
on with what it is at; nothing says that anyone calls. `SharedConnection` and `Triage` have
safety only. In `Intake`: the poller's threads and
coroutines get on; a waiting repository gets the semaphore (asyncio's is FIFO, hence
strong fairness). Faults and crashes are never forced.
In `Containers`: the event loop gets on with the step it is at; nothing is assumed of
the agents, the engine, or whoever starts, ends and monitors the process.

## 4. The proofs

Eight modules prove, for every value of the constants, what the runs check on small
instances: every safety invariant, every action property and the refinement of a
passing run is a theorem (`PROJECT.json`, "theorems"). Each module has the same shape.
`Inv` is an inductive invariant, whose parts are named; `InitInv`, one lemma for each
action, and `NextInv`, which joins them, lead to `Invariance`; the theorems follow from
it. Each `Inv` was checked by TLC on the instance of section 3 before it was proved.
The parts that the properties themselves do not supply are what is worth reading:

**TaskQueueProofs.** `RowsAreCoherent`: a row that exists has a `created_at` not in the
future, a row never handed out has no `touched`, and heartbeat and claim of a claimed row
are never later than `touched`. This makes `LeaseRespected` go through:
`requeue_stale` looks at the columns, the property at what workers did, and only their
relation connects the two. `FirstClaimsInOrder` needs `createdAt <= now`, so that a new
row is younger than every claimed one. `CompletedHasResult` is proved only.

**ClaimProtocolProofs.** `NeverClaimedTwice` counts: what was returned or is about to be
never exceeds the claims that were committed. A COMMIT adds to both sides, if the row
it claims is still the pending one that the SELECT found. That is `FoundStaysPending`, and
it holds because the write transaction keeps every other writer out, which is
`TransactionsAreHeld` with `LockDiscipline` (who is inside the `with`
has the lock of his own process). `RowsAreCoherent` bounds the claims by the expiries.

**DrainLoopProofs.** What a cycle holds between two of its steps. `CycleIsCurrent`: the
pairs read at its start are still the completed rows they were, because nobody else runs
and the loop closes the current one only. `ProgressIsReal`: the record was committed
before the first action, and all actions before `nextAction` are on GitHub. `MarkDone`
then makes `DoneMeansCarriedOut` true. `CompletedIsSeen` is `OnlyTroubleWaits` at every step
instead of when the loop sleeps: a completed row has the event set, is about to be read, is in
the batch, or was left behind by trouble. `CommentsArePostedOnce`: an undisturbed comment belongs
to a done task or to the cycle at work.

**SharedConnectionProofs.** `WritesAreAccountedFor`: what is durable is visible, outside a
transaction the two are the same, and a call past its statement sees its own write unless
SQLite has undone it, since no method rolls another thread's back. So whoever commits,
the write is durable or undone when its call returns. `LooksAreFresh` is for
`OnlyOverlapsRaise`: a thread that is alone finds at BEGIN and COMMIT what it saw.
`OpenIsAttended` is for `NothingIsLeftOpen`.

**DeliveryProofs.** Three counts. `AttemptsCounted`: between two expiries a task is handed
out once, and a row that can be claimed is below the limit but for torn sweeps, one
of which may be going on (`Torn`). `HoldersCounted`: every hand-out of a pending row finds
at most `retryCount` holders. `BacklogExplained`: each step changes the pending tasks by no more than it
changes the nudges, the asking workers and `owed` (`Balance`); that `owed` stops
counting at the number of tasks loses nothing, since no more can be pending
(`OwingCovers`). `StartupIsAlone`, the startup loop is the only worker of its agent,
and `WorkIsOfRows` support them.

**TriageProofs.** `GuardAnswers` and `OthersAreTold` carry the guard from end to end: whoever is
told of a keyword answers with the guard's skip; whoever is dispatched while there is one
is told of it. The routing lemmas (`RouteIsFirst`, `ContainersForTypes`, `UrlsAreAgents`)
hold for every configuration; "the first assignment that..." is a least element, which
`WFMin` gives for the order on the naturals (induction itself is not available).

**IntakeProofs.** The place of an issue in the listing is the number of issues before it
(`Rank`), and pages are ranges of places. `FetchesAreComplete`: during a fetch, an issue
that the stamp will put out of reach is read already or is at a place not yet requested,
unless something befell it (`excuse`); before the stamp it is read. Closing an issue
moves the others up by one place at most, an update of one moves others back: the lemmas on
`Rank` say so by counting. `DispatchedIsStamped`: what has its task was stamped no more than
`Lag` before its last update, which gives `RefetchesAreOfTheStampsSecond`. `UpdatesArePast`
and `BatchesBelongToPolls` support them.

**ContainersProofs.** `RestartsAreCounted` bounds the containers of an agent by the
restarts the manager counted, and `StartsInOrder` says that `start_agent` comes once to
each, so the count is never begun anew. `UnseenStayDown`: nothing takes an agent's
place before its exit is handled. `HandlesAreKept` is `LeftoversAreExplained` one step earlier: what
`stop_all` has no handle of is gone, or has a reason.

**Refinement.** `TaskLifecycle` is the abstract specification. `ClaimProtocol` implements it
by its committed rows (`ClaimsAreAtomic`): a claim taken apart into lock, BEGIN, SELECT,
UPDATE and COMMIT, with threads and processes between, is one step of the lifecycle.
`TaskQueue`, `DrainLoop`, `Delivery` and `Triage` use the lifecycle's actions themselves, so
for them there is nothing to show; what the refinement gives them is the right to take
`HandOut` as one step.

**Assumptions** are the named ones in the modules; TLC evaluates each in the runs. They
are of three kinds: types (functions and bounds are what the code's types are); finite
sets where something is counted (`CallersAreFinite`, `TasksAndWorkersAreFinite`: threads
and rows of a real system); and that the markers for "none" are not among the
values they stand beside (`NoneIsNoValue`, `NoneIsNobody`, `NoneIsNoPair`, `NoneIsNoTask`,
`NoneIsNoPlace`, `NothingIsNoValue`, `NeverIsNoTime`), as `None` of Python is not. The bounds
(`MaxFaults`, `MaxCrashes`, `MaxTime`...) are any natural numbers.

**What the proofs corrected.** `RepeatsAreExplained` once said that no undisturbed task comments
twice. The proof failed at a decision that lists two comments, of which `MCDrainLoop` has none; the
executor posts both. The property now names that case (`CommentsTwice`).

**Only model-checked** is liveness: `AskingHelps` (`ClaimProtocol`), `DecisionsAreCarriedOut`
(`DrainLoop`), `EveryClaimEnds` and `StartupTakesBacklog` (`Delivery`), `PollingGoesOn`
(`Intake`), `HarnessSettles` (`Containers`). Fairness and ENABLED are beyond the prover.
The four violated properties are counterexamples and stay with TLC as well.

## 5. What is not modelled

Contents of tasks, decisions and comments; schema migration; wording. In
`Containers`: images and ports (two agents on one port), and signals beyond "the server
task ends": what uvicorn does with a SIGTERM after its own shutdown decides whether it is
a `Shutdown` or a `Kill` here. A server that returned without having started would leave
`_run_loop` waiting; that takes a failing lifespan, which this application does not have.
A row that no longer validates would end the drain loop; that takes a change of the models
between two versions of the program. The harness
reads `task.payload["number"]`, which the poller always sets. `MemoryStore` is
modelled by committed calls everywhere but in `SharedConnection`, where the exceptions of
shared use are; `Intake` has them as a poll that raises. Loading the configuration (YAML,
environment references, validation) happens once before anything else and keeps no
state; any error in it ends the process. In `Triage` the configuration stays the same
over a restart. The order of routing (`Route`: the first assignment that handles the event and
has a URL) is what `Triage` runs on and is no property of its own. The LLM wrappers in `night_brownie/llm` are not called by the harness.
Workers of an agent are a fixed set: a nudge that finds none idle waits, while
uvicorn would start one more background task. In `Intake` a crash abandons poll
threads at once. `Dispatcher` hands the GitHub client `str()` of a SecretStr, which masks
it; that no call then succeeds is the constant fault of a deployment, not of an
order of steps, and is left out: `DrainLoop` takes the calls as working or failing one
by one.

## 6. Plan

Modules, runs and safety proofs are complete in the sense of sections 2 to 4. What would
add most:

1. what `TaskLifecycle` promises by itself, proved once: which status may follow which, that
   `retry_count` and `attempts` never fall, that a result is replaced only by a completion;
   it then holds of the table and of its users, who take its actions, and by the refinement
   of `claim_next` by statements;
2. theorems for the hazards that have a run only: what must be true for `AllowedCloseIsExecuted`,
   `PollerSurvives`, `EventsAreNotDropped` and `ShutdownStopsContainers` to hold (no
   closing decision, no two users of the connection at once, and so on), which says exactly how far each promise goes;
3. the safety part of the liveness properties: that the steps they wait for stay possible.

## 7. Running it

```
tlc -config MCTaskQueue.cfg MCTaskQueue      # and so on, see section 3
tlapm TaskQueueProofs.tla                    # and so on, see section 4
```

Community module used: `Functions` (in `Intake`); proofs use `TLAPS`, `FiniteSetTheorems`
(`ClaimProtocolProofs`, `DeliveryProofs`, `IntakeProofs`) and `WellFoundedInduction` (`TriageProofs`).
