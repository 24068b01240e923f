---------------------------- MODULE ClaimProtocol ----------------------------
(***************************************************************************)
(* claim_next of night_brownie/queue.py statement by statement: the        *)
(* threading lock of the process, BEGIN IMMEDIATE, the SELECT, the UPDATE, *)
(* COMMIT or ROLLBACK.  Its docstring promises that "concurrent callers -- *)
(* whether in the same process or different ones -- cannot double-claim    *)
(* the same task".  So several processes have the database open here, each *)
(* with one connection and one lock, and several threads of a process may  *)
(* claim at once.                                                          *)
(*                                                                         *)
(* The other methods are one statement each on an autocommit connection.   *)
(* They do not take the lock: they run on the event loop of their process, *)
(* never while a thread of it is inside claim_next, and a statement of one *)
(* connection waits for, or fails because of, the transaction of another.  *)
(*                                                                         *)
(* The module implements TaskLifecycle, where claim_next is one step: that *)
(* step is the COMMIT.  Which pending row the SELECT finds first is left   *)
(* to TaskQueue.                                                           *)
(***************************************************************************)
EXTENDS Integers, FiniteSets

CONSTANTS
    Tasks, Agents, Decisions, None, MaxRetries,   \* as in TaskLifecycle
    Processes,     \* processes that have opened the database
    Callers,       \* threads that call claim_next
    ProcessOf,     \* [Callers -> Processes]
    MaxFaults,     \* bound on failing SQLite statements
    MaxCrashes     \* bound on crashes of a process

ASSUME ProcessOfType == ProcessOf \in [Callers -> Processes]
ASSUME ProtocolBoundsAreNat == MaxFaults \in Nat /\ MaxCrashes \in Nat
ASSUME NoneIsNobody == None \notin Tasks \cup Agents \cup Processes \cup Callers
ASSUME CallersAreFinite == IsFiniteSet(Callers)

VARIABLES
    table,        \* the committed rows of task_queue
    claims,       \* [task -> claims committed]
    lock,         \* [process -> the caller that holds self._lock, or None]
    writer,       \* the process whose connection has a write transaction, or None
    dirty,        \* [process -> the task its open transaction has claimed, or None]
    pc,           \* [caller -> the statement it executes next]
    asks,         \* [caller -> the agent it calls claim_next for]
    found,        \* [caller -> the row its SELECT returned, or None]
    handed,       \* [task -> times claim_next returned it to its caller]
    faults, crashes

callVars == <<lock, pc, asks, found>>
txVars == <<writer, dirty>>
historyVars == <<handed, faults, crashes>>
vars == <<table, claims, callVars, txVars, historyVars>>

L == INSTANCE TaskLifecycle WITH
        status <- [t \in Tasks |-> table[t].status],
        agentUrl <- [t \in Tasks |-> table[t].agent_url],
        retryCount <- [t \in Tasks |-> table[t].retry_count],
        result <- [t \in Tasks |-> table[t].result],
        attempts <- claims

Rows == [status : L!Statuses, agent_url : Agents \cup {None}, retry_count : Nat,
         result : Decisions \cup {None}]

TypeOK ==
    /\ table \in [Tasks -> Rows]
    /\ claims \in [Tasks -> Nat]
    /\ lock \in [Processes -> Callers \cup {None}]
    /\ writer \in Processes \cup {None}
    /\ dirty \in [Processes -> Tasks \cup {None}]
    /\ pc \in [Callers -> {"idle", "locking", "begin", "select", "update", "commit",
                           "rollback", "return"}]
    /\ asks \in [Callers -> Agents \cup {None}]
    /\ found \in [Callers -> Tasks \cup {None}]
    /\ handed \in [Tasks -> Nat]
    /\ faults \in 0..MaxFaults /\ crashes \in 0..MaxCrashes

Init ==
    /\ table = [t \in Tasks |-> [status |-> "absent", agent_url |-> None,
                                 retry_count |-> 0, result |-> None]]
    /\ claims = [t \in Tasks |-> 0]
    /\ lock = [p \in Processes |-> None]
    /\ writer = None /\ dirty = [p \in Processes |-> None]
    /\ pc = [c \in Callers |-> "idle"]
    /\ asks = [c \in Callers |-> None]
    /\ found = [c \in Callers |-> None]
    /\ handed = [t \in Tasks |-> 0]
    /\ faults = 0 /\ crashes = 0

-----------------------------------------------------------------------------
(* claim_next.                                                             *)

Proc(c) == ProcessOf[c]

Goto(c, label) == pc' = [pc EXCEPT ![c] = label]

\* A statement fails for a reason of its own: the disk, a corrupt page.
Fault == faults < MaxFaults /\ faults' = faults + 1

(***************************************************************************)
(* The transaction of process p is no more, by ROLLBACK or without it.     *)
(***************************************************************************)
TransactionEnds(p) ==
    /\ writer' = IF writer = p THEN None ELSE writer
    /\ dirty' = [dirty EXCEPT ![p] = None]

(***************************************************************************)
(* The call ends, by a return or by an exception: the with statement       *)
(* releases the lock either way.                                           *)
(***************************************************************************)
Leave(c) ==
    /\ Goto(c, "idle")
    /\ lock' = [lock EXCEPT ![Proc(c)] = None]
    /\ asks' = [asks EXCEPT ![c] = None]
    /\ found' = [found EXCEPT ![c] = None]

Call(c, a) ==
    /\ pc[c] = "idle"
    /\ Goto(c, "locking")
    /\ asks' = [asks EXCEPT ![c] = a]
    /\ UNCHANGED <<table, claims, lock, found, txVars, historyVars>>

\* A faulty Acquire: no lock around the transaction.
AcquireNothing(c) ==
    /\ pc[c] = "locking"
    /\ Goto(c, "begin")
    /\ lock' = [lock EXCEPT ![Proc(c)] = c]
    /\ UNCHANGED <<table, claims, asks, found, txVars, historyVars>>

Acquire(c) ==
    /\ pc[c] = "locking"
    /\ lock[Proc(c)] = None
    /\ Goto(c, "begin")
    /\ lock' = [lock EXCEPT ![Proc(c)] = c]
    /\ UNCHANGED <<table, claims, asks, found, txVars, historyVars>>

\* A faulty Begin: BEGIN without IMMEDIATE takes no write lock.
BeginDeferred(c) ==
    /\ pc[c] = "begin"
    /\ Goto(c, "select")
    /\ UNCHANGED <<table, claims, lock, asks, found, txVars, historyVars>>

(***************************************************************************)
(* BEGIN IMMEDIATE: one write transaction at a time in the whole database. *)
(***************************************************************************)
Begin(c) ==
    /\ pc[c] = "begin"
    /\ writer = None
    /\ writer' = Proc(c)
    /\ Goto(c, "select")
    /\ UNCHANGED <<table, claims, lock, asks, found, dirty, historyVars>>

(***************************************************************************)
(* BEGIN IMMEDIATE raises: another connection keeps the write lock for     *)
(* longer than the busy timeout, or this connection has a transaction open *)
(* already, or it fails.  It stands before the try, so there is no         *)
(* ROLLBACK.                                                               *)
(***************************************************************************)
BeginRaises(c) ==
    /\ pc[c] = "begin"
    /\ \/ writer # None /\ UNCHANGED faults
       \/ Fault
    /\ Leave(c)
    /\ UNCHANGED <<table, claims, txVars, handed, crashes>>

PendingFor(a) == {t \in Tasks : table[t].status = "pending" /\ table[t].agent_url = a}

Select(c) ==
    /\ pc[c] = "select"
    /\ \E t \in PendingFor(asks[c]) : /\ found' = [found EXCEPT ![c] = t]
                                      /\ Goto(c, "update")
    /\ UNCHANGED <<table, claims, lock, asks, txVars, historyVars>>

(***************************************************************************)
(* No row: ROLLBACK, then return None.                                     *)
(***************************************************************************)
SelectNothing(c) ==
    /\ pc[c] = "select"
    /\ PendingFor(asks[c]) = {}
    /\ Goto(c, "rollback")
    /\ UNCHANGED <<table, claims, lock, asks, found, txVars, historyVars>>

(***************************************************************************)
(* The UPDATE names the task only; until the COMMIT nobody else sees it.   *)
(***************************************************************************)
UpdateRow(c) ==
    /\ pc[c] = "update"
    /\ dirty' = [dirty EXCEPT ![Proc(c)] = found[c]]
    /\ Goto(c, "commit")
    /\ UNCHANGED <<table, claims, lock, asks, found, writer, historyVars>>

\* A faulty Commit: the task is returned without the COMMIT.
CommitNothing(c) ==
    /\ pc[c] = "commit"
    /\ Goto(c, "return")
    /\ UNCHANGED <<table, claims, lock, asks, found, txVars, historyVars>>

Commit(c) ==
    /\ pc[c] = "commit"
    /\ table' = [table EXCEPT ![found[c]].status = "claimed"]
    /\ claims' = [claims EXCEPT ![found[c]] = @ + 1]
    /\ writer' = None
    /\ dirty' = [dirty EXCEPT ![Proc(c)] = None]
    /\ Goto(c, "return")
    /\ UNCHANGED <<lock, asks, found, historyVars>>

(***************************************************************************)
(* A statement inside the try raises: the except clause rolls back.  After *)
(* some errors (a full disk, an I/O error) SQLite has done so by itself,   *)
(* and the database is free for others before the ROLLBACK comes.          *)
(***************************************************************************)
StatementRaises(c) ==
    /\ pc[c] \in {"select", "update", "commit"}
    /\ Fault
    /\ \/ UNCHANGED txVars
       \/ TransactionEnds(Proc(c))
    /\ Goto(c, "rollback")
    /\ UNCHANGED <<table, claims, lock, asks, found, handed, crashes>>

\* A faulty Rollback: the exception leaves the method at once.
RollbackNothing(c) ==
    /\ pc[c] = "rollback"
    /\ Leave(c)
    /\ UNCHANGED <<table, claims, txVars, historyVars>>

(***************************************************************************)
(* If there is no transaction any more, ROLLBACK raises as well; the call  *)
(* ends, with None or an exception, and without a transaction either way.  *)
(***************************************************************************)
Rollback(c) ==
    /\ pc[c] = "rollback"
    /\ TransactionEnds(Proc(c))
    /\ Leave(c)
    /\ UNCHANGED <<table, claims, historyVars>>

(***************************************************************************)
(* The payload is parsed after the COMMIT and the task returned.  If the   *)
(* parse raises, nobody has the task, though it is claimed.                *)
(***************************************************************************)
Return(c) ==
    /\ pc[c] = "return"
    /\ handed' = [handed EXCEPT ![found[c]] = @ + 1]
    /\ Leave(c)
    /\ UNCHANGED <<table, claims, txVars, faults, crashes>>

ParseRaises(c) ==
    /\ pc[c] = "return"
    /\ Fault
    /\ Leave(c)
    /\ UNCHANGED <<table, claims, txVars, handed, crashes>>

-----------------------------------------------------------------------------
(* The other methods.                                                      *)

(***************************************************************************)
(* A single statement of process p can run.                                *)
(***************************************************************************)
CanWrite(p) ==
    /\ writer = None
    /\ \A c \in Callers : Proc(c) = p => pc[c] \in {"idle", "locking"}

Enqueue(t, a) ==
    /\ table[t].status = "absent"
    /\ table' = [table EXCEPT ![t].status = "pending", ![t].agent_url = a]

\* A faulty Complete: a status that no query knows, which the schema allows.
CompleteMisspelt(t, d) ==
    /\ handed[t] > 0
    /\ table' = [table EXCEPT ![t].status = "complete", ![t].result = d]

(***************************************************************************)
(* Only who was handed the task completes it, at any later time.           *)
(***************************************************************************)
Complete(t, d) ==
    /\ handed[t] > 0
    /\ table' = [table EXCEPT ![t].status = "completed", ![t].result = d]

MarkDone(t) ==
    /\ table[t].status = "completed"
    /\ table' = [table EXCEPT ![t].status = "done"]

RequeueStale(S) ==
    /\ \A t \in S : table[t].status = "claimed"
    /\ table' = [t \in Tasks |-> IF t \in S
                                 THEN [table[t] EXCEPT !.status = "pending",
                                                       !.retry_count = @ + 1]
                                 ELSE table[t]]

FailExhausted ==
    table' = [t \in Tasks |-> IF table[t].status = "pending" /\ table[t].retry_count >= MaxRetries
                              THEN [table[t] EXCEPT !.status = "failed"]
                              ELSE table[t]]

(***************************************************************************)
(* A call of another method by process p.  requeue_stale and               *)
(* fail_exhausted are two steps, since another process may come between    *)
(* them, and a claim may so expire once more: retry_count is bounded by    *)
(* MaxRetries + 1.                                                         *)
(***************************************************************************)
OtherCall(p) ==
    /\ CanWrite(p)
    /\ \/ \E t \in Tasks, a \in Agents : Enqueue(t, a)
       \/ \E t \in Tasks, d \in Decisions : Complete(t, d)
       \/ \E t \in Tasks : MarkDone(t)
       \/ \E S \in SUBSET {t \in Tasks : table[t].retry_count <= MaxRetries} : RequeueStale(S)
       \/ FailExhausted
    /\ UNCHANGED <<claims, callVars, txVars, historyVars>>

(***************************************************************************)
(* A process dies: SQLite rolls its transaction back, its calls are gone.  *)
(***************************************************************************)
Crash(p) ==
    /\ crashes < MaxCrashes
    /\ crashes' = crashes + 1
    /\ lock' = [lock EXCEPT ![p] = None]
    /\ TransactionEnds(p)
    /\ pc' = [c \in Callers |-> IF Proc(c) = p THEN "idle" ELSE pc[c]]
    /\ asks' = [c \in Callers |-> IF Proc(c) = p THEN None ELSE asks[c]]
    /\ found' = [c \in Callers |-> IF Proc(c) = p THEN None ELSE found[c]]
    /\ UNCHANGED <<table, claims, handed, faults>>

ClaimStep(c) ==
    \/ Acquire(c) \/ Begin(c) \/ BeginRaises(c)
    \/ Select(c) \/ SelectNothing(c) \/ UpdateRow(c) \/ Commit(c)
    \/ StatementRaises(c) \/ Rollback(c) \/ Return(c) \/ ParseRaises(c)

Next ==
    \/ \E c \in Callers : ClaimStep(c) \/ \E a \in Agents : Call(c, a)
    \/ \E p \in Processes : OtherCall(p) \/ Crash(p)

Spec == Init /\ [][Next]_vars

(***************************************************************************)
(* A call gets on: a thread gets the lock, and the busy handler of SQLite  *)
(* the write lock, if they are free again and again (strong fairness).     *)
(* Nothing is assumed of who calls, and of faults and crashes only that    *)
(* they are finitely many.                                                 *)
(***************************************************************************)
FairSpec ==
    /\ Spec
    /\ \A c \in Callers : SF_vars(Acquire(c)) /\ SF_vars(Begin(c)) /\ WF_vars(ClaimStep(c))

-----------------------------------------------------------------------------
(***************************************************************************)
(* Through every interleaving of threads and processes, with failing       *)
(* statements and crashes between any two, what the database commits are   *)
(* the steps of the queue's lifecycle: in particular a claim is committed  *)
(* on a row that is pending at that moment.                                *)
(***************************************************************************)
ImplementsLifecycle == L!LifecycleSpec

(***************************************************************************)
(* claim_next never gives one claim to two callers, and gives out no task  *)
(* whose claim it did not commit: a task has been returned, or is about to *)
(* be, at most once for each time it became claimed, and that is once more *)
(* than it expired.                                                        *)
(***************************************************************************)
Returning(t) == {c \in Callers : pc[c] = "return" /\ found[c] = t}

NoDoubleClaim ==
    \A t \in Tasks :
        /\ handed[t] + Cardinality(Returning(t)) <= claims[t]
        /\ claims[t] <= table[t].retry_count + 1

(***************************************************************************)
(* No transaction is left behind: one is open only while a thread of its   *)
(* process is between BEGIN and the end of the transaction, and that       *)
(* thread has the lock.  So a BEGIN never meets a transaction of its own   *)
(* connection, and a claim that failed never blocks the queue.  And nobody *)
(* reads or writes a row without one: SQLite may have ended it only for a  *)
(* thread that has nothing left to do but the ROLLBACK.                    *)
(***************************************************************************)
TransactionsAreHeld ==
    \A p \in Processes :
        \/ writer = p /\ \E c \in Callers : /\ lock[p] = c
                                            /\ pc[c] \in {"select", "update", "commit", "rollback"}
        \/ writer # p /\ dirty[p] = None /\ \A c \in Callers :
                            Proc(c) = p => pc[c] \notin {"select", "update", "commit"}

(***************************************************************************)
(* The queue of an agent that goes on asking is emptied again and again:   *)
(* each task is claimed or given up, and neither lock nor transaction      *)
(* stays in the way for ever.                                              *)
(***************************************************************************)
Asking(a) == \E c \in Callers : pc[c] = "locking" /\ asks[c] = a

AskingHelps ==
    \A a \in Agents : []<>Asking(a) => []<>(PendingFor(a) = {})

=============================================================================
