-------------------------- MODULE SharedConnection --------------------------
(***************************************************************************)
(* The one SQLite connection of MemoryStore (night_brownie/memory.py),     *)
(* which is opened with check_same_thread=False and used without a lock by *)
(* the event loop (log_action, upsert_memory_summary) and by the threads   *)
(* of the poller (set_last_polled).                                        *)
(*                                                                         *)
(* A method that writes is self._conn.execute(DML) and self._conn.commit() *)
(* on a connection in sqlite3's default isolation: execute() opens a       *)
(* transaction if none is open, commit() commits whatever the connection   *)
(* has open, and both look whether a transaction is open before they let   *)
(* other threads run and act on it afterwards.  So the transaction is      *)
(* shared, and the looks can be stale:                                     *)
(*   - a statement can be committed by the commit() of another thread;     *)
(*   - two threads that both saw no transaction both BEGIN: one raises;    *)
(*   - two threads that both saw one both COMMIT: one raises, though its   *)
(*     statement is committed.                                             *)
(* Which exception it raises can vary, as the threads share the error code *)
(* of the connection, too; that it raises does not.                        *)
(*                                                                         *)
(* No method rolls back, and nobody closes the store before the process    *)
(* ends.  But SQLite itself rolls the transaction back when a call of any  *)
(* thread meets a full disk or an I/O error, and then the commit() of the  *)
(* others finds none and returns.                                          *)
(***************************************************************************)
EXTENDS Integers

CONSTANTS
    Pollers,      \* poll threads, each with the poll_state row of its repository
    Loop,         \* the event loop, with its rows of action_log and memory_summary
    MaxWrites,    \* bound on the writing calls of each thread
    MaxFaults,    \* bound on failing SQLite calls
    MaxCrashes    \* bound on crashes

ASSUME LoopIsNoPoller == Loop \notin Pollers
ASSUME BoundsAreNat == MaxWrites \in Nat /\ MaxFaults \in Nat /\ MaxCrashes \in Nat

Threads == Pollers \cup {Loop}

Writes == Threads \X (1..MaxWrites)   \* a write: whose, and which of its calls

VARIABLES
    durable,      \* the writes that are committed
    view,         \* the writes the connection sees
    inTransaction,\* sqlite3_get_autocommit(db) = 0
    pc,           \* [thread -> where its call is, "idle" between calls]
    calls,        \* [thread -> number of its current or last call]
    due,          \* pollers of the current cycle that have yet to write
    polling,      \* the poller is alive
    returned,     \* the writes whose calls returned normally
    undone,       \* the writes SQLite took back by itself, after an error
    alone,        \* threads no other thread has overlapped in their current call
    raised,       \* threads whose last call raised without a failing SQLite call
    faults, crashes

dbVars == <<durable, view, inTransaction>>
pollerVars == <<due, polling>>
historyVars == <<returned, undone, alone, raised, faults, crashes>>
vars == <<dbVars, pc, calls, pollerVars, historyVars>>

TypeOK ==
    /\ durable \subseteq Writes /\ view \subseteq Writes
    /\ inTransaction \in BOOLEAN
    /\ pc \in [Threads -> {"idle", "beginning", "executing", "written", "committing"}]
    /\ calls \in [Threads -> 0..MaxWrites]
    /\ due \subseteq Pollers
    /\ polling \in BOOLEAN
    /\ returned \subseteq Writes /\ undone \subseteq Writes
    /\ alone \subseteq Threads
    /\ raised \subseteq Threads
    /\ faults \in 0..MaxFaults /\ crashes \in 0..MaxCrashes

Init ==
    /\ durable = {} /\ view = {}
    /\ inTransaction = FALSE
    /\ pc = [c \in Threads |-> "idle"]
    /\ calls = [c \in Threads |-> 0]
    /\ due = {}
    /\ polling = TRUE
    /\ returned = {} /\ undone = {}
    /\ alone = {} /\ raised = {}
    /\ faults = 0 /\ crashes = 0

-----------------------------------------------------------------------------
Running == {c \in Threads : pc[c] # "idle"}

Goto(c, label) == pc' = [pc EXCEPT ![c] = label]

Current(c) == <<c, calls[c]>>   \* what the call of c writes

\* A faulty LookBeforeBegin: BEGIN whatever the state of the connection is.
NoLook == "beginning"

(***************************************************************************)
(* execute() begins a transaction only if the connection has none.         *)
(***************************************************************************)
LookBeforeBegin == IF inTransaction THEN "executing" ELSE "beginning"

(***************************************************************************)
(* poll_all gathers one poll of each repository; those in S will succeed   *)
(* and come to set_last_polled.  The next cycle starts when all are done.  *)
(* An exception of one ends the poller, but not the others of its cycle.   *)
(***************************************************************************)
StartCycle(S) ==
    /\ polling
    /\ due = {} /\ \A c \in Pollers : pc[c] = "idle"
    /\ due' = S
    /\ UNCHANGED <<dbVars, pc, calls, polling, historyVars>>

(***************************************************************************)
(* A method is called and looks whether a transaction is open.             *)
(***************************************************************************)
StartWrite(c) ==
    /\ pc[c] = "idle"
    /\ calls[c] < MaxWrites
    /\ c \in Pollers => c \in due
    /\ due' = due \ {c}
    /\ calls' = [calls EXCEPT ![c] = @ + 1]
    /\ Goto(c, LookBeforeBegin)
    /\ alone' = IF Running = {} THEN {c} ELSE {}
    /\ raised' = raised \ {c}
    /\ UNCHANGED <<dbVars, polling, returned, undone, faults, crashes>>

(***************************************************************************)
(* The call of c ends with an exception.  In a poll thread it is no        *)
(* GithubException, which ends the poller (poller.py:163, :140); on the    *)
(* event loop the drain loop logs it and goes on (server.py:161).          *)
(***************************************************************************)
EndsPolling(c) == polling' = (polling /\ c \notin Pollers)

RaiseIn(c) ==
    /\ Goto(c, "idle")
    /\ EndsPolling(c)
    /\ UNCHANGED <<calls, due, returned, alone, crashes>>

Begin(c) ==
    /\ pc[c] = "beginning"
    /\ ~inTransaction
    /\ inTransaction' = TRUE
    /\ Goto(c, "executing")
    /\ UNCHANGED <<durable, view, calls, pollerVars, historyVars>>

\* A faulty NestedBegin: the exception handler rolls the connection back.
NestedBeginRollsBack(c) ==
    /\ pc[c] = "beginning"
    /\ inTransaction
    /\ inTransaction' = FALSE
    /\ view' = durable
    /\ raised' = raised \cup {c}
    /\ RaiseIn(c)
    /\ UNCHANGED <<durable, undone, faults>>

(***************************************************************************)
(* "cannot start a transaction within a transaction"                       *)
(***************************************************************************)
NestedBegin(c) ==
    /\ pc[c] = "beginning"
    /\ inTransaction
    /\ raised' = raised \cup {c}
    /\ RaiseIn(c)
    /\ UNCHANGED <<dbVars, undone, faults>>

(***************************************************************************)
(* The statement.  If another thread has committed since the look, it runs *)
(* in autocommit and is durable at once.                                   *)
(***************************************************************************)
Execute(c) ==
    /\ pc[c] = "executing"
    /\ view' = view \cup {Current(c)}
    /\ durable' = IF inTransaction THEN durable ELSE view'
    /\ Goto(c, "written")
    /\ UNCHANGED <<inTransaction, calls, pollerVars, historyVars>>

ReturnFrom(c) ==
    /\ Goto(c, "idle")
    /\ returned' = returned \cup {Current(c)}
    /\ UNCHANGED <<calls, pollerVars, undone, alone, raised, faults, crashes>>

\* A faulty NothingToCommit: a method without the commit().
NoCommit(c) ==
    /\ pc[c] = "written"
    /\ ReturnFrom(c)
    /\ UNCHANGED dbVars

(***************************************************************************)
(* commit() looks, and finds no transaction: another thread has committed  *)
(* this one's statement, or SQLite has rolled it back.  It returns.        *)
(***************************************************************************)
NothingToCommit(c) ==
    /\ pc[c] = "written"
    /\ ~inTransaction
    /\ ReturnFrom(c)
    /\ UNCHANGED dbVars

StartCommit(c) ==
    /\ pc[c] = "written"
    /\ inTransaction
    /\ Goto(c, "committing")
    /\ UNCHANGED <<dbVars, calls, pollerVars, historyVars>>

Commit(c) ==
    /\ pc[c] = "committing"
    /\ inTransaction
    /\ durable' = view
    /\ inTransaction' = FALSE
    /\ ReturnFrom(c)
    /\ UNCHANGED view

(***************************************************************************)
(* "cannot commit - no transaction is active"                              *)
(***************************************************************************)
LateCommit(c) ==
    /\ pc[c] = "committing"
    /\ ~inTransaction
    /\ raised' = raised \cup {c}
    /\ RaiseIn(c)
    /\ UNCHANGED <<dbVars, undone, faults>>

(***************************************************************************)
(* SQLite rolls back all that the connection has open, whosever it is.     *)
(***************************************************************************)
RolledBack ==
    /\ view' = durable
    /\ inTransaction' = FALSE
    /\ undone' = undone \cup (view \ durable)
    /\ UNCHANGED durable

Fault == faults < MaxFaults /\ faults' = faults + 1

(***************************************************************************)
(* BEGIN, the statement or COMMIT fails.  After some errors (a lock of     *)
(* another process) what is open stays open, after others (the disk is     *)
(* full, an I/O error) it is rolled back.                                  *)
(***************************************************************************)
Fails(c) ==
    /\ pc[c] \in {"beginning", "executing", "committing"}
    /\ Fault
    /\ \/ UNCHANGED <<dbVars, undone>>
       \/ pc[c] # "beginning" /\ RolledBack
    /\ RaiseIn(c)
    /\ UNCHANGED raised

(***************************************************************************)
(* A read fails in the same way: get_last_polled in a poll thread, or      *)
(* get_memory_summary on the event loop, in the dispatch that a poll       *)
(* awaits.  Both end the poller.                                           *)
(***************************************************************************)
ReadFails(c) ==
    /\ pc[c] = "idle"
    /\ Fault
    /\ RolledBack
    /\ polling' = FALSE
    /\ due' = due \ {c}
    /\ alone' = {}
    /\ UNCHANGED <<pc, calls, returned, raised, crashes>>

(***************************************************************************)
(* The process ends; SQLite rolls back what was not committed.  A later    *)
(* one opens the store anew.                                               *)
(***************************************************************************)
Crash ==
    /\ crashes < MaxCrashes
    /\ crashes' = crashes + 1
    /\ view' = durable
    /\ inTransaction' = FALSE
    /\ pc' = [c \in Threads |-> "idle"]
    /\ polling' = TRUE /\ due' = {}
    /\ alone' = {} /\ raised' = {}
    /\ UNCHANGED <<durable, calls, returned, undone, faults>>

WriteStep(c) ==
    \/ Begin(c) \/ NestedBegin(c) \/ Execute(c)
    \/ NothingToCommit(c) \/ StartCommit(c) \/ Commit(c) \/ LateCommit(c)

Next ==
    \/ \E S \in SUBSET Pollers : StartCycle(S)
    \/ \E c \in Threads : StartWrite(c) \/ WriteStep(c) \/ Fails(c) \/ ReadFails(c)
    \/ Crash

Spec == Init /\ [][Next]_vars

-----------------------------------------------------------------------------
(***************************************************************************)
(* What a call wrote that returned is on disk, however the calls of other  *)
(* threads came between its look, its statement and its commit, whichever  *)
(* of them raised, and whatever a crash takes back.  There is one          *)
(* exception: SQLite rolled the write back, because of an error in the     *)
(* call of another thread, before the commit() that then did nothing.      *)
(***************************************************************************)
ReturnedIsDurable == returned \subseteq durable \cup undone

(***************************************************************************)
(* A call raises without a failure of SQLite only if another thread's call *)
(* overlapped it.  In particular a transaction that a failed commit left   *)
(* open does not make the next call fail.                                  *)
(***************************************************************************)
RaisesAreOverlaps == raised \cap alone = {}

(***************************************************************************)
(* Between calls nothing is left open or uncommitted, whichever calls      *)
(* raised because of each other; only a failure of SQLite leaves that.     *)
(***************************************************************************)
IdleIsCommitted ==
    Running = {} /\ faults = 0 => ~inTransaction /\ view = durable

(***************************************************************************)
(* The docstring of GitHubPoller.run: "Poll all repos in a continuous loop *)
(* at *interval_seconds* frequency."  So polling goes on, at least as long *)
(* as SQLite and GitHub work.                                              *)
(***************************************************************************)
PollerSurvives == polling \/ faults > 0

=============================================================================
