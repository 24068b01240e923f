------------------------- MODULE ClaimProtocolProofs -------------------------
(***************************************************************************)
(* What ClaimProtocol guarantees for every number of processes, of threads *)
(* of each, of tasks, of failing statements and of crashes.                *)
(***************************************************************************)
EXTENDS ClaimProtocol, FiniteSetTheorems, TLAPS

(***************************************************************************)
(* The with statement of claim_next: a caller is inside it exactly while   *)
(* it holds the lock of its process.                                       *)
(***************************************************************************)
InTransaction == {"select", "update", "commit"}

Inside == InTransaction \cup {"begin", "rollback", "return"}

LockDiscipline ==
    /\ \A c \in Callers : pc[c] \in Inside <=> lock[Proc(c)] = c
    /\ \A p \in Processes : lock[p] # None => Proc(lock[p]) = p

(***************************************************************************)
(* The row a SELECT found is what it was until the transaction ends: still *)
(* pending, still for the agent that asked.                                *)
(***************************************************************************)
FoundStaysPending ==
    \A c \in Callers :
        /\ pc[c] \in {"update", "commit"} =>
               /\ found[c] \in Tasks
               /\ table[found[c]].status = "pending"
        /\ pc[c] = "return" => found[c] \in Tasks

(***************************************************************************)
(* A row between claims has expired once for each claim of it, and a task  *)
(* that was never enqueued has no row.                                     *)
(***************************************************************************)
RowsAreCoherent ==
    \A t \in Tasks :
        /\ table[t].status = "absent" => claims[t] = 0
        /\ table[t].status = "pending" => claims[t] <= table[t].retry_count
        /\ table[t].status # "absent" => table[t].agent_url \in Agents

Inv ==
    /\ TypeOK
    /\ LockDiscipline
    /\ TransactionsAreHeld
    /\ FoundStaysPending
    /\ RowsAreCoherent
    /\ NoDoubleClaim

(***************************************************************************)
(* The callers about to return a task can be counted.                      *)
(***************************************************************************)
LEMMA ReturningIsCounted ==
  ASSUME NEW t
  PROVE  IsFiniteSet(Returning(t)) /\ Cardinality(Returning(t)) \in Nat
<1>1. Returning(t) \in SUBSET Callers
  BY DEF Returning
<1> QED
  BY <1>1, CallersAreFinite, FS_Subset, FS_CardinalityType

(***************************************************************************)
(* The empty database satisfies the inductive invariant.                   *)
(***************************************************************************)
LEMMA InitInv == Init => Inv
<1> SUFFICES ASSUME Init PROVE Inv
  OBVIOUS
<1> USE NoneIsNobody, ProcessOfType DEF Init
<1>1. TypeOK
  BY ProtocolBoundsAreNat DEF TypeOK, Rows, L!Statuses
<1>2. LockDiscipline
  BY DEF LockDiscipline, Inside, InTransaction, Proc
<1>3. TransactionsAreHeld
  BY DEF TransactionsAreHeld
<1>4. FoundStaysPending
  BY DEF FoundStaysPending
<1>5. RowsAreCoherent
  BY DEF RowsAreCoherent
<1>6. NoDoubleClaim
  <2>1. \A t \in Tasks : Returning(t) = {}
    BY DEF Returning
  <2>2. \A t \in Tasks : Cardinality(Returning(t)) = 0
    BY <2>1, FS_EmptySet
  <2> QED
    BY <2>2 DEF NoDoubleClaim
<1> QED
  BY <1>1, <1>2, <1>3, <1>4, <1>5, <1>6 DEF Inv

(***************************************************************************)
(* A row keeps its columns' types when its status is set.                  *)
(***************************************************************************)
LEMMA RowUpdates ==
  ASSUME NEW r \in Rows, NEW s \in L!Statuses
  PROVE  [r EXCEPT !.status = s] \in Rows
BY DEF Rows

(***************************************************************************)
(* A step that commits nothing and hands nothing out, and after which no   *)
(* more callers are about to return a task, keeps the accounts.            *)
(***************************************************************************)
LEMMA AccountsKept ==
  ASSUME Inv, table' = table, claims' = claims, handed' = handed,
         \A t \in Tasks : Returning(t)' \subseteq Returning(t)
  PROVE  RowsAreCoherent' /\ NoDoubleClaim'
<1>1. RowsAreCoherent'
  BY DEF Inv, RowsAreCoherent
<1>2. ASSUME NEW t \in Tasks
      PROVE  handed'[t] + Cardinality(Returning(t)') <= claims'[t]
  <2>1. /\ Cardinality(Returning(t)') <= Cardinality(Returning(t))
        /\ Cardinality(Returning(t)) \in Nat
        /\ Cardinality(Returning(t)') \in Nat
    BY ReturningIsCounted, FS_Subset, FS_CardinalityType
  <2>2. handed[t] + Cardinality(Returning(t)) <= claims[t]
    BY DEF Inv, NoDoubleClaim
  <2> QED
    BY <2>1, <2>2 DEF Inv, TypeOK
<1>3. NoDoubleClaim'
  BY <1>2 DEF Inv, NoDoubleClaim
<1> QED
  BY <1>1, <1>3

(***************************************************************************)
(* Leave keeps the types of what it resets.                                *)
(***************************************************************************)
LEMMA LeaveTypes ==
  ASSUME TypeOK, NEW c \in Callers, Leave(c)
  PROVE  /\ lock' \in [Processes -> Callers \cup {None}]
         /\ pc' \in [Callers -> {"idle", "locking", "begin", "select", "update", "commit",
                                "rollback", "return"}]
         /\ asks' \in [Callers -> Agents \cup {None}]
         /\ found' \in [Callers -> Tasks \cup {None}]
BY ProcessOfType DEF TypeOK, Leave, Goto, Proc

(***************************************************************************)
(* A transaction is exclusive in the whole database: no other caller, of   *)
(* this process or another, reads or writes in one, and no other           *)
(* connection has changed anything.                                        *)
(***************************************************************************)
LEMMA TransactionIsExclusive ==
  ASSUME Inv, NEW c \in Callers, pc[c] \in InTransaction
  PROVE  /\ writer = Proc(c)
         /\ \A d \in Callers : pc[d] \in InTransaction => d = c
         /\ \A p \in Processes : p # Proc(c) => dirty[p] = None
<1> USE NoneIsNobody, ProcessOfType DEF Inv
<1>1. writer = Proc(c)
  BY DEF TransactionsAreHeld, InTransaction, Proc
<1>2. ASSUME NEW d \in Callers, pc[d] \in InTransaction
      PROVE  d = c
  <2>1. Proc(d) = writer
    BY <1>2 DEF TransactionsAreHeld, InTransaction, Proc
  <2> QED
    BY <1>1, <1>2, <2>1 DEF LockDiscipline, Inside
<1>3. \A p \in Processes : p # Proc(c) => dirty[p] = None
  BY <1>1 DEF TransactionsAreHeld
<1> QED
  BY <1>1, <1>2, <1>3

-----------------------------------------------------------------------------
(***************************************************************************)
(* One lemma per step: it preserves the inductive invariant.               *)
(***************************************************************************)

(***************************************************************************)
(* Call: the caller is still outside the with statement.                   *)
(***************************************************************************)
LEMMA CallInv ==
  ASSUME Inv, NEW c \in Callers, NEW a \in Agents, Call(c, a)
  PROVE  Inv'
<1> USE NoneIsNobody, ProcessOfType DEF Inv, Call, Goto, txVars, historyVars
<1>1. TypeOK'
  BY DEF TypeOK
<1>2. LockDiscipline'
  BY DEF LockDiscipline, Inside, InTransaction, Proc, TypeOK
<1>3. TransactionsAreHeld'
  BY DEF TransactionsAreHeld, LockDiscipline, Inside, InTransaction, Proc, TypeOK
<1>4. FoundStaysPending'
  BY DEF FoundStaysPending, TypeOK
<1>5. \A t \in Tasks : Returning(t)' \subseteq Returning(t)
  BY DEF Returning, TypeOK
<1> QED
  BY <1>1, <1>2, <1>3, <1>4, <1>5, AccountsKept

(***************************************************************************)
(* Acquire: the lock was free, so nobody of the process was inside.        *)
(***************************************************************************)
LEMMA AcquireInv ==
  ASSUME Inv, NEW c \in Callers, Acquire(c)
  PROVE  Inv'
<1> USE NoneIsNobody, ProcessOfType DEF Inv, Acquire, Goto, txVars, historyVars
<1>1. TypeOK'
  BY DEF TypeOK, Proc
<1>2. LockDiscipline'
  <2>1. Proc(c) \in Processes /\ lock' = [lock EXCEPT ![Proc(c)] = c]
    BY DEF Proc
  <2>2. ASSUME NEW d \in Callers
        PROVE  pc'[d] \in Inside <=> lock'[Proc(d)] = d
    <3>1. CASE d = c
      BY <2>1, <3>1 DEF TypeOK, Inside
    <3>2. CASE d # c
      BY <2>1, <3>2 DEF LockDiscipline, TypeOK, Proc
    <3> QED
      BY <3>1, <3>2
  <2>3. ASSUME NEW p \in Processes, lock'[p] # None
        PROVE  Proc(lock'[p]) = p
    BY <2>1, <2>3 DEF LockDiscipline, TypeOK, Proc
  <2> QED
    BY <2>2, <2>3 DEF LockDiscipline, Proc
<1>3. TransactionsAreHeld'
  BY DEF TransactionsAreHeld, LockDiscipline, Inside, InTransaction, Proc, TypeOK
<1>4. FoundStaysPending'
  BY DEF FoundStaysPending, TypeOK
<1>5. \A t \in Tasks : Returning(t)' \subseteq Returning(t)
  BY DEF Returning, TypeOK
<1> QED
  BY <1>1, <1>2, <1>3, <1>4, <1>5, AccountsKept

(***************************************************************************)
(* Begin: no process had a transaction, and the caller holds the lock.     *)
(***************************************************************************)
LEMMA BeginInv ==
  ASSUME Inv, NEW c \in Callers, Begin(c)
  PROVE  Inv'
<1> USE NoneIsNobody, ProcessOfType DEF Inv, Begin, Goto, historyVars
<1>1. TypeOK'
  BY DEF TypeOK, Proc
<1>2. LockDiscipline'
  BY DEF LockDiscipline, Inside, InTransaction, Proc, TypeOK
<1>3. TransactionsAreHeld'
  BY DEF TransactionsAreHeld, LockDiscipline, Inside, InTransaction, Proc, TypeOK
<1>4. FoundStaysPending'
  BY DEF FoundStaysPending, TypeOK
<1>5. \A t \in Tasks : Returning(t)' \subseteq Returning(t)
  BY DEF Returning, TypeOK
<1> QED
  BY <1>1, <1>2, <1>3, <1>4, <1>5, AccountsKept

(***************************************************************************)
(* BeginRaises: the caller had no transaction of its own to leave open.    *)
(***************************************************************************)
LEMMA BeginRaisesInv ==
  ASSUME Inv, NEW c \in Callers, BeginRaises(c)
  PROVE  Inv'
<1> USE NoneIsNobody, ProcessOfType DEF Inv, BeginRaises, Fault, txVars
<1>1. TypeOK'
  BY ProtocolBoundsAreNat, LeaveTypes DEF TypeOK, Proc
<1> USE DEF Leave, Goto
<1>2. LockDiscipline'
  BY DEF LockDiscipline, Inside, InTransaction, Proc, TypeOK
<1>3. TransactionsAreHeld'
  BY DEF TransactionsAreHeld, LockDiscipline, Inside, InTransaction, Proc, TypeOK
<1>4. FoundStaysPending'
  BY DEF FoundStaysPending, TypeOK
<1>5. \A t \in Tasks : Returning(t)' \subseteq Returning(t)
  BY DEF Returning, TypeOK
<1> QED
  BY <1>1, <1>2, <1>3, <1>4, <1>5, AccountsKept

(***************************************************************************)
(* Select: the row found is pending now, and the caller has the            *)
(* transaction.                                                            *)
(***************************************************************************)
LEMMA SelectInv ==
  ASSUME Inv, NEW c \in Callers, Select(c)
  PROVE  Inv'
<1> USE NoneIsNobody, ProcessOfType DEF Inv, Select, PendingFor, Goto, txVars, historyVars
<1>1. TypeOK'
  BY DEF TypeOK, Proc
<1>2. LockDiscipline'
  BY DEF LockDiscipline, Inside, InTransaction, Proc, TypeOK
<1>3. TransactionsAreHeld'
  BY DEF TransactionsAreHeld, LockDiscipline, Inside, InTransaction, Proc, TypeOK
<1>4. FoundStaysPending'
  BY DEF FoundStaysPending, TypeOK
<1>5. \A t \in Tasks : Returning(t)' \subseteq Returning(t)
  BY DEF Returning, TypeOK
<1> QED
  BY <1>1, <1>2, <1>3, <1>4, <1>5, AccountsKept

(***************************************************************************)
(* SelectNothing: the transaction stays open until the ROLLBACK.           *)
(***************************************************************************)
LEMMA SelectNothingInv ==
  ASSUME Inv, NEW c \in Callers, SelectNothing(c)
  PROVE  Inv'
<1> USE NoneIsNobody, ProcessOfType DEF Inv, SelectNothing, Goto, txVars, historyVars
<1>1. TypeOK'
  BY DEF TypeOK, Proc
<1>2. LockDiscipline'
  BY DEF LockDiscipline, Inside, InTransaction, Proc, TypeOK
<1>3. TransactionsAreHeld'
  BY DEF TransactionsAreHeld, LockDiscipline, Inside, InTransaction, Proc, TypeOK
<1>4. FoundStaysPending'
  BY DEF FoundStaysPending, TypeOK
<1>5. \A t \in Tasks : Returning(t)' \subseteq Returning(t)
  BY DEF Returning, TypeOK
<1> QED
  BY <1>1, <1>2, <1>3, <1>4, <1>5, AccountsKept

(***************************************************************************)
(* UpdateRow: the transaction gets a change, of the caller that has it.    *)
(***************************************************************************)
LEMMA UpdateRowInv ==
  ASSUME Inv, NEW c \in Callers, UpdateRow(c)
  PROVE  Inv'
<1> USE NoneIsNobody, ProcessOfType DEF Inv, UpdateRow, Goto, historyVars
<1>1. TypeOK'
  BY DEF TypeOK, Proc
<1>2. LockDiscipline'
  BY DEF LockDiscipline, Inside, InTransaction, Proc, TypeOK
<1>3. TransactionsAreHeld'
  BY DEF TransactionsAreHeld, LockDiscipline, Inside, InTransaction, Proc, TypeOK
<1>4. FoundStaysPending'
  BY DEF FoundStaysPending, TypeOK
<1>5. \A t \in Tasks : Returning(t)' \subseteq Returning(t)
  BY DEF Returning, TypeOK
<1> QED
  BY <1>1, <1>2, <1>3, <1>4, <1>5, AccountsKept

(***************************************************************************)
(* StatementRaises: the transaction stays open until the ROLLBACK, or      *)
(* SQLite has ended it and the caller has nothing to do in it any more.    *)
(***************************************************************************)
LEMMA StatementRaisesInv ==
  ASSUME Inv, NEW c \in Callers, StatementRaises(c)
  PROVE  Inv'
<1> USE NoneIsNobody, ProcessOfType DEF Inv, StatementRaises, TransactionEnds, Fault, Goto, txVars
<1>1. TypeOK'
  BY ProtocolBoundsAreNat DEF TypeOK, Proc
<1>2. LockDiscipline'
  BY DEF LockDiscipline, Inside, InTransaction, Proc, TypeOK
<1>3. TransactionsAreHeld'
  BY DEF TransactionsAreHeld, LockDiscipline, Inside, InTransaction, Proc, TypeOK
<1>4. FoundStaysPending'
  BY DEF FoundStaysPending, TypeOK
<1>5. \A t \in Tasks : Returning(t)' \subseteq Returning(t)
  BY DEF Returning, TypeOK
<1> QED
  BY <1>1, <1>2, <1>3, <1>4, <1>5, AccountsKept

(***************************************************************************)
(* Rollback: the transaction, if there is still one, ends with the call    *)
(* that has the lock.                                                      *)
(***************************************************************************)
LEMMA RollbackInv ==
  ASSUME Inv, NEW c \in Callers, Rollback(c)
  PROVE  Inv'
<1> USE NoneIsNobody, ProcessOfType DEF Inv, Rollback, TransactionEnds, historyVars
<1>1. TypeOK'
  BY LeaveTypes DEF TypeOK, Proc
<1> USE DEF Leave, Goto
<1>2. LockDiscipline'
  BY DEF LockDiscipline, Inside, InTransaction, Proc, TypeOK
<1>3. TransactionsAreHeld'
  BY DEF TransactionsAreHeld, LockDiscipline, Inside, InTransaction, Proc, TypeOK
<1>4. FoundStaysPending'
  BY DEF FoundStaysPending, TypeOK
<1>5. \A t \in Tasks : Returning(t)' \subseteq Returning(t)
  BY DEF Returning, TypeOK
<1> QED
  BY <1>1, <1>2, <1>3, <1>4, <1>5, AccountsKept

(***************************************************************************)
(* ParseRaises: one caller fewer is about to return the task.              *)
(***************************************************************************)
LEMMA ParseRaisesInv ==
  ASSUME Inv, NEW c \in Callers, ParseRaises(c)
  PROVE  Inv'
<1> USE NoneIsNobody, ProcessOfType DEF Inv, ParseRaises, Fault, txVars
<1>1. TypeOK'
  BY ProtocolBoundsAreNat, LeaveTypes DEF TypeOK, Proc
<1> USE DEF Leave, Goto
<1>2. LockDiscipline'
  BY DEF LockDiscipline, Inside, InTransaction, Proc, TypeOK
<1>3. TransactionsAreHeld'
  BY DEF TransactionsAreHeld, LockDiscipline, Inside, InTransaction, Proc, TypeOK
<1>4. FoundStaysPending'
  BY DEF FoundStaysPending, TypeOK
<1>5. \A t \in Tasks : Returning(t)' \subseteq Returning(t)
  BY DEF Returning, TypeOK
<1> QED
  BY <1>1, <1>2, <1>3, <1>4, <1>5, AccountsKept

(***************************************************************************)
(* Commit: the row was still pending, and no other transaction is open.    *)
(***************************************************************************)
LEMMA CommitInv ==
  ASSUME Inv, NEW c \in Callers, Commit(c)
  PROVE  Inv'
<1> USE NoneIsNobody, ProcessOfType DEF Inv, Commit, Goto, historyVars
<1> DEFINE t == found[c]
<1>1. t \in Tasks /\ table[t].status = "pending" /\ claims[t] <= table[t].retry_count
  BY DEF FoundStaysPending, RowsAreCoherent
<1>2. /\ writer = Proc(c)
      /\ \A d \in Callers : pc[d] \in InTransaction => d = c
      /\ \A p \in Processes : p # Proc(c) => dirty[p] = None
  BY TransactionIsExclusive DEF InTransaction
<1>3. table' = [table EXCEPT ![t].status = "claimed"] /\ claims' = [claims EXCEPT ![t] = @ + 1]
  OBVIOUS
<1> HIDE DEF t
<1>4. TypeOK'
  <2>1. [table[t] EXCEPT !.status = "claimed"] \in Rows
    BY <1>1, RowUpdates DEF TypeOK, L!Statuses
  <2>2. table' \in [Tasks -> Rows]
    BY <1>1, <1>3, <2>1 DEF TypeOK
  <2>3. claims' \in [Tasks -> Nat]
    BY <1>1, <1>3 DEF TypeOK
  <2> QED
    BY <2>2, <2>3 DEF TypeOK, Proc
<1>5. LockDiscipline'
  BY DEF LockDiscipline, Inside, InTransaction, Proc, TypeOK
<1>6. TransactionsAreHeld'
  BY <1>2 DEF TransactionsAreHeld, InTransaction, Proc, TypeOK
<1>7. FoundStaysPending'
  BY <1>1, <1>2 DEF FoundStaysPending, InTransaction, TypeOK, t
<1>8. RowsAreCoherent'
  BY <1>1, <1>3 DEF RowsAreCoherent, TypeOK, Rows
<1>9. NoDoubleClaim'
  <2> SUFFICES ASSUME NEW u \in Tasks
               PROVE  /\ handed[u] + Cardinality(Returning(u)') <= claims'[u]
                      /\ claims'[u] <= table'[u].retry_count + 1
    BY DEF NoDoubleClaim
  <2>1. /\ handed[u] \in Nat /\ claims[u] \in Nat /\ table[u].retry_count \in Nat
        /\ Cardinality(Returning(u)) \in Nat
        /\ handed[u] + Cardinality(Returning(u)) <= claims[u]
        /\ claims[u] <= table[u].retry_count + 1
    BY ReturningIsCounted DEF NoDoubleClaim, TypeOK, Rows
  <2>2. CASE u = t
    <3>1. Returning(u)' = Returning(u) \cup {c}
      BY <2>2 DEF Returning, TypeOK, t
    <3>2. c \notin Returning(u)
      BY DEF Returning
    <3>3. Cardinality(Returning(u) \cup {c}) = Cardinality(Returning(u)) + 1
      BY <3>2, ReturningIsCounted, FS_AddElement
    <3>4. claims'[u] = claims[u] + 1 /\ table'[u].retry_count = table[u].retry_count
      BY <2>2, <1>1, <1>3 DEF TypeOK, Rows
    <3> QED
      BY <3>1, <3>2, <3>3, <3>4, <2>1, <2>2, <1>1
  <2>3. CASE u # t
    <3>1. Returning(u)' = Returning(u)
      BY <2>3 DEF Returning, TypeOK, t
    <3>2. claims'[u] = claims[u] /\ table'[u].retry_count = table[u].retry_count
      BY <2>3, <1>1, <1>3 DEF TypeOK
    <3> QED
      BY <3>1, <3>2, <2>1
  <2> QED
    BY <2>2, <2>3
<1> QED
  BY <1>4, <1>5, <1>6, <1>7, <1>8, <1>9

(***************************************************************************)
(* Return: the caller that was about to return the task has returned it.   *)
(***************************************************************************)
LEMMA ReturnInv ==
  ASSUME Inv, NEW c \in Callers, Return(c)
  PROVE  Inv'
<1> USE NoneIsNobody, ProcessOfType DEF Inv, Return, txVars
<1> DEFINE t == found[c]
<1>1. t \in Tasks /\ handed' = [handed EXCEPT ![t] = @ + 1]
  BY DEF FoundStaysPending
<1> HIDE DEF t
<1>2. TypeOK'
  BY <1>1, LeaveTypes DEF TypeOK
<1> USE DEF Leave, Goto
<1>3. LockDiscipline'
  BY DEF LockDiscipline, Inside, InTransaction, Proc, TypeOK
<1>4. TransactionsAreHeld'
  BY DEF TransactionsAreHeld, LockDiscipline, Inside, InTransaction, Proc, TypeOK
<1>5. FoundStaysPending'
  BY DEF FoundStaysPending, TypeOK
<1>6. RowsAreCoherent'
  BY DEF RowsAreCoherent
<1>7. NoDoubleClaim'
  <2> SUFFICES ASSUME NEW u \in Tasks
               PROVE  handed'[u] + Cardinality(Returning(u)') <= claims[u]
    BY DEF NoDoubleClaim
  <2>1. /\ handed[u] \in Nat /\ claims[u] \in Nat
        /\ Cardinality(Returning(u)) \in Nat
        /\ handed[u] + Cardinality(Returning(u)) <= claims[u]
    BY ReturningIsCounted DEF NoDoubleClaim, TypeOK
  <2>2. CASE u = t
    <3>1. Returning(u)' = Returning(u) \ {c} /\ c \in Returning(u)
      BY <2>2 DEF Returning, TypeOK, t
    <3>2. Cardinality(Returning(u)') = Cardinality(Returning(u)) - 1
      BY <3>1, ReturningIsCounted, FS_RemoveElement
    <3>3. handed'[u] = handed[u] + 1
      BY <2>2, <1>1 DEF TypeOK
    <3> QED
      BY <3>2, <3>3, <2>1
  <2>3. CASE u # t
    <3>1. Returning(u)' = Returning(u)
      BY <2>3 DEF Returning, TypeOK, t
    <3>2. handed'[u] = handed[u]
      BY <2>3, <1>1 DEF TypeOK
    <3> QED
      BY <3>1, <3>2, <2>1
  <2> QED
    BY <2>2, <2>3
<1> QED
  BY <1>2, <1>3, <1>4, <1>5, <1>6, <1>7

(***************************************************************************)
(* Crash: the transaction of the process goes, with all the calls inside.  *)
(***************************************************************************)
LEMMA CrashInv ==
  ASSUME Inv, NEW p \in Processes, Crash(p)
  PROVE  Inv'
<1> USE NoneIsNobody, ProcessOfType DEF Inv, Crash, TransactionEnds
<1>1. TypeOK'
  BY ProtocolBoundsAreNat DEF TypeOK
<1>2. LockDiscipline'
  <2>1. ASSUME NEW c \in Callers
        PROVE  pc'[c] \in Inside <=> lock'[Proc(c)] = c
    <3>1. CASE Proc(c) = p
      BY <3>1 DEF TypeOK, Inside, InTransaction
    <3>2. CASE Proc(c) # p
      BY <3>2 DEF LockDiscipline, TypeOK, Proc
    <3> QED
      BY <3>1, <3>2
  <2>2. ASSUME NEW q \in Processes, lock'[q] # None
        PROVE  Proc(lock'[q]) = q
    BY <2>2 DEF LockDiscipline, TypeOK, Proc
  <2> QED
    BY <2>1, <2>2 DEF LockDiscipline, Proc
<1>3. TransactionsAreHeld'
  <2> SUFFICES ASSUME NEW q \in Processes
               PROVE  \/ writer' = q /\ \E c \in Callers :
                             /\ lock'[q] = c
                             /\ pc'[c] \in {"select", "update", "commit", "rollback"}
                      \/ writer' # q /\ dirty'[q] = None /\ \A c \in Callers :
                             Proc(c) = q => pc'[c] \notin {"select", "update", "commit"}
    BY DEF TransactionsAreHeld, Proc
  <2>1. CASE q = p
    <3>1. writer' # q /\ dirty'[q] = None
      BY <2>1 DEF TypeOK
    <3>2. \A c \in Callers : Proc(c) = q => pc'[c] = "idle"
      BY <2>1 DEF TypeOK
    <3> QED
      BY <3>1, <3>2
  <2>2. CASE q # p
    <3>1. (writer' = q <=> writer = q) /\ dirty'[q] = dirty[q] /\ lock'[q] = lock[q]
      BY <2>2 DEF TypeOK
    <3>2. \A c \in Callers : Proc(c) = q => pc'[c] = pc[c]
      BY <2>2 DEF TypeOK
    <3>3. \A c \in Callers : lock[q] = c => Proc(c) = q
      BY DEF LockDiscipline
    <3> QED
      BY <3>1, <3>2, <3>3 DEF TransactionsAreHeld
  <2> QED
    BY <2>1, <2>2
<1>4. FoundStaysPending'
  BY DEF FoundStaysPending, TypeOK
<1>5. \A t \in Tasks : Returning(t)' \subseteq Returning(t)
  BY DEF Returning, TypeOK
<1> QED
  BY <1>1, <1>2, <1>3, <1>4, <1>5, AccountsKept

(***************************************************************************)
(* What the other methods do to a row: it stays well typed and coherent,   *)
(* and its retry counter does not go down.                                 *)
(***************************************************************************)
TableMoves ==
    /\ table' \in [Tasks -> Rows]
    /\ \A t \in Tasks :
           /\ table'[t].retry_count >= table[t].retry_count
           /\ table'[t].status = "absent" => claims[t] = 0
           /\ table'[t].status = "pending" => claims[t] <= table'[t].retry_count
           /\ table'[t].status # "absent" => table'[t].agent_url \in Agents

(***************************************************************************)
(* One row gets the value r, which is well typed and coherent.             *)
(***************************************************************************)
LEMMA OneRowMoves ==
  ASSUME Inv, NEW t \in Tasks, NEW r \in Rows, table' = [table EXCEPT ![t] = r],
         r.retry_count >= table[t].retry_count,
         r.status # "absent", r.agent_url \in Agents,
         r.status = "pending" => claims[t] <= r.retry_count
  PROVE  TableMoves
<1>1. table' \in [Tasks -> Rows]
  BY DEF Inv, TypeOK
<1>2. ASSUME NEW u \in Tasks
      PROVE  /\ table'[u].retry_count >= table[u].retry_count
             /\ table'[u].status = "absent" => claims[u] = 0
             /\ table'[u].status = "pending" => claims[u] <= table'[u].retry_count
             /\ table'[u].status # "absent" => table'[u].agent_url \in Agents
  <2>1. CASE u = t
    <3>1. table'[u] = r
      BY <2>1 DEF Inv, TypeOK
    <3> QED
      BY <2>1, <3>1
  <2>2. CASE u # t
    <3>1. table'[u] = table[u]
      BY <2>2 DEF Inv, TypeOK
    <3>2. table[u].retry_count \in Nat
      BY DEF Inv, TypeOK, Rows
    <3> QED
      BY <3>1, <3>2 DEF Inv, RowsAreCoherent
  <2> QED
    BY <2>1, <2>2
<1> QED
  BY <1>1, <1>2 DEF TableMoves

(***************************************************************************)
(* A task that was handed out has a row.                                   *)
(***************************************************************************)
LEMMA HandedWasClaimed ==
  ASSUME Inv, NEW t \in Tasks, handed[t] > 0
  PROVE  claims[t] > 0 /\ table[t].status # "absent"
<1>1. /\ handed[t] \in Nat /\ claims[t] \in Nat
      /\ Cardinality(Returning(t)) \in Nat
      /\ handed[t] + Cardinality(Returning(t)) <= claims[t]
  BY ReturningIsCounted DEF Inv, TypeOK, NoDoubleClaim
<1> QED
  BY <1>1 DEF Inv, RowsAreCoherent

(* A new row has been claimed by nobody.                                   *)
LEMMA EnqueueMoves ==
  ASSUME Inv, NEW t \in Tasks, NEW a \in Agents, Enqueue(t, a)
  PROVE  TableMoves
<1> DEFINE r == [table[t] EXCEPT !.status = "pending", !.agent_url = a]
<1>1. table[t] \in Rows /\ claims[t] = 0
  BY DEF Inv, TypeOK, RowsAreCoherent, Enqueue
<1>2. /\ r \in Rows /\ r.status = "pending" /\ r.agent_url = a
      /\ r.retry_count = table[t].retry_count /\ r.retry_count \in Nat
  BY <1>1 DEF Rows, L!Statuses
<1>3. table' = [table EXCEPT ![t] = r]
  BY DEF Enqueue
<1> HIDE DEF r
<1>4. /\ r.retry_count >= table[t].retry_count
      /\ r.status # "absent" /\ r.agent_url \in Agents
      /\ r.status = "pending" => claims[t] <= r.retry_count
  BY <1>1, <1>2
<1> QED
  BY <1>2, <1>3, <1>4, OneRowMoves

(* A task that is completed was handed out, so its row has an agent.       *)
LEMMA CompleteMoves ==
  ASSUME Inv, NEW t \in Tasks, NEW d \in Decisions, Complete(t, d)
  PROVE  TableMoves
<1> DEFINE r == [table[t] EXCEPT !.status = "completed", !.result = d]
<1>1. table[t] \in Rows /\ table[t].agent_url \in Agents
  BY HandedWasClaimed DEF Inv, TypeOK, RowsAreCoherent, Complete
<1>2. /\ r \in Rows /\ r.status = "completed" /\ r.agent_url \in Agents
      /\ r.retry_count = table[t].retry_count /\ r.retry_count \in Nat
  BY <1>1 DEF Rows, L!Statuses
<1>3. table' = [table EXCEPT ![t] = r]
  BY DEF Complete
<1> HIDE DEF r
<1>4. /\ r.retry_count >= table[t].retry_count
      /\ r.status # "absent" /\ r.agent_url \in Agents
      /\ r.status = "pending" => claims[t] <= r.retry_count
  BY <1>2
<1> QED
  BY <1>2, <1>3, <1>4, OneRowMoves

(* So has the row of one that is marked done.                              *)
LEMMA MarkDoneMoves ==
  ASSUME Inv, NEW t \in Tasks, MarkDone(t)
  PROVE  TableMoves
<1> DEFINE r == [table[t] EXCEPT !.status = "done"]
<1>1. table[t] \in Rows /\ table[t].agent_url \in Agents
  BY DEF Inv, TypeOK, RowsAreCoherent, MarkDone
<1>2. /\ r \in Rows /\ r.status = "done" /\ r.agent_url \in Agents
      /\ r.retry_count = table[t].retry_count /\ r.retry_count \in Nat
  BY <1>1 DEF Rows, L!Statuses
<1>3. table' = [table EXCEPT ![t] = r]
  BY DEF MarkDone
<1> HIDE DEF r
<1>4. /\ r.retry_count >= table[t].retry_count
      /\ r.status # "absent" /\ r.agent_url \in Agents
      /\ r.status = "pending" => claims[t] <= r.retry_count
  BY <1>2
<1> QED
  BY <1>2, <1>3, <1>4, OneRowMoves

(* An expired row has been claimed before, and each claim was counted.     *)
LEMMA RequeueStaleMoves ==
  ASSUME Inv, NEW S \in SUBSET Tasks, RequeueStale(S)
  PROVE  TableMoves
<1> SUFFICES ASSUME NEW t \in Tasks
             PROVE  /\ table'[t] \in Rows
                    /\ table'[t].retry_count >= table[t].retry_count
                    /\ table'[t].status = "absent" => claims[t] = 0
                    /\ table'[t].status = "pending" => claims[t] <= table'[t].retry_count
                    /\ table'[t].status # "absent" => table'[t].agent_url \in Agents
  BY DEF TableMoves, RequeueStale
<1>1. /\ table[t] \in Rows /\ claims[t] \in Nat /\ table[t].retry_count \in Nat
      /\ claims[t] <= table[t].retry_count + 1
  BY DEF Inv, TypeOK, Rows, NoDoubleClaim
<1>2. CASE t \in S
  <2> DEFINE r == [table[t] EXCEPT !.status = "pending", !.retry_count = @ + 1]
  <2>1. table'[t] = r /\ table[t].agent_url \in Agents
    BY <1>2 DEF RequeueStale, Inv, RowsAreCoherent
  <2>2. /\ r.status = "pending" /\ r.agent_url = table[t].agent_url
        /\ r.retry_count = table[t].retry_count + 1
    BY <1>1 DEF Rows
  <2>3. table[t].retry_count + 1 \in Nat /\ "pending" \in L!Statuses
    BY <1>1 DEF L!Statuses
  <2>4. r \in Rows
    BY <1>1, <2>3 DEF Rows
  <2> HIDE DEF r
  <2> QED
    BY <1>1, <2>1, <2>2, <2>4
<1>3. CASE t \notin S
  <2>1. table'[t] = table[t]
    BY <1>3 DEF RequeueStale
  <2> QED
    BY <1>1, <2>1 DEF Inv, RowsAreCoherent
<1> QED
  BY <1>2, <1>3

(* A row that fails is pending no longer.                                  *)
LEMMA FailExhaustedMoves ==
  ASSUME Inv, FailExhausted
  PROVE  TableMoves
<1> SUFFICES ASSUME NEW t \in Tasks
             PROVE  /\ table'[t] \in Rows
                    /\ table'[t].retry_count >= table[t].retry_count
                    /\ table'[t].status = "absent" => claims[t] = 0
                    /\ table'[t].status = "pending" => claims[t] <= table'[t].retry_count
                    /\ table'[t].status # "absent" => table'[t].agent_url \in Agents
  BY DEF TableMoves, FailExhausted
<1>1. table[t] \in Rows /\ table[t].retry_count \in Nat
  BY DEF Inv, TypeOK, Rows
<1>2. CASE table'[t] = table[t]
  BY <1>1, <1>2 DEF Inv, RowsAreCoherent
<1>3. CASE table'[t] # table[t]
  <2> DEFINE r == [table[t] EXCEPT !.status = "failed"]
  <2>1. table'[t] = r /\ table[t].agent_url \in Agents
    BY <1>3 DEF FailExhausted, Inv, RowsAreCoherent
  <2>2. /\ r \in Rows /\ r.status = "failed" /\ r.agent_url = table[t].agent_url
        /\ r.retry_count = table[t].retry_count
    BY <1>1 DEF Rows, L!Statuses
  <2> HIDE DEF r
  <2> QED
    BY <1>1, <2>1, <2>2
<1> QED
  BY <1>2, <1>3

(***************************************************************************)
(* OtherCall: no transaction is open, so no caller relies on a row.        *)
(***************************************************************************)
LEMMA OtherCallInv ==
  ASSUME Inv, NEW p \in Processes, OtherCall(p)
  PROVE  Inv'
<1> USE NoneIsNobody, ProcessOfType
<1>1. TableMoves
  BY EnqueueMoves, CompleteMoves, MarkDoneMoves, RequeueStaleMoves, FailExhaustedMoves
     DEF OtherCall
<1>2. UNCHANGED <<claims, callVars, txVars, historyVars>> /\ writer = None
  BY DEF OtherCall, CanWrite
<1> USE <1>2 DEF callVars, txVars, historyVars
<1>3. TypeOK'
  BY <1>1 DEF Inv, TypeOK, TableMoves
<1>4. LockDiscipline' /\ TransactionsAreHeld'
  BY DEF Inv, LockDiscipline, TransactionsAreHeld
<1>5. FoundStaysPending'
  <2>1. \A c \in Callers : pc[c] \notin {"update", "commit"}
    BY TransactionIsExclusive DEF Inv, TypeOK, InTransaction, Proc
  <2> QED
    BY <2>1 DEF Inv, FoundStaysPending
<1>6. RowsAreCoherent'
  BY <1>1 DEF RowsAreCoherent, TableMoves
<1>7. NoDoubleClaim'
  <2> SUFFICES ASSUME NEW t \in Tasks
               PROVE  /\ handed[t] + Cardinality(Returning(t)) <= claims[t]
                      /\ claims[t] <= table'[t].retry_count + 1
    BY DEF NoDoubleClaim, Returning
  <2>1. /\ claims[t] \in Nat /\ table[t].retry_count \in Nat
        /\ table'[t].retry_count \in Nat
        /\ table'[t].retry_count >= table[t].retry_count
    BY <1>1 DEF Inv, TypeOK, TableMoves, Rows
  <2> QED
    BY <2>1 DEF Inv, NoDoubleClaim
<1> QED
  BY <1>3, <1>4, <1>5, <1>6, <1>7 DEF Inv

-----------------------------------------------------------------------------
(***************************************************************************)
(* Every step preserves the inductive invariant.                           *)
(***************************************************************************)
LEMMA NextInv ==
  ASSUME Inv, [Next]_vars
  PROVE  Inv'
<1>1. ASSUME NEW c \in Callers, ClaimStep(c)
      PROVE  Inv'
  BY <1>1, AcquireInv, BeginInv, BeginRaisesInv, SelectInv, SelectNothingInv, UpdateRowInv,
     CommitInv, StatementRaisesInv, RollbackInv, ReturnInv, ParseRaisesInv
     DEF ClaimStep
<1>2. CASE UNCHANGED vars
  BY <1>2 DEF vars, callVars, txVars, historyVars, Inv, TypeOK, LockDiscipline,
              TransactionsAreHeld, FoundStaysPending, RowsAreCoherent, NoDoubleClaim, Returning
<1> QED
  BY <1>1, <1>2, CallInv, OtherCallInv, CrashInv DEF Next

(***************************************************************************)
(* The inductive invariant holds in every reachable state.                 *)
(***************************************************************************)
THEOREM Invariance == Spec => []Inv
<1>1. Init => Inv
  BY InitInv
<1>2. Inv /\ [Next]_vars => Inv'
  BY NextInv
<1> QED
  BY <1>1, <1>2, PTL DEF Spec

(***************************************************************************)
(* Every variable keeps its type.                                          *)
(***************************************************************************)
THEOREM TypeCorrect == Spec => []TypeOK
<1>1. Inv => TypeOK
  BY DEF Inv
<1> QED
  BY <1>1, Invariance, PTL

(***************************************************************************)
(* claim_next never gives one claim to two callers, and gives out no task  *)
(* whose claim it did not commit, however many threads and processes call. *)
(***************************************************************************)
THEOREM NeverClaimedTwice == Spec => []NoDoubleClaim
<1>1. Inv => NoDoubleClaim
  BY DEF Inv
<1> QED
  BY <1>1, Invariance, PTL

(***************************************************************************)
(* No transaction is left open by a call that ended.                       *)
(***************************************************************************)
THEOREM NoTransactionIsLeft == Spec => []TransactionsAreHeld
<1>1. Inv => TransactionsAreHeld
  BY DEF Inv
<1> QED
  BY <1>1, Invariance, PTL

-----------------------------------------------------------------------------
(***************************************************************************)
(* The protocol implements the lifecycle of a task: the COMMIT of a claim  *)
(* is HandOut, each other method its namesake, everything else a stutter.  *)
(***************************************************************************)

LEMMA InitRefines == Init => L!LifecycleInit
BY DEF Init, L!LifecycleInit

(* The commit of a claim hands out one pending task of the caller's.       *)
LEMMA CommitRefines ==
  ASSUME Inv, NEW c \in Callers, Commit(c)
  PROVE  \E t \in Tasks, a \in Agents : L!HandOut(t, a)
<1>1. PICK t \in Tasks : t = found[c]
  BY DEF Inv, FoundStaysPending, Commit
<1>2. /\ table[t].status = "pending"
      /\ table' = [table EXCEPT ![t].status = "claimed"]
      /\ claims' = [claims EXCEPT ![t] = @ + 1]
  BY <1>1 DEF Inv, FoundStaysPending, Commit
<1>3. PICK a \in Agents : table[t].agent_url = a
  BY <1>2 DEF Inv, RowsAreCoherent
<1>4. table \in [Tasks -> Rows]
  BY DEF Inv, TypeOK
<1>5. L!HandOut(t, a)
  BY <1>2, <1>3, <1>4 DEF L!HandOut, Rows
<1> QED
  BY <1>5

(* Every other writer's transaction is one step of the lifecycle.          *)
LEMMA OtherCallRefines ==
  ASSUME Inv, NEW p \in Processes, OtherCall(p)
  PROVE  L!LifecycleNext
<1>1. table \in [Tasks -> Rows] /\ claims' = claims
  BY DEF Inv, TypeOK, OtherCall
<1>2. ASSUME NEW t \in Tasks, NEW a \in Agents, Enqueue(t, a)
      PROVE  L!Submit(t, a)
  BY <1>1, <1>2 DEF Enqueue, L!Submit, Rows
<1>3. ASSUME NEW t \in Tasks, NEW d \in Decisions, Complete(t, d)
      PROVE  L!Decide(t, d)
  <2>1. claims[t] > 0
    BY <1>3, HandedWasClaimed DEF Complete
  <2> QED
    BY <1>1, <1>3, <2>1 DEF Complete, L!Decide, Rows
<1>4. ASSUME NEW t \in Tasks, MarkDone(t)
      PROVE  L!Close(t)
  BY <1>1, <1>4 DEF MarkDone, L!Close, Rows
<1>5. ASSUME NEW S \in SUBSET Tasks, RequeueStale(S)
      PROVE  S \in SUBSET L!Claimed /\ L!Expire(S)
  BY <1>1, <1>5 DEF RequeueStale, L!Expire, L!Claimed, Rows
<1>6. CASE FailExhausted
  <2>1. L!GiveUp
    BY <1>1, <1>6 DEF FailExhausted, L!GiveUp, L!IsExhausted, Rows
  <2> QED
    BY <2>1 DEF L!LifecycleNext
<1> QED
  BY <1>2, <1>3, <1>4, <1>5, <1>6 DEF OtherCall, L!LifecycleNext

(* All of a claim but its commit leaves the committed table alone.         *)
LEMMA ClaimStepRefines ==
  ASSUME Inv, NEW c \in Callers, ClaimStep(c)
  PROVE  (\E t \in Tasks, a \in Agents : L!HandOut(t, a)) \/ UNCHANGED <<table, claims>>
<1>1. CASE Commit(c)
  BY <1>1, CommitRefines
<1>2. CASE ~Commit(c)
  BY <1>2 DEF ClaimStep, Acquire, Begin, BeginRaises, Select, SelectNothing, UpdateRow,
              StatementRaises, Rollback, Return, ParseRaises
<1> QED
  BY <1>1, <1>2

(* Every step of the protocol is a step of the lifecycle, or a stutter.    *)
LEMMA NextRefines ==
  ASSUME Inv, [Next]_vars
  PROVE  [L!LifecycleNext]_L!lifecycleVars
<1>1. CASE UNCHANGED <<table, claims>>
  BY <1>1 DEF L!lifecycleVars
<1>2. ASSUME NEW c \in Callers, ClaimStep(c)
      PROVE  L!LifecycleNext \/ UNCHANGED <<table, claims>>
  BY <1>2, ClaimStepRefines DEF L!LifecycleNext
<1>3. ASSUME NEW c \in Callers, NEW a \in Agents, Call(c, a)
      PROVE  UNCHANGED <<table, claims>>
  BY <1>3 DEF Call
<1>4. ASSUME NEW p \in Processes, Crash(p)
      PROVE  UNCHANGED <<table, claims>>
  BY <1>4 DEF Crash
<1> QED
  BY <1>1, <1>2, <1>3, <1>4, OtherCallRefines DEF Next, vars

(***************************************************************************)
(* Whatever threads, processes, failing statements and crashes do, what    *)
(* the database commits is a behaviour of the lifecycle TaskQueue, the     *)
(* drain loop and the delivery of results are proved and checked against.  *)
(***************************************************************************)
THEOREM ClaimsAreAtomic == Spec => ImplementsLifecycle
<1>1. Init => L!LifecycleInit
  BY InitRefines
<1>2. Inv /\ [Next]_vars => [L!LifecycleNext]_L!lifecycleVars
  BY NextRefines
<1> QED
  BY <1>1, <1>2, Invariance, PTL DEF Spec, ImplementsLifecycle, L!LifecycleSpec

=============================================================================
