----------------------- MODULE SharedConnectionProofs -----------------------
(***************************************************************************)
(* What SharedConnection guarantees for every number of poll threads, of   *)
(* calls, of failing SQLite calls and of crashes.                          *)
(***************************************************************************)
EXTENDS SharedConnection, TLAPS

(***************************************************************************)
(* From the statement to the end of the call, a thread's write is visible  *)
(* unless SQLite has undone it: nobody else takes it back.  What is        *)
(* durable is visible, and outside a transaction the two are the same,     *)
(* whoever committed.                                                      *)
(***************************************************************************)
WritesAreAccountedFor ==
    /\ returned \subseteq durable \cup undone
    /\ durable \subseteq view
    /\ ~inTransaction => view = durable
    /\ \A c \in Threads : pc[c] \in {"written", "committing"} => Current(c) \in view \cup undone

(***************************************************************************)
(* A call under way has a number.                                          *)
(***************************************************************************)
CallsAreNumbered == \A c \in Threads : pc[c] # "idle" => calls[c] > 0

(***************************************************************************)
(* A thread that is alone finds at BEGIN and at COMMIT what it saw.        *)
(***************************************************************************)
LooksAreFresh ==
    \A c \in alone :
        /\ alone = {c}
        /\ \A d \in Threads : pc[d] # "idle" => d = c
        /\ pc[c] = "beginning" => ~inTransaction
        /\ pc[c] = "committing" => inTransaction

(***************************************************************************)
(* Without a failure of SQLite somebody is there to commit what is open.   *)
(***************************************************************************)
OpenIsAttended ==
    inTransaction /\ faults = 0 =>
        \E c \in Threads : pc[c] \in {"executing", "written", "committing"}

Inv ==
    /\ TypeOK
    /\ CallsAreNumbered
    /\ WritesAreAccountedFor
    /\ LooksAreFresh
    /\ RaisesAreOverlaps
    /\ OpenIsAttended

-----------------------------------------------------------------------------
(***************************************************************************)
(* The fresh store satisfies the inductive invariant.                      *)
(***************************************************************************)
LEMMA InitInv == Init => Inv
<1> SUFFICES ASSUME Init PROVE Inv
  OBVIOUS
<1> USE DEF Init
<1>1. TypeOK
  <2>1. 0 \in 0..MaxWrites /\ 0 \in 0..MaxFaults /\ 0 \in 0..MaxCrashes
    BY BoundsAreNat
  <2> QED
    BY <2>1 DEF TypeOK
<1>2. CallsAreNumbered /\ WritesAreAccountedFor /\ LooksAreFresh /\ RaisesAreOverlaps /\ OpenIsAttended
  BY DEF CallsAreNumbered, WritesAreAccountedFor, LooksAreFresh, RaisesAreOverlaps, OpenIsAttended
<1> QED
  BY <1>1, <1>2 DEF Inv

(***************************************************************************)
(* What a call under way writes is one of the writes.                      *)
(***************************************************************************)
LEMMA CurrentIsWrite ==
  ASSUME Inv, NEW c \in Threads, pc[c] # "idle"
  PROVE  Current(c) \in Writes
<1>1. calls[c] \in 1..MaxWrites
  BY BoundsAreNat DEF Inv, TypeOK, CallsAreNumbered
<1> QED
  BY <1>1 DEF Current, Writes

(***************************************************************************)
(* StartCycle: no call begins yet.                                         *)
(***************************************************************************)
LEMMA StartCycleInv ==
  ASSUME Inv, NEW S \in SUBSET Pollers, StartCycle(S)
  PROVE  Inv'
<1> USE DEF Inv, StartCycle, dbVars, historyVars
<1>1. TypeOK'
  BY BoundsAreNat DEF TypeOK
<1>2. CallsAreNumbered' /\ WritesAreAccountedFor'
  BY DEF CallsAreNumbered, WritesAreAccountedFor, Current, TypeOK
<1>3. LooksAreFresh'
  BY DEF LooksAreFresh, TypeOK
<1>4. RaisesAreOverlaps'
  BY DEF RaisesAreOverlaps, LooksAreFresh, TypeOK
<1>5. OpenIsAttended'
  BY BoundsAreNat DEF OpenIsAttended, TypeOK
<1> QED
  BY <1>1, <1>2, <1>3, <1>4, <1>5

(***************************************************************************)
(* StartWrite: the call is alone if no other runs, and then it looks at a  *)
(* connection nobody else uses.                                            *)
(***************************************************************************)
LEMMA StartWriteInv ==
  ASSUME Inv, NEW c \in Threads, StartWrite(c)
  PROVE  Inv'
<1> USE DEF Inv, StartWrite, Goto, LookBeforeBegin, Running, dbVars
<1>1. TypeOK'
  <2>1. calls[c] + 1 \in 0..MaxWrites
    BY BoundsAreNat DEF TypeOK
  <2>2. calls' \in [Threads -> 0..MaxWrites]
    BY <2>1 DEF TypeOK
  <2> QED
    BY <2>2 DEF TypeOK
<1>2. CallsAreNumbered' /\ WritesAreAccountedFor'
  BY DEF CallsAreNumbered, WritesAreAccountedFor, Current, TypeOK
<1>3. LooksAreFresh'
  BY DEF LooksAreFresh, TypeOK
<1>4. RaisesAreOverlaps'
  BY DEF RaisesAreOverlaps, LooksAreFresh, TypeOK
<1>5. OpenIsAttended'
  BY BoundsAreNat DEF OpenIsAttended, TypeOK
<1> QED
  BY <1>1, <1>2, <1>3, <1>4, <1>5

(***************************************************************************)
(* Begin: the thread that opens the transaction attends to it.             *)
(***************************************************************************)
LEMMA BeginInv ==
  ASSUME Inv, NEW c \in Threads, Begin(c)
  PROVE  Inv'
<1> USE DEF Inv, Begin, Goto, pollerVars, historyVars
<1>1. TypeOK'
  BY DEF TypeOK
<1>2. CallsAreNumbered' /\ WritesAreAccountedFor'
  BY DEF CallsAreNumbered, WritesAreAccountedFor, Current, TypeOK
<1>3. LooksAreFresh'
  BY DEF LooksAreFresh, TypeOK
<1>4. RaisesAreOverlaps'
  BY DEF RaisesAreOverlaps, LooksAreFresh, TypeOK
<1>5. OpenIsAttended'
  BY BoundsAreNat DEF OpenIsAttended, TypeOK
<1> QED
  BY <1>1, <1>2, <1>3, <1>4, <1>5

(***************************************************************************)
(* NestedBegin: a transaction was begun since the look, so the caller was  *)
(* not alone.                                                              *)
(***************************************************************************)
LEMMA NestedBeginInv ==
  ASSUME Inv, NEW c \in Threads, NestedBegin(c)
  PROVE  Inv'
<1> USE DEF Inv, NestedBegin, RaiseIn, EndsPolling, Goto, dbVars
<1>1. TypeOK'
  BY DEF TypeOK
<1>2. CallsAreNumbered' /\ WritesAreAccountedFor'
  BY DEF CallsAreNumbered, WritesAreAccountedFor, Current, TypeOK
<1>3. LooksAreFresh'
  BY DEF LooksAreFresh, TypeOK
<1>4. RaisesAreOverlaps'
  BY DEF RaisesAreOverlaps, LooksAreFresh, TypeOK
<1>5. OpenIsAttended'
  BY BoundsAreNat DEF OpenIsAttended, TypeOK
<1> QED
  BY <1>1, <1>2, <1>3, <1>4, <1>5

(***************************************************************************)
(* Execute: the write is visible, and durable at once outside a            *)
(* transaction.                                                            *)
(***************************************************************************)
LEMMA ExecuteInv ==
  ASSUME Inv, NEW c \in Threads, Execute(c)
  PROVE  Inv'
<1> USE DEF Inv, Execute, Goto, pollerVars, historyVars
<1>1. TypeOK'
  BY CurrentIsWrite DEF TypeOK
<1>2. CallsAreNumbered' /\ WritesAreAccountedFor'
  BY DEF CallsAreNumbered, WritesAreAccountedFor, Current, TypeOK
<1>3. LooksAreFresh'
  BY DEF LooksAreFresh, TypeOK
<1>4. RaisesAreOverlaps'
  BY DEF RaisesAreOverlaps, LooksAreFresh, TypeOK
<1>5. OpenIsAttended'
  BY BoundsAreNat DEF OpenIsAttended, TypeOK
<1> QED
  BY <1>1, <1>2, <1>3, <1>4, <1>5

(***************************************************************************)
(* NothingToCommit: no transaction is open, so what is visible is durable. *)
(***************************************************************************)
LEMMA NothingToCommitInv ==
  ASSUME Inv, NEW c \in Threads, NothingToCommit(c)
  PROVE  Inv'
<1> USE DEF Inv, NothingToCommit, ReturnFrom, Goto, dbVars, pollerVars
<1>1. TypeOK'
  BY CurrentIsWrite DEF TypeOK
<1>2. CallsAreNumbered' /\ WritesAreAccountedFor'
  BY DEF CallsAreNumbered, WritesAreAccountedFor, Current, TypeOK
<1>3. LooksAreFresh'
  BY DEF LooksAreFresh, TypeOK
<1>4. RaisesAreOverlaps'
  BY DEF RaisesAreOverlaps, LooksAreFresh, TypeOK
<1>5. OpenIsAttended'
  BY BoundsAreNat DEF OpenIsAttended, TypeOK
<1> QED
  BY <1>1, <1>2, <1>3, <1>4, <1>5

(***************************************************************************)
(* StartCommit: the look finds a transaction.                              *)
(***************************************************************************)
LEMMA StartCommitInv ==
  ASSUME Inv, NEW c \in Threads, StartCommit(c)
  PROVE  Inv'
<1> USE DEF Inv, StartCommit, Goto, dbVars, pollerVars, historyVars
<1>1. TypeOK'
  BY DEF TypeOK
<1>2. CallsAreNumbered' /\ WritesAreAccountedFor'
  BY DEF CallsAreNumbered, WritesAreAccountedFor, Current, TypeOK
<1>3. LooksAreFresh'
  BY DEF LooksAreFresh, TypeOK
<1>4. RaisesAreOverlaps'
  BY DEF RaisesAreOverlaps, LooksAreFresh, TypeOK
<1>5. OpenIsAttended'
  BY BoundsAreNat DEF OpenIsAttended, TypeOK
<1> QED
  BY <1>1, <1>2, <1>3, <1>4, <1>5

(***************************************************************************)
(* Commit: all that is visible becomes durable, the own write with it.     *)
(***************************************************************************)
LEMMA CommitInv ==
  ASSUME Inv, NEW c \in Threads, Commit(c)
  PROVE  Inv'
<1> USE DEF Inv, Commit, ReturnFrom, Goto, pollerVars
<1>1. TypeOK'
  BY CurrentIsWrite DEF TypeOK
<1>2. CallsAreNumbered' /\ WritesAreAccountedFor'
  BY DEF CallsAreNumbered, WritesAreAccountedFor, Current, TypeOK
<1>3. LooksAreFresh'
  BY DEF LooksAreFresh, TypeOK
<1>4. RaisesAreOverlaps'
  BY DEF RaisesAreOverlaps, LooksAreFresh, TypeOK
<1>5. OpenIsAttended'
  BY BoundsAreNat DEF OpenIsAttended, TypeOK
<1> QED
  BY <1>1, <1>2, <1>3, <1>4, <1>5

(***************************************************************************)
(* LateCommit: another thread has committed since the look.                *)
(***************************************************************************)
LEMMA LateCommitInv ==
  ASSUME Inv, NEW c \in Threads, LateCommit(c)
  PROVE  Inv'
<1> USE DEF Inv, LateCommit, RaiseIn, EndsPolling, Goto, dbVars
<1>1. TypeOK'
  BY DEF TypeOK
<1>2. CallsAreNumbered' /\ WritesAreAccountedFor'
  BY DEF CallsAreNumbered, WritesAreAccountedFor, Current, TypeOK
<1>3. LooksAreFresh'
  BY DEF LooksAreFresh, TypeOK
<1>4. RaisesAreOverlaps'
  BY DEF RaisesAreOverlaps, LooksAreFresh, TypeOK
<1>5. OpenIsAttended'
  BY BoundsAreNat DEF OpenIsAttended, TypeOK
<1> QED
  BY <1>1, <1>2, <1>3, <1>4, <1>5

(***************************************************************************)
(* Fails: the transaction may stay open with nobody to attend to it.       *)
(***************************************************************************)
LEMMA FailsInv ==
  ASSUME Inv, NEW c \in Threads, Fails(c)
  PROVE  Inv'
<1> USE DEF Inv, Fails, RolledBack, Fault, RaiseIn, EndsPolling, Goto, dbVars
<1>1. TypeOK'
  <2>1. faults' \in 0..MaxFaults
    BY BoundsAreNat DEF TypeOK
  <2>2. view' \subseteq Writes /\ undone' \subseteq Writes
    BY DEF TypeOK
  <2> QED
    BY <2>1, <2>2 DEF TypeOK
<1>2. CallsAreNumbered' /\ WritesAreAccountedFor'
  BY DEF CallsAreNumbered, WritesAreAccountedFor, Current, TypeOK
<1>3. LooksAreFresh'
  BY DEF LooksAreFresh, TypeOK
<1>4. RaisesAreOverlaps'
  BY DEF RaisesAreOverlaps, LooksAreFresh, TypeOK
<1>5. OpenIsAttended'
  BY BoundsAreNat DEF OpenIsAttended, TypeOK
<1> QED
  BY <1>1, <1>2, <1>3, <1>4, <1>5

(***************************************************************************)
(* ReadFails: whoever is in a call is alone no longer.                      *)
(***************************************************************************)
LEMMA ReadFailsInv ==
  ASSUME Inv, NEW c \in Threads, ReadFails(c)
  PROVE  Inv'
<1> USE DEF Inv, ReadFails, RolledBack, Fault
<1>1. TypeOK'
  <2>1. faults' \in 0..MaxFaults
    BY BoundsAreNat DEF TypeOK
  <2>2. view' \subseteq Writes /\ undone' \subseteq Writes
    BY DEF TypeOK
  <2> QED
    BY <2>1, <2>2 DEF TypeOK
<1>2. CallsAreNumbered' /\ WritesAreAccountedFor'
  BY DEF CallsAreNumbered, WritesAreAccountedFor, Current, TypeOK
<1>3. LooksAreFresh'
  BY DEF LooksAreFresh, TypeOK
<1>4. RaisesAreOverlaps'
  BY DEF RaisesAreOverlaps, LooksAreFresh, TypeOK
<1>5. OpenIsAttended'
  BY BoundsAreNat DEF OpenIsAttended, TypeOK
<1> QED
  BY <1>1, <1>2, <1>3, <1>4, <1>5

(***************************************************************************)
(* Crash: what is lost was not durable, and so had not returned, or SQLite *)
(* had undone it before.                                                   *)
(***************************************************************************)
LEMMA CrashInv ==
  ASSUME Inv, Crash
  PROVE  Inv'
<1> USE DEF Inv, Crash
<1>1. TypeOK'
  <2>1. crashes + 1 \in 0..MaxCrashes
    BY BoundsAreNat DEF TypeOK
  <2> QED
    BY <2>1 DEF TypeOK
<1>2. CallsAreNumbered' /\ WritesAreAccountedFor'
  BY DEF CallsAreNumbered, WritesAreAccountedFor, Current, TypeOK
<1>3. LooksAreFresh'
  BY DEF LooksAreFresh, TypeOK
<1>4. RaisesAreOverlaps'
  BY DEF RaisesAreOverlaps, LooksAreFresh, TypeOK
<1>5. OpenIsAttended'
  BY BoundsAreNat DEF OpenIsAttended, TypeOK
<1> QED
  BY <1>1, <1>2, <1>3, <1>4, <1>5

-----------------------------------------------------------------------------
(***************************************************************************)
(* Every step preserves the inductive invariant.                           *)
(***************************************************************************)
LEMMA NextInv ==
  ASSUME Inv, [Next]_vars
  PROVE  Inv'
<1>1. CASE UNCHANGED vars
  BY <1>1 DEF vars, dbVars, pollerVars, historyVars, Inv, TypeOK, CallsAreNumbered,
              WritesAreAccountedFor, Current, LooksAreFresh,
              RaisesAreOverlaps, OpenIsAttended
<1>2. ASSUME NEW c \in Threads, WriteStep(c)
      PROVE  Inv'
  BY <1>2, BeginInv, NestedBeginInv, ExecuteInv, NothingToCommitInv, StartCommitInv, CommitInv,
     LateCommitInv
     DEF WriteStep
<1> QED
  BY <1>1, <1>2, StartCycleInv, StartWriteInv, FailsInv, ReadFailsInv, CrashInv DEF Next

(***************************************************************************)
(* The inductive invariant holds in every reachable state.                 *)
(***************************************************************************)
THEOREM Invariance == Spec => []Inv
<1>1. Init => Inv
  BY InitInv
<1>2. Inv /\ [Next]_vars => Inv'
  BY NextInv
<1> QED
  BY <1>1, <1>2, PTL DEF Spec

(***************************************************************************)
(* What a call that returned wrote is on disk, unless SQLite has undone it *)
(* because of an error in another call.                                    *)
(***************************************************************************)
THEOREM ReturnedWritesAreKept == Spec => []ReturnedIsDurable
<1>1. Inv => ReturnedIsDurable
  BY DEF Inv, WritesAreAccountedFor, ReturnedIsDurable
<1> QED
  BY <1>1, Invariance, PTL

(***************************************************************************)
(* A call raises without a failure of SQLite only if another overlapped    *)
(* it.                                                                     *)
(***************************************************************************)
THEOREM OnlyOverlapsRaise == Spec => []RaisesAreOverlaps
<1>1. Inv => RaisesAreOverlaps
  BY DEF Inv
<1> QED
  BY <1>1, Invariance, PTL

(***************************************************************************)
(* Between calls nothing is left open, unless SQLite failed.               *)
(***************************************************************************)
THEOREM NothingIsLeftOpen == Spec => []IdleIsCommitted
<1>1. Inv => IdleIsCommitted
  BY DEF Inv, WritesAreAccountedFor, OpenIsAttended, Running, IdleIsCommitted
<1> QED
  BY <1>1, Invariance, PTL

=============================================================================
