---------------------------- MODULE IntakeProofs ----------------------------
(***************************************************************************)
(* What Intake guarantees for every set of repositories and issues, every  *)
(* page size and max_concurrent, every skew of the clocks, and every       *)
(* number of updates, closings, failures and crashes.                      *)
(***************************************************************************)
EXTENDS Intake, FiniteSetTheorems, TLAPS

(***************************************************************************)
(* What is open was created, and no update lies ahead of GitHub's clock.   *)
(***************************************************************************)
UpdatesArePast ==
    /\ \A i \in open : version[i] > 0
    /\ \A i \in Issues : updatedAt[i] <= now

(***************************************************************************)
(* Between two cycles no poll is under way; a poll holds events only from  *)
(* its fetch to its return, and they are versions of issues of its         *)
(* repository that exist.  Pages have been requested from the first one of *)
(* a fetch to its stamp, and at no other time.                             *)
(***************************************************************************)
BatchesBelongToPolls ==
    /\ mode \in {"sleeping", "off"} => \A r \in Repos : phase[r] = "idle"
    /\ \A r \in Repos :
           /\ phase[r] \notin {"fetching", "stamping", "dispatching"} => batch[r] = {}
           /\ phase[r] \notin {"fetching", "stamping"} => offset[r] = 0
           /\ phase[r] = "stamping" => offset[r] > 0
           /\ \A e \in batch[r] : RepoOf[e[1]] = r /\ e[2] <= version[e[1]]

(***************************************************************************)
(* What the next poll is to see and nothing has befallen is read, or is on *)
(* a page that has not been requested yet; before the stamp it is read.    *)
(***************************************************************************)
IsUnread(i) == Rank(i) >= offset[RepoOf[i]]

FetchesAreComplete ==
    \A i \in Issues :
        Concerns(i) /\ UpdatedSince(i) /\ excuse[i] = "none" =>
            /\ phase[RepoOf[i]] = "fetching" => IsRead(i) \/ IsUnread(i)
            /\ phase[RepoOf[i]] = "stamping" => IsRead(i)

(***************************************************************************)
(* What has its task, or is dispatched, was stamped at or after its last   *)
(* update, by a clock that may be behind; unless the stamp was undone.     *)
(***************************************************************************)
Stamped(i) ==
    LET r == RepoOf[i]
    IN  r \in unstamped \/ (lastPolled[r] # Never /\ updatedAt[i] <= lastPolled[r] + Lag)

DispatchedIsStamped ==
    \A i \in Issues :
        i \in handled \/ (phase[RepoOf[i]] = "dispatching" /\ IsRead(i)) => Stamped(i)

Inv ==
    /\ TypeOK
    /\ UpdatesArePast
    /\ BatchesBelongToPolls
    /\ FetchesAreComplete
    /\ DispatchedIsStamped
    /\ LossIsExplained

Phases == {"idle", "waiting", "fetching", "stamping", "dispatching", "backoff"}

-----------------------------------------------------------------------------
(* Ranks.                                                                  *)

Ahead(i) == {j \in Listing(RepoOf[i]) : Precedes(j, i)}

(***************************************************************************)
(* The listings are finite, before and after a step.                       *)
(***************************************************************************)
LEMMA ListingsAreFinite ==
  ASSUME NEW i \in Issues
  PROVE  /\ IsFiniteSet(Listing(RepoOf[i])) /\ IsFiniteSet(Ahead(i)) /\ IsFiniteSet(Ahead(i)')
         /\ Rank(i) \in Nat /\ Rank(i)' \in Nat
<1>1. /\ Listing(RepoOf[i]) \subseteq Issues /\ Ahead(i) \subseteq Issues
      /\ Ahead(i)' \subseteq Issues
  BY DEF Listing, IssuesOf, Ahead
<1>2. /\ IsFiniteSet(Listing(RepoOf[i])) /\ IsFiniteSet(Ahead(i)) /\ IsFiniteSet(Ahead(i)')
  BY <1>1, IssuesAreFinite, FS_Subset
<1> QED
  BY <1>2, FS_CardinalityType DEF Rank, Ahead

(***************************************************************************)
(* An issue of the listing has its rank within it.                         *)
(***************************************************************************)
LEMMA RankIsInListing ==
  ASSUME TypeOK, NEW i \in Issues, i \in Listing(RepoOf[i])
  PROVE  Rank(i) < Cardinality(Listing(RepoOf[i]))
<1>1. Ahead(i) \subseteq Listing(RepoOf[i])
  BY DEF Ahead
<1>2. i \notin Ahead(i)
  BY NumberType, BoundsAreNat DEF Ahead, Precedes, TypeOK
<1>3. IsFiniteSet(Listing(RepoOf[i]))
  BY ListingsAreFinite
<1>4. /\ Cardinality(Ahead(i)) <= Cardinality(Listing(RepoOf[i]))
      /\ Cardinality(Ahead(i)) # Cardinality(Listing(RepoOf[i]))
  BY <1>1, <1>2, <1>3, FS_Subset
<1>5. Cardinality(Ahead(i)) \in Nat /\ Cardinality(Listing(RepoOf[i])) \in Nat
  BY <1>3, ListingsAreFinite, FS_CardinalityType
<1> QED
  BY <1>4, <1>5 DEF Rank, Ahead

(***************************************************************************)
(* An issue moves back in the listing, or stays, if those before it do.    *)
(***************************************************************************)
LEMMA RankGrows ==
  ASSUME NEW i \in Issues, Ahead(i) \subseteq Ahead(i)'
  PROVE  Rank(i) <= Rank(i)'
<1>1. Cardinality(Ahead(i)) <= Cardinality(Ahead(i)')
  BY ListingsAreFinite, FS_Subset
<1> QED
  BY <1>1 DEF Rank, Ahead

LEMMA RankStays ==
  ASSUME NEW i \in Issues, UNCHANGED <<open, updatedAt>>,
         lastPolled'[RepoOf[i]] = lastPolled[RepoOf[i]]
  PROVE  Rank(i)' = Rank(i)
<1>1. \A j \in IssuesOf(RepoOf[i]) : UpdatedSince(j)' <=> UpdatedSince(j)
  BY DEF IssuesOf, UpdatedSince
<1>2. Listing(RepoOf[i])' = Listing(RepoOf[i])
  BY <1>1 DEF Listing
<1>3. Ahead(i)' = Ahead(i)
  BY <1>2 DEF Ahead, Precedes
<1> QED
  BY <1>3 DEF Rank, Ahead

-----------------------------------------------------------------------------
(***************************************************************************)
(* Nothing was created, polled or dispatched yet.                          *)
(***************************************************************************)
LEMMA InitInv == Init => Inv
<1> SUFFICES ASSUME Init PROVE Inv
  OBVIOUS
<1> USE DEF Init
<1>1. TypeOK
  <2>1. 0 \in 0..MaxTime /\ 0 \in 0..MaxVersion /\ 0 \in 0..MaxFaults /\ 0 \in 0..1
    BY BoundsAreNat
  <2>2. version \in [Issues -> 0..MaxVersion] /\ updatedAt \in [Issues -> 0..MaxTime]
    BY <2>1
  <2>3. /\ batch \in [Repos -> SUBSET Events] /\ attempt \in [Repos -> 0..1]
        /\ offset \in [Repos -> Nat] /\ excuse \in [Issues -> Excuses]
        /\ lastPolled \in [Repos -> (-Lag)..(MaxTime + Lead) \cup {Never}]
    BY <2>1 DEF Excuses
  <2>4. phase \in [Repos -> Phases]
    BY DEF Phases
  <2>5. /\ now = 0 /\ mode = "sleeping" /\ urlKnown = FALSE /\ faults = 0
        /\ open = {} /\ handled = {} /\ unstamped = {}
    OBVIOUS
  <2> HIDE DEF Init
  <2> QED
    BY <2>1, <2>2, <2>3, <2>4, <2>5 DEF TypeOK, Phases
<1>2. UpdatesArePast /\ BatchesBelongToPolls
  BY RepoOfType DEF UpdatesArePast, BatchesBelongToPolls
<1>3. FetchesAreComplete /\ DispatchedIsStamped /\ LossIsExplained
  BY RepoOfType DEF FetchesAreComplete, DispatchedIsStamped, LossIsExplained, Concerns
<1> QED
  BY <1>1, <1>2, <1>3 DEF Inv

-----------------------------------------------------------------------------
(***************************************************************************)
(* A step that only moves time, the poller task, or polls that hold no     *)
(* events afterwards and did not dispatch any.                             *)
(***************************************************************************)
LEMMA QuietMovesInv ==
  ASSUME Inv, TypeOK', now' >= now,
         UNCHANGED <<githubVars, lastPolled, handled, historyVars>>,
         \A r \in Repos :
             \/ /\ phase'[r] = phase[r] /\ offset'[r] = offset[r] /\ batch'[r] = batch[r]
             \/ /\ offset'[r] = 0 /\ batch'[r] = {}
                /\ phase[r] = "dispatching" => batch[r] = {}
                /\ phase'[r] \notin {"stamping", "dispatching"},
         mode' \in {"sleeping", "off"} => \A r \in Repos : phase'[r] = "idle"
  PROVE  Inv'
<1> USE DEF Inv, githubVars, historyVars
<1>1. UpdatesArePast'
  <2>1. now \in Int /\ now' \in Int /\ updatedAt \in [Issues -> Int]
    BY BoundsAreNat DEF TypeOK
  <2> QED
    BY <2>1 DEF UpdatesArePast
<1>2. BatchesBelongToPolls'
  BY DEF BatchesBelongToPolls
<1>3. \A i \in Issues : RepoOf[i] \in Repos
  BY RepoOfType
<1>4. \A i \in Issues :
        /\ (Stamped(i) <=> Stamped(i)') /\ (Concerns(i) <=> Concerns(i)')
        /\ (UpdatedSince(i) <=> UpdatedSince(i)') /\ Rank(i)' = Rank(i) /\ Rank(i) \in Nat
  BY RankStays, ListingsAreFinite DEF Stamped, Concerns, UpdatedSince
<1>5. \A i \in Issues : batch'[RepoOf[i]] = batch[RepoOf[i]] => (IsRead(i)' <=> IsRead(i))
  BY DEF IsRead, IsLatest
<1>6. \A i \in Issues : batch[RepoOf[i]] = {} => ~IsRead(i)
  BY DEF IsRead
<1>7. \A i \in Issues : batch'[RepoOf[i]] = {} => ~IsRead(i)'
  BY DEF IsRead
<1>8. FetchesAreComplete'
  BY <1>3, <1>4, <1>5, <1>7 DEF FetchesAreComplete, IsUnread
<1>9. DispatchedIsStamped'
  BY <1>3, <1>4, <1>5, <1>7 DEF DispatchedIsStamped
<1>10. LossIsExplained'
  BY <1>3, <1>4, <1>5, <1>6 DEF LossIsExplained, IsCovered
<1> QED
  BY <1>1, <1>2, <1>8, <1>9, <1>10

(***************************************************************************)
(* Tick and RegisterUrl, and the steps of the poller task and its polls    *)
(* that satisfy the hypotheses of QuietMovesInv.                           *)
(***************************************************************************)
LEMMA TimeInv ==
  ASSUME Inv, Tick \/ RegisterUrl
  PROVE  Inv'
<1>1. TypeOK'
  <2>1. Tick => now + 1 \in 0..MaxTime
    BY BoundsAreNat DEF Tick, Inv, TypeOK
  <2> QED
    BY <2>1 DEF Tick, RegisterUrl, Inv, TypeOK, githubVars, pollerVars, historyVars
<1>2. now' >= now
  BY BoundsAreNat DEF Tick, RegisterUrl, Inv, TypeOK
<1> QED
  BY <1>1, <1>2, QuietMovesInv
     DEF Tick, RegisterUrl, pollerVars, Inv, BatchesBelongToPolls

(* The start and the end of a poll cycle, and the start of the harness.    *)
LEMMA CycleInv ==
  ASSUME Inv, StartCycle \/ EndCycle \/ Restart
  PROVE  Inv'
<1> USE DEF StartCycle, EndCycle, Restart
<1>1. TypeOK'
  BY DEF Inv, TypeOK, githubVars, historyVars
<1>2. now' >= now
  BY BoundsAreNat DEF Inv, TypeOK
<1>3. \A r \in Repos : phase'[r] # phase[r] =>
        /\ phase[r] = "idle" /\ batch[r] = {} /\ offset[r] = 0 /\ phase'[r] = "waiting"
  BY DEF Inv, BatchesBelongToPolls
<1> QED
  BY <1>1, <1>2, <1>3, QuietMovesInv DEF Inv, BatchesBelongToPolls

(* The steps of a poll that fetch and dispatch nothing.                    *)
LEMMA IdlePollInv ==
  ASSUME Inv, NEW r \in Repos,
         \/ Acquire(r) \/ PollReturns(r) \/ BackoffEnds(r)
         \/ RateLimited(r) \/ ApiFails(r)
  PROVE  Inv'
<1> USE DEF Acquire, PollReturns, BackoffEnds, RateLimited, ApiFails, LeaveFetch
<1>1. /\ phase' \in [Repos -> Phases] /\ attempt' \in [Repos -> 0..1]
      /\ offset' \in [Repos -> Nat] /\ batch' \in [Repos -> SUBSET Events]
      /\ \A s \in Repos : s # r =>
             phase'[s] = phase[s] /\ offset'[s] = offset[s] /\ batch'[s] = batch[s]
      /\ phase'[r] \in {"idle", "fetching", "backoff"} /\ phase[r] # "idle"
      /\ phase[r] = "dispatching" => batch[r] = {}
      /\ offset'[r] = 0 /\ batch'[r] = {}
  <2>1. /\ phase[r] \in {"waiting", "fetching", "backoff", "dispatching"}
        /\ phase[r] = "dispatching" => batch[r] = {}
    OBVIOUS
  <2>2. \/ phase' = [phase EXCEPT ![r] = "fetching"]
        \/ phase' = [phase EXCEPT ![r] = "backoff"]
        \/ phase' = [phase EXCEPT ![r] = "idle"]
    OBVIOUS
  <2>3. \/ attempt' = attempt
        \/ attempt' = [attempt EXCEPT ![r] = 0]
        \/ attempt' = [attempt EXCEPT ![r] = 1]
    OBVIOUS
  <2>4. \/ offset' = [offset EXCEPT ![r] = 0] /\ batch' = [batch EXCEPT ![r] = {}]
        \/ /\ offset' = offset /\ batch' = batch
           /\ phase[r] # "fetching"
    OBVIOUS
  <2> HIDE DEF Acquire, PollReturns, BackoffEnds, RateLimited, ApiFails, LeaveFetch
  <2>5. attempt' \in [Repos -> 0..1]
    <3>1. attempt \in [Repos -> 0..1] /\ 0 \in 0..1 /\ 1 \in 0..1
      BY DEF Inv, TypeOK
    <3> QED
      BY <2>3, <3>1
  <2>6. /\ phase' \in [Repos -> Phases]
        /\ \A s \in Repos : s # r => phase'[s] = phase[s]
        /\ phase'[r] \in {"idle", "fetching", "backoff"}
    BY <2>2 DEF Inv, TypeOK, Phases
  <2>7. /\ offset' \in [Repos -> Nat] /\ batch' \in [Repos -> SUBSET Events]
        /\ \A s \in Repos : s # r => offset'[s] = offset[s] /\ batch'[s] = batch[s]
        /\ offset'[r] = 0 /\ batch'[r] = {}
    BY <2>1, <2>4 DEF Inv, TypeOK, BatchesBelongToPolls
  <2> QED
    BY <2>1, <2>5, <2>6, <2>7
<1>2. faults' \in 0..MaxFaults
  <2>1. faults < MaxFaults => faults + 1 \in 0..MaxFaults
    BY BoundsAreNat DEF Inv, TypeOK
  <2> QED
    BY <2>1 DEF Inv, TypeOK, Fault
<1>3. UNCHANGED <<now, githubVars, lastPolled, mode, handled, urlKnown, historyVars>>
  OBVIOUS
<1>4. TypeOK'
  BY <1>1, <1>2, <1>3 DEF Inv, TypeOK, githubVars, historyVars, Phases
<1>5. now' >= now
  BY <1>3, BoundsAreNat DEF Inv, TypeOK
<1>6. mode' \notin {"sleeping", "off"}
  BY <1>1, <1>3 DEF Inv, BatchesBelongToPolls
<1> QED
  BY <1>1, <1>3, <1>4, <1>5, <1>6, QuietMovesInv

-----------------------------------------------------------------------------
(***************************************************************************)
(* Update: the issue comes to the front of the listing, and the others     *)
(* move back or stay.  It is unread, and the next poll sees it, unless its *)
(* repository is being fetched or the last stamp is ahead.                 *)
(***************************************************************************)
LEMMA UpdateInv ==
  ASSUME Inv, NEW i \in Issues, Update(i)
  PROVE  Inv'
<1> USE DEF Inv
<1> DEFINE why == IF i \in Collaborators THEN "none"
                  ELSE IF offset[RepoOf[i]] > 0 THEN "late"
                  ELSE IF lastPolled[RepoOf[i]] # Never /\ now < lastPolled[RepoOf[i]]
                  THEN "outrun" ELSE "none"
<1>1. /\ version' = [version EXCEPT ![i] = @ + 1]
      /\ updatedAt' = [updatedAt EXCEPT ![i] = now]
      /\ open' = open \cup {i} /\ handled' = handled \ {i}
      /\ excuse' = [excuse EXCEPT ![i] = why]
      /\ UNCHANGED <<now, lastPolled, mode, phase, attempt, offset, batch, urlKnown,
                     faults, unstamped>>
      /\ version[i] < MaxVersion
  BY DEF Update, pollerVars
<1>2. /\ version[i] \in Nat /\ version'[i] = version[i] + 1 /\ version[i] + 1 \in 0..MaxVersion
      /\ \A j \in Issues : j # i => version'[j] = version[j] /\ updatedAt'[j] = updatedAt[j]
                                    /\ excuse'[j] = excuse[j]
      /\ updatedAt'[i] = now /\ excuse'[i] = why /\ now \in Int
  BY <1>1, BoundsAreNat DEF TypeOK
<1>3. why \in Excuses
  BY DEF Excuses
<1> HIDE DEF why
<1>4. TypeOK'
  BY <1>1, <1>2, <1>3 DEF TypeOK
<1>5. UpdatesArePast'
  BY <1>1, <1>2 DEF UpdatesArePast
<1>6. /\ \A r \in Repos : \A e \in batch[r] : /\ e[1] \in Issues /\ e[2] \in Int
                                             /\ RepoOf[e[1]] = r /\ e[2] <= version[e[1]]
      /\ \A j \in Issues : RepoOf[j] \in Repos /\ version[j] \in Int
  BY BoundsAreNat, RepoOfType DEF BatchesBelongToPolls, TypeOK, Events
<1>7. BatchesBelongToPolls'
  <2>1. \A r \in Repos : \A e \in batch[r] : e[2] <= version'[e[1]]
    BY <1>2, <1>6
  <2> QED
    BY <1>1, <1>6, <2>1 DEF BatchesBelongToPolls
<1>8. ~IsRead(i)' /\ i \notin handled'
  <2>1. \A e \in batch[RepoOf[i]] : e[1] = i => e[2] # version[i] + 1
    BY <1>2, <1>6
  <2> QED
    BY <1>1, <1>2, <2>1 DEF IsRead, IsLatest
<1>9. \A j \in Issues : j # i =>
        /\ IsRead(j)' <=> IsRead(j)
        /\ Concerns(j)' <=> Concerns(j)
        /\ Stamped(j)' <=> Stamped(j)
        /\ UpdatedSince(j)' <=> UpdatedSince(j)
        /\ (j \in handled' <=> j \in handled) /\ excuse'[j] = excuse[j]
  BY <1>1, <1>2 DEF IsRead, IsLatest, Concerns, Stamped, UpdatedSince
<1>10. ASSUME NEW j \in Issues, j # i, UpdatedSince(j)
       PROVE  Rank(j) <= Rank(j)'
  <2> SUFFICES ASSUME NEW k \in Ahead(j) PROVE k \in Ahead(j)'
    BY RankGrows
  <2>1. /\ k \in Issues /\ RepoOf[k] = RepoOf[j] /\ k \in open /\ UpdatedSince(k)
        /\ Precedes(k, j)
    BY DEF Ahead, Listing, IssuesOf
  <2>2. /\ updatedAt[k] \in Int /\ updatedAt[j] \in Int /\ updatedAt[k] <= now
        /\ Number[k] \in Nat /\ Number[j] \in Nat
        /\ updatedAt[j] <= now /\ updatedAt'[j] = updatedAt[j]
    BY <1>2, <1>10, <2>1, BoundsAreNat, NumberType DEF TypeOK, UpdatesArePast
  <2>3. updatedAt'[k] >= updatedAt[k] /\ updatedAt'[k] \in Int /\ updatedAt'[k] <= now
    BY <1>2, <2>1, <2>2
  <2>4. Precedes(k, j)'
    BY <2>1, <2>2, <2>3 DEF Precedes
  <2>5. UpdatedSince(k)'
    <3>1. CASE lastPolled[RepoOf[k]] = Never
      BY <1>1, <3>1 DEF UpdatedSince
    <3>2. CASE lastPolled[RepoOf[k]] # Never
      <4>1. lastPolled[RepoOf[k]] \in Int /\ updatedAt[k] >= lastPolled[RepoOf[k]]
        BY <1>6, <2>1, <3>2, BoundsAreNat, SkewsAreNat DEF UpdatedSince, TypeOK
      <4> QED
        BY <1>1, <2>2, <2>3, <4>1 DEF UpdatedSince
    <3> QED
      BY <3>1, <3>2
  <2> QED
    BY <1>1, <2>1, <2>4, <2>5 DEF Ahead, Listing, IssuesOf
<1>11. why = "none" /\ i \notin Collaborators => offset[RepoOf[i]] = 0 /\ UpdatedSince(i)'
  <2>1. RepoOf[i] \in Repos /\ offset[RepoOf[i]] \in Nat
    BY RepoOfType DEF TypeOK
  <2>2. lastPolled[RepoOf[i]] # Never => lastPolled[RepoOf[i]] \in Int
    BY <2>1, BoundsAreNat, SkewsAreNat DEF TypeOK
  <2> QED
    BY <1>1, <1>2, <2>1, <2>2 DEF why, UpdatedSince
<1>12. FetchesAreComplete'
  <2> SUFFICES ASSUME NEW j \in Issues, Concerns(j)', UpdatedSince(j)', excuse'[j] = "none"
               PROVE  /\ phase[RepoOf[j]] = "fetching" => IsRead(j)' \/ IsUnread(j)'
                      /\ phase[RepoOf[j]] = "stamping" => IsRead(j)'
    BY <1>1 DEF FetchesAreComplete
  <2>1. Rank(j) \in Nat /\ Rank(j)' \in Nat /\ offset[RepoOf[j]] \in Nat
    BY <1>6, ListingsAreFinite DEF TypeOK
  <2>2. CASE j = i
    <3>1. offset[RepoOf[i]] = 0
      BY <1>2, <1>11, <2>2 DEF Concerns
    <3>2. phase[RepoOf[i]] # "stamping"
      BY <1>6, <3>1 DEF BatchesBelongToPolls
    <3> QED
      BY <1>1, <2>1, <2>2, <3>1, <3>2 DEF IsUnread
  <2>3. CASE j # i
    BY <1>1, <1>9, <1>10, <2>1, <2>3 DEF FetchesAreComplete, IsUnread
  <2> QED
    BY <2>2, <2>3
<1>13. DispatchedIsStamped'
  BY <1>1, <1>8, <1>9 DEF DispatchedIsStamped
<1>14. LossIsExplained'
  <2>1. CASE Concerns(i)'
    BY <1>1, <1>2, <1>9, <1>11, <2>1 DEF LossIsExplained, IsCovered, Concerns
  <2>2. CASE ~Concerns(i)'
    BY <1>1, <1>2, <1>9, <2>2 DEF LossIsExplained, IsCovered
  <2> QED
    BY <2>1, <2>2
<1> QED
  BY <1>4, <1>5, <1>7, <1>12, <1>13, <1>14

(***************************************************************************)
(* Close: an issue moves up by one place, if at all.  If that takes it to  *)
(* a page that was requested already, it has been shifted.                 *)
(***************************************************************************)
LEMMA CloseInv ==
  ASSUME Inv, NEW i \in Issues, Close(i)
  PROVE  Inv'
<1> USE DEF Inv
<1>1. /\ open' = open \ {i} /\ handled' = handled \ {i}
      /\ UNCHANGED <<now, version, updatedAt, lastPolled, mode, phase, attempt, offset,
                     batch, urlKnown, faults, unstamped>>
  BY DEF Close, pollerVars
<1> DEFINE shifted == {j \in Listing(RepoOf[i]) \ Collaborators :
                          /\ phase[RepoOf[i]] = "fetching" /\ ~IsRead(j)
                          /\ Precedes(i, j) /\ Rank(j) = offset[RepoOf[i]]}
<1>2. excuse' = [j \in Issues |-> IF j = i THEN "none"
                                  ELSE IF j \in shifted THEN "shifted" ELSE excuse[j]]
  BY DEF Close
<1>3. /\ excuse'[i] = "none"
      /\ \A j \in Issues : j # i /\ j \in shifted => excuse'[j] = "shifted"
      /\ \A j \in Issues : j # i /\ j \notin shifted => excuse'[j] = excuse[j]
      /\ excuse' \in [Issues -> Excuses]
  <2> HIDE DEF shifted
  <2>1. \A j \in Issues : excuse'[j] = IF j = i THEN "none"
                                       ELSE IF j \in shifted THEN "shifted" ELSE excuse[j]
    BY <1>2
  <2>2. \A j \in Issues : excuse'[j] \in Excuses
    BY <2>1 DEF TypeOK, Excuses
  <2> QED
    BY <1>2, <2>1, <2>2
<1>4. TypeOK'
  BY <1>1, <1>3 DEF TypeOK
<1>5. UpdatesArePast' /\ BatchesBelongToPolls'
  BY <1>1 DEF UpdatesArePast, BatchesBelongToPolls
<1>6. \A j \in Issues :
        /\ IsRead(j)' <=> IsRead(j)
        /\ Concerns(j)' <=> Concerns(j) /\ j # i
        /\ Stamped(j)' <=> Stamped(j)
        /\ UpdatedSince(j)' <=> UpdatedSince(j)
  BY <1>1 DEF IsRead, IsLatest, Concerns, Stamped, UpdatedSince
<1>7. ASSUME NEW j \in Issues
      PROVE  /\ Ahead(j)' = Ahead(j) \ {i}
             /\ Rank(j)' >= Rank(j) - 1
             /\ i \notin Ahead(j) => Rank(j)' = Rank(j)
  <2>1. Ahead(j)' = Ahead(j) \ {i}
    BY <1>1, <1>6 DEF Ahead, Listing, IssuesOf, Precedes
  <2>2. CASE i \in Ahead(j)
    <3>1. Cardinality(Ahead(j) \ {i}) = Cardinality(Ahead(j)) - 1
      BY <2>2, ListingsAreFinite, FS_RemoveElement
    <3>2. Rank(j)' = Rank(j) - 1
      BY <2>1, <3>1 DEF Rank, Ahead
    <3> QED
      BY <2>1, <2>2, <3>2, ListingsAreFinite
  <2>3. CASE i \notin Ahead(j)
    <3>1. Ahead(j)' = Ahead(j)
      BY <2>1, <2>3
    <3>2. Rank(j)' = Rank(j)
      BY <3>1 DEF Rank, Ahead
    <3> QED
      BY <2>1, <3>2, ListingsAreFinite
  <2> QED
    BY <2>2, <2>3
<1>8. FetchesAreComplete'
  <2> SUFFICES ASSUME NEW j \in Issues, Concerns(j)', UpdatedSince(j)', excuse'[j] = "none"
               PROVE  /\ phase[RepoOf[j]] = "fetching" => IsRead(j) \/ IsUnread(j)'
                      /\ phase[RepoOf[j]] = "stamping" => IsRead(j)
    BY <1>1, <1>6 DEF FetchesAreComplete
  <2>1. /\ j # i /\ j \notin shifted /\ excuse[j] = "none"
        /\ Concerns(j) /\ UpdatedSince(j)
    BY <1>3, <1>6
  <2>2. /\ phase[RepoOf[j]] = "fetching" => IsRead(j) \/ Rank(j) >= offset[RepoOf[j]]
        /\ phase[RepoOf[j]] = "stamping" => IsRead(j)
    BY <2>1 DEF FetchesAreComplete, IsUnread
  <2>3. Rank(j) \in Nat /\ Rank(j)' \in Nat /\ offset[RepoOf[j]] \in Nat
    BY RepoOfType, ListingsAreFinite DEF TypeOK
  <2>4. ASSUME phase[RepoOf[j]] = "fetching", ~IsRead(j)
        PROVE  Rank(j)' >= offset[RepoOf[j]]
    <3>1. CASE i \in Ahead(j)
      <4>1. /\ RepoOf[i] = RepoOf[j] /\ Precedes(i, j)
            /\ j \in Listing(RepoOf[j]) \ Collaborators
        BY <2>1, <3>1 DEF Ahead, Listing, IssuesOf, Concerns
      <4>2. Rank(j) # offset[RepoOf[j]]
        BY <2>1, <2>4, <4>1
      <4> HIDE DEF shifted
      <4> QED
        BY <1>7, <2>2, <2>3, <2>4, <4>2
    <3>2. CASE i \notin Ahead(j)
      BY <1>7, <2>2, <2>4, <3>2
    <3> QED
      BY <3>1, <3>2
  <2> QED
    BY <1>1, <2>2, <2>4 DEF IsUnread
<1> HIDE DEF shifted
<1>9. DispatchedIsStamped'
  BY <1>1, <1>6 DEF DispatchedIsStamped
<1>10. LossIsExplained'
  BY <1>1, <1>3, <1>6 DEF LossIsExplained, IsCovered
<1> QED
  BY <1>4, <1>5, <1>8, <1>9, <1>10

-----------------------------------------------------------------------------
(***************************************************************************)
(* FetchPage: what was unread is read, or is on a later page; and there is *)
(* none after the last one.                                                *)
(***************************************************************************)
LEMMA FetchPageInv ==
  ASSUME Inv, NEW r \in Repos, FetchPage(r)
  PROVE  Inv'
<1> USE DEF Inv
<1> DEFINE next == offset[r] + PageSize
           read == {i \in Listing(r) : Rank(i) \in offset[r]..(next - 1)} \ Collaborators
           events == {<<i, version[i], offset[r]>> : i \in read}
           more == Cardinality(Listing(r)) > next
<1>1. /\ phase[r] = "fetching"
      /\ offset' = [offset EXCEPT ![r] = next]
      /\ batch' = [batch EXCEPT ![r] = @ \cup events]
      /\ phase' = [phase EXCEPT ![r] = IF more THEN @ ELSE "stamping"]
      /\ excuse' = [i \in Issues |-> IF i \in read THEN "none" ELSE excuse[i]]
      /\ UNCHANGED <<now, githubVars, lastPolled, mode, attempt, handled, urlKnown, faults,
                     unstamped>>
  BY DEF FetchPage
<1>2. offset[r] \in Nat /\ next \in Nat /\ next > 0 /\ next > offset[r]
  BY PageSizeIsPositive DEF TypeOK
<1>3. \A i \in read : i \in Issues /\ RepoOf[i] = r /\ UpdatedSince(i) /\ i \in open
  BY DEF Listing, IssuesOf
<1>4. ASSUME NEW i \in Issues, RepoOf[i] = r, Concerns(i), UpdatedSince(i), IsUnread(i),
             i \notin read
      PROVE  more /\ Rank(i) >= next
  <2>1. i \in Listing(r) /\ Rank(i) \in Nat
    BY <1>4, ListingsAreFinite DEF Concerns, Listing, IssuesOf
  <2>2. Rank(i) >= next
    BY <1>2, <1>4, <2>1 DEF Concerns, IsUnread
  <2>3. Rank(i) < Cardinality(Listing(r)) /\ Cardinality(Listing(r)) \in Nat
    BY <1>4, <2>1, RankIsInListing, ListingsAreFinite, FS_CardinalityType
  <2> QED
    BY <1>2, <2>1, <2>2, <2>3
<1> HIDE DEF read
<1>5. /\ events \subseteq Events
      /\ \A e \in events : RepoOf[e[1]] = r /\ e[2] <= version[e[1]]
  <2> SUFFICES ASSUME NEW i \in read
               PROVE  <<i, version[i], offset[r]>> \in Events /\ version[i] <= version[i]
    BY <1>3
  <2>1. version[i] \in 1..MaxVersion
    BY <1>3, BoundsAreNat DEF TypeOK, UpdatesArePast
  <2> QED
    BY <1>2, <1>3, <2>1, BoundsAreNat DEF Events
<1>6. \A i \in read : IsRead(i)'
  <2> SUFFICES ASSUME NEW i \in read PROVE IsRead(i)'
    OBVIOUS
  <2>1. <<i, version[i], offset[r]>> \in batch'[RepoOf[i]] /\ version' = version
    BY <1>1, <1>3 DEF TypeOK, githubVars
  <2> QED
    BY <2>1 DEF IsRead, IsLatest
<1> HIDE DEF events, next
<1>7. /\ phase'[r] = IF more THEN "fetching" ELSE "stamping"
      /\ offset'[r] = next /\ batch'[r] = batch[r] \cup events
      /\ \A s \in Repos : s # r =>
             phase'[s] = phase[s] /\ offset'[s] = offset[s] /\ batch'[s] = batch[s]
      /\ \A i \in Issues : excuse'[i] = IF i \in read THEN "none" ELSE excuse[i]
      /\ version' = version /\ updatedAt' = updatedAt /\ open' = open
  BY <1>1 DEF TypeOK, githubVars
<1>8. TypeOK'
  <2>1. \A i \in Issues : excuse'[i] \in Excuses
    BY <1>7 DEF TypeOK, Excuses
  <2>2. excuse' \in [Issues -> Excuses]
    BY <1>1, <2>1
  <2>3. phase' \in [Repos -> Phases] /\ batch' \in [Repos -> SUBSET Events]
    BY <1>1, <1>5 DEF TypeOK, Phases
  <2> QED
    BY <1>1, <1>2, <2>2, <2>3 DEF TypeOK, githubVars, Phases
<1>9. UpdatesArePast' /\ BatchesBelongToPolls'
  BY <1>1, <1>2, <1>5, <1>7 DEF UpdatesArePast, BatchesBelongToPolls
<1>10. \A i \in Issues :
        /\ RepoOf[i] \in Repos
        /\ Concerns(i)' <=> Concerns(i)
        /\ Stamped(i)' <=> Stamped(i)
        /\ UpdatedSince(i)' <=> UpdatedSince(i)
        /\ RepoOf[i] # r => (IsRead(i)' <=> IsRead(i))
        /\ IsRead(i) => IsRead(i)'
        /\ Rank(i)' = Rank(i)
  BY <1>1, <1>7, RepoOfType, RankStays
     DEF IsRead, IsLatest, Concerns, Stamped, UpdatedSince
<1>11. FetchesAreComplete'
  <2> SUFFICES ASSUME NEW i \in Issues, Concerns(i), UpdatedSince(i), excuse'[i] = "none"
               PROVE  /\ phase'[RepoOf[i]] = "fetching" => IsRead(i)' \/ IsUnread(i)'
                      /\ phase'[RepoOf[i]] = "stamping" => IsRead(i)'
    BY <1>10 DEF FetchesAreComplete
  <2>1. CASE RepoOf[i] # r
    <3>1. i \notin read
      BY <1>3, <2>1
    <3> QED
      BY <1>7, <1>10, <2>1, <3>1 DEF FetchesAreComplete, IsUnread
  <2>2. CASE RepoOf[i] = r /\ i \in read
    BY <1>6, <2>2
  <2>3. CASE RepoOf[i] = r /\ i \notin read
    <3>1. IsRead(i) \/ IsUnread(i)
      BY <1>1, <1>7, <2>3 DEF FetchesAreComplete
    <3>2. IsUnread(i) => more /\ Rank(i) >= next
      BY <1>4, <2>3
    <3> HIDE DEF more
    <3> QED
      BY <1>7, <1>10, <2>3, <3>1, <3>2 DEF IsUnread
  <2> QED
    BY <2>1, <2>2, <2>3
<1>12. DispatchedIsStamped'
  BY <1>1, <1>7, <1>10 DEF DispatchedIsStamped
<1>13. LossIsExplained'
  BY <1>1, <1>3, <1>7, <1>10 DEF LossIsExplained, IsCovered
<1> QED
  BY <1>8, <1>9, <1>11, <1>12, <1>13

-----------------------------------------------------------------------------
(***************************************************************************)
(* A stamp that is kept covers what its poll has read: it is behind by Lag *)
(* at most.                                                                *)
(***************************************************************************)
LEMMA StampCovers ==
  ASSUME Inv, NEW r \in Repos, NEW time \in ClockReadings, StampedAt(r, time),
         UNCHANGED <<now, githubVars>>
  PROVE  /\ lastPolled' \in [Repos -> (-Lag)..(MaxTime + Lead) \cup {Never}]
         /\ unstamped' \subseteq Repos
         /\ \A i \in Issues : RepoOf[i] = r => Stamped(i)'
         /\ \A i \in Issues : RepoOf[i] # r =>
                (Stamped(i)' <=> Stamped(i)) /\ (UpdatedSince(i)' <=> UpdatedSince(i))
<1> USE DEF Inv
<1>1. now \in 0..MaxTime /\ time \in Int /\ now - Lag <= time /\ time <= now + Lead
  BY BoundsAreNat, SkewsAreNat DEF ClockReadings, TypeOK
<1>2. time \in (-Lag)..(MaxTime + Lead) /\ time # Never
  BY <1>1, BoundsAreNat, SkewsAreNat, NeverIsNoTime
<1>3. /\ lastPolled'[r] = time /\ unstamped' = unstamped \ {r} /\ updatedAt' = updatedAt
      /\ \A s \in Repos : s # r => lastPolled'[s] = lastPolled[s]
      /\ lastPolled' \in [Repos -> (-Lag)..(MaxTime + Lead) \cup {Never}]
  BY <1>2 DEF StampedAt, TypeOK, githubVars
<1>4. ASSUME NEW i \in Issues, RepoOf[i] = r PROVE Stamped(i)'
  <2>1. updatedAt[i] \in Int /\ updatedAt[i] <= now
    BY BoundsAreNat DEF TypeOK, UpdatesArePast
  <2>2. updatedAt[i] <= time + Lag
    BY <1>1, <2>1, BoundsAreNat, SkewsAreNat
  <2> QED
    BY <1>2, <1>3, <1>4, <2>2 DEF Stamped
<1>5. \A i \in Issues : RepoOf[i] # r =>
        (Stamped(i)' <=> Stamped(i)) /\ (UpdatedSince(i)' <=> UpdatedSince(i))
  BY <1>3, RepoOfType DEF Stamped, UpdatedSince
<1> QED
  BY <1>3, <1>4, <1>5 DEF TypeOK

(***************************************************************************)
(* Stamp: what it hides from the next poll has been read by this one.      *)
(***************************************************************************)
LEMMA StampInv ==
  ASSUME Inv, NEW r \in Repos, Stamp(r)
  PROVE  Inv'
<1> USE DEF Inv
<1> DEFINE kept == \E time \in ClockReadings : StampedAt(r, time) /\ UNCHANGED faults
           undone == unstamped' = unstamped \cup {r} /\ Fault /\ UNCHANGED lastPolled
<1>1. /\ phase[r] = "stamping" /\ phase' = [phase EXCEPT ![r] = "dispatching"]
      /\ offset' = [offset EXCEPT ![r] = 0]
      /\ kept \/ undone
      /\ UNCHANGED <<now, githubVars, mode, attempt, batch, handled, urlKnown, excuse>>
  BY DEF Stamp
<1>2. /\ lastPolled' \in [Repos -> (-Lag)..(MaxTime + Lead) \cup {Never}]
      /\ unstamped' \subseteq Repos /\ faults' \in 0..MaxFaults
      /\ \A i \in Issues : RepoOf[i] = r => Stamped(i)'
      /\ \A i \in Issues : RepoOf[i] # r =>
             (Stamped(i)' <=> Stamped(i)) /\ (UpdatedSince(i)' <=> UpdatedSince(i))
  <2>1. CASE kept
    <3>1. faults' \in 0..MaxFaults
      BY <2>1 DEF TypeOK
    <3> QED
      BY <1>1, <2>1, <3>1, StampCovers
  <2>2. CASE undone
    <3>1. faults' \in 0..MaxFaults
      BY <2>2, BoundsAreNat DEF Fault, TypeOK
    <3> QED
      BY <1>1, <2>2, <3>1, RepoOfType DEF Stamped, UpdatedSince, TypeOK, githubVars
  <2> QED
    BY <1>1, <2>1, <2>2
<1> HIDE DEF kept, undone
<1>3. /\ phase'[r] = "dispatching" /\ offset'[r] = 0
      /\ \A s \in Repos : s # r => phase'[s] = phase[s] /\ offset'[s] = offset[s]
      /\ version' = version /\ updatedAt' = updatedAt /\ open' = open
      /\ phase' \in [Repos -> Phases] /\ offset' \in [Repos -> Nat]
  BY <1>1 DEF TypeOK, githubVars, Phases
<1>4. TypeOK'
  BY <1>1, <1>2, <1>3 DEF TypeOK, githubVars, Phases
<1>5. UpdatesArePast' /\ BatchesBelongToPolls'
  BY <1>1, <1>3 DEF UpdatesArePast, BatchesBelongToPolls
<1>6. \A i \in Issues :
        /\ RepoOf[i] \in Repos
        /\ Concerns(i)' <=> Concerns(i)
        /\ IsRead(i)' <=> IsRead(i)
        /\ RepoOf[i] # r => Rank(i)' = Rank(i)
  <2>1. ASSUME NEW i \in Issues, RepoOf[i] # r PROVE Rank(i)' = Rank(i)
    <3>1. Listing(RepoOf[i])' = Listing(RepoOf[i])
      BY <1>2, <1>3, <2>1 DEF Listing, IssuesOf
    <3>2. Ahead(i)' = Ahead(i)
      BY <1>3, <3>1 DEF Ahead, Precedes
    <3> QED
      BY <3>2 DEF Rank, Ahead
  <2> QED
    BY <1>1, <1>3, <2>1, RepoOfType DEF IsRead, IsLatest, Concerns
<1>7. FetchesAreComplete'
  BY <1>1, <1>2, <1>3, <1>6 DEF FetchesAreComplete, IsUnread
<1>8. DispatchedIsStamped'
  BY <1>1, <1>2, <1>3, <1>6 DEF DispatchedIsStamped
<1>9. LossIsExplained'
  <2> SUFFICES ASSUME NEW i \in Issues, Concerns(i), excuse[i] = "none"
               PROVE  IsCovered(i)'
    BY <1>1, <1>6 DEF LossIsExplained
  <2>1. i \in handled \/ (phase[RepoOf[i]] = "dispatching" /\ IsRead(i)) \/ UpdatedSince(i)
    BY DEF LossIsExplained, IsCovered
  <2>2. CASE RepoOf[i] = r
    BY <1>1, <1>3, <1>6, <2>1, <2>2 DEF FetchesAreComplete, IsCovered
  <2>3. CASE RepoOf[i] # r
    BY <1>1, <1>2, <1>3, <1>6, <2>1, <2>3 DEF IsCovered
  <2> QED
    BY <2>2, <2>3
<1> QED
  BY <1>4, <1>5, <1>7, <1>8, <1>9

-----------------------------------------------------------------------------
(***************************************************************************)
(* Events that are let go excuse the loss of what they were the latest of, *)
(* and nothing else.                                                       *)
(***************************************************************************)
LEMMA DroppedMarks ==
  ASSUME TypeOK, NEW events
  PROVE  /\ Dropped(events) \in [Issues -> Excuses]
         /\ \A i \in Issues :
               /\ Dropped(events)[i] = "none" => excuse[i] = "none"
               /\ Dropped(events)[i] = "none" /\ i \in open =>
                     \A e \in events : ~IsLatest(i, e)
<1>1. \A i \in Issues :
        Dropped(events)[i] = IF i \in open /\ \E e \in events : IsLatest(i, e)
                             THEN "dropped" ELSE excuse[i]
  BY DEF Dropped
<1>2. \A i \in Issues : Dropped(events)[i] \in Excuses
  BY <1>1 DEF TypeOK, Excuses
<1>3. Dropped(events) \in [Issues -> Excuses]
  BY <1>2 DEF Dropped
<1> QED
  BY <1>1, <1>3

(***************************************************************************)
(* DispatchEvent: the event leaves the batch for the queue, or is let go.  *)
(***************************************************************************)
LEMMA DispatchEventInv ==
  ASSUME Inv, NEW r \in Repos, NEW e \in batch[r], DispatchEvent(r, e)
  PROVE  Inv'
<1> USE DEF Inv
<1> DEFINE latest == {i \in open : IsLatest(i, e)}
<1>1. /\ phase[r] = "dispatching"
      /\ batch' = [batch EXCEPT ![r] = @ \ {e}]
      /\ \/ handled' = handled \cup latest /\ excuse' = excuse
         \/ excuse' = Dropped({e}) /\ handled' = handled
      /\ UNCHANGED <<now, githubVars, lastPolled, mode, phase, attempt, offset, urlKnown,
                     faults, unstamped>>
  BY DEF DispatchEvent
<1>2. RepoOf[e[1]] = r /\ \A i \in Issues : IsLatest(i, e) => RepoOf[i] = r /\ IsRead(i)
  BY DEF BatchesBelongToPolls, IsLatest, IsRead
<1>3. /\ handled' \subseteq Issues /\ handled \subseteq handled'
      /\ \A i \in handled' : i \in handled \/ IsLatest(i, e)
      /\ excuse' \in [Issues -> Excuses]
      /\ \A i \in Issues : excuse'[i] = "none" => excuse[i] = "none"
      /\ \A i \in Issues : Concerns(i) /\ IsLatest(i, e) /\ excuse'[i] = "none" =>
             i \in handled'
  BY <1>1, DroppedMarks DEF TypeOK, Concerns
<1> HIDE DEF latest
<1>4. /\ batch'[r] = batch[r] \ {e} /\ \A s \in Repos : s # r => batch'[s] = batch[s]
      /\ batch' \in [Repos -> SUBSET Events]
      /\ version' = version /\ updatedAt' = updatedAt /\ open' = open
  BY <1>1 DEF TypeOK, githubVars
<1>5. TypeOK'
  BY <1>1, <1>3, <1>4 DEF TypeOK, githubVars
<1>6. UpdatesArePast' /\ BatchesBelongToPolls'
  BY <1>1, <1>4 DEF UpdatesArePast, BatchesBelongToPolls
<1>7. \A i \in Issues :
        /\ RepoOf[i] \in Repos
        /\ Concerns(i)' <=> Concerns(i)
        /\ Stamped(i)' <=> Stamped(i)
        /\ UpdatedSince(i)' <=> UpdatedSince(i)
        /\ IsRead(i)' => IsRead(i)
        /\ IsRead(i) => IsRead(i)' \/ IsLatest(i, e)
        /\ Rank(i)' = Rank(i)
  BY <1>1, <1>4, RepoOfType, RankStays
     DEF IsRead, IsLatest, Concerns, Stamped, UpdatedSince
<1>8. FetchesAreComplete'
  BY <1>1, <1>2, <1>3, <1>7 DEF FetchesAreComplete, IsUnread
<1>9. DispatchedIsStamped'
  BY <1>1, <1>2, <1>3, <1>7 DEF DispatchedIsStamped
<1>10. LossIsExplained'
  BY <1>1, <1>3, <1>7 DEF LossIsExplained, IsCovered
<1> QED
  BY <1>5, <1>6, <1>8, <1>9, <1>10

-----------------------------------------------------------------------------
(***************************************************************************)
(* PollRaises: a batch that was stamped is lost; one that was not is       *)
(* fetched again.                                                          *)
(***************************************************************************)
LEMMA PollRaisesInv ==
  ASSUME Inv, NEW r \in Repos, PollRaises(r)
  PROVE  Inv'
<1> USE DEF Inv
<1> DEFINE fails == excuse' = Dropped(LostWith(r)) /\ UNCHANGED <<lastPolled, unstamped>>
           stamps == /\ phase[r] = "stamping"
                     /\ \E time \in ClockReadings : StampedAt(r, time)
                     /\ excuse' = Dropped(batch[r])
<1>1. /\ phase[r] \in {"fetching", "stamping", "dispatching"}
      /\ phase' = [phase EXCEPT ![r] = "idle"]
      /\ attempt' = [attempt EXCEPT ![r] = 0]
      /\ offset' = [offset EXCEPT ![r] = 0]
      /\ batch' = [batch EXCEPT ![r] = {}]
      /\ mode' = "dead"
      /\ fails \/ stamps
      /\ UNCHANGED <<now, githubVars, handled, urlKnown>>
  BY DEF PollRaises, LeaveFetch
<1>2. faults' \in 0..MaxFaults
  BY BoundsAreNat DEF PollRaises, Fault, TypeOK
<1>3. /\ excuse' \in [Issues -> Excuses]
      /\ \A i \in Issues : excuse'[i] = "none" => excuse[i] = "none"
      /\ \A i \in Issues :
            /\ RepoOf[i] = r /\ i \in open /\ excuse'[i] = "none"
            /\ phase[r] = "dispatching" \/ stamps
            => ~IsRead(i)
  <2>1. excuse' = Dropped(LostWith(r)) \/ excuse' = Dropped(batch[r])
    BY <1>1
  <2>2. phase[r] = "dispatching" \/ stamps => excuse' = Dropped(batch[r])
    BY <1>1 DEF LostWith
  <2> HIDE DEF fails, stamps
  <2> QED
    BY <2>1, <2>2, DroppedMarks DEF IsRead
<1>4. /\ lastPolled' \in [Repos -> (-Lag)..(MaxTime + Lead) \cup {Never}]
      /\ unstamped' \subseteq Repos
      /\ \A i \in Issues : RepoOf[i] = r => (Stamped(i) => Stamped(i)')
      /\ \A i \in Issues : RepoOf[i] # r \/ fails =>
             (Stamped(i)' <=> Stamped(i)) /\ (UpdatedSince(i)' <=> UpdatedSince(i))
  <2>1. CASE fails
    BY <1>1, <2>1 DEF Stamped, UpdatedSince, TypeOK, githubVars
  <2>2. CASE stamps /\ ~fails
    BY <1>1, <2>2, StampCovers
  <2> QED
    BY <1>1, <2>1, <2>2
<1>5. fails \/ (stamps /\ phase[r] = "stamping")
  BY <1>1
<1> HIDE DEF fails, stamps
<1>6. /\ phase'[r] = "idle" /\ offset'[r] = 0 /\ batch'[r] = {}
      /\ \A s \in Repos : s # r =>
             phase'[s] = phase[s] /\ offset'[s] = offset[s] /\ batch'[s] = batch[s]
      /\ version' = version /\ updatedAt' = updatedAt /\ open' = open
      /\ phase' \in [Repos -> Phases] /\ offset' \in [Repos -> Nat]
      /\ attempt' \in [Repos -> 0..1] /\ batch' \in [Repos -> SUBSET Events]
  BY <1>1 DEF TypeOK, githubVars, Phases
<1>7. TypeOK'
  BY <1>1, <1>2, <1>3, <1>4, <1>6 DEF TypeOK, githubVars, Phases
<1>8. UpdatesArePast' /\ BatchesBelongToPolls'
  BY <1>1, <1>6 DEF UpdatesArePast, BatchesBelongToPolls
<1>9. \A i \in Issues :
        /\ RepoOf[i] \in Repos
        /\ Concerns(i)' <=> Concerns(i)
        /\ RepoOf[i] # r => (IsRead(i)' <=> IsRead(i)) /\ Rank(i)' = Rank(i)
        /\ RepoOf[i] = r => ~IsRead(i)'
  <2>1. ASSUME NEW i \in Issues, RepoOf[i] # r PROVE Rank(i)' = Rank(i)
    <3>1. Listing(RepoOf[i])' = Listing(RepoOf[i])
      BY <1>4, <1>6, <2>1 DEF Listing, IssuesOf
    <3>2. Ahead(i)' = Ahead(i)
      BY <1>6, <3>1 DEF Ahead, Precedes
    <3> QED
      BY <3>2 DEF Rank, Ahead
  <2> QED
    BY <1>6, <2>1, RepoOfType DEF IsRead, IsLatest, Concerns
<1>10. FetchesAreComplete'
  BY <1>3, <1>4, <1>6, <1>9 DEF FetchesAreComplete, IsUnread
<1>11. DispatchedIsStamped'
  BY <1>1, <1>4, <1>6, <1>9 DEF DispatchedIsStamped
<1>12. LossIsExplained'
  <2> SUFFICES ASSUME NEW i \in Issues, Concerns(i), excuse'[i] = "none"
               PROVE  IsCovered(i)'
    BY <1>9 DEF LossIsExplained
  <2>1. /\ excuse[i] = "none" /\ i \in open
        /\ i \in handled \/ (phase[RepoOf[i]] = "dispatching" /\ IsRead(i)) \/ UpdatedSince(i)
    BY <1>3 DEF LossIsExplained, IsCovered, Concerns
  <2>2. CASE RepoOf[i] = r /\ fails
    BY <1>1, <1>3, <1>4, <2>1, <2>2 DEF IsCovered
  <2>3. CASE RepoOf[i] = r /\ stamps /\ phase[r] = "stamping"
    BY <1>1, <1>3, <2>1, <2>3 DEF FetchesAreComplete, IsCovered
  <2>4. CASE RepoOf[i] # r
    BY <1>1, <1>4, <1>6, <1>9, <2>1, <2>4 DEF IsCovered
  <2> QED
    BY <1>5, <2>2, <2>3, <2>4
<1> QED
  BY <1>7, <1>8, <1>10, <1>11, <1>12

(***************************************************************************)
(* Crash: the same for the batches of all repositories.                    *)
(***************************************************************************)
LEMMA CrashInv ==
  ASSUME Inv, Crash
  PROVE  Inv'
<1> USE DEF Inv
<1> DEFINE gone == UNION {LostWith(s) : s \in Repos}
<1>1. /\ mode' = "off" /\ phase' = [s \in Repos |-> "idle"]
      /\ attempt' = [s \in Repos |-> 0] /\ offset' = [s \in Repos |-> 0]
      /\ batch' = [s \in Repos |-> {}]
      /\ excuse' = Dropped(gone)
      /\ urlKnown' = FALSE
      /\ UNCHANGED <<now, githubVars, lastPolled, handled, unstamped>>
  BY DEF Crash
<1>2. faults' \in 0..MaxFaults
  BY BoundsAreNat DEF Crash, Fault, TypeOK
<1>3. \A i \in Issues : phase[RepoOf[i]] = "dispatching" /\ IsRead(i) =>
        \E e \in gone : IsLatest(i, e)
  BY RepoOfType DEF LostWith, IsRead
<1> HIDE DEF gone
<1>4. /\ excuse' \in [Issues -> Excuses]
      /\ \A i \in Issues : excuse'[i] = "none" => excuse[i] = "none"
      /\ \A i \in Issues : i \in open /\ excuse'[i] = "none" /\ IsRead(i) =>
             phase[RepoOf[i]] # "dispatching"
  BY <1>1, <1>3, DroppedMarks
<1>5. /\ version' = version /\ updatedAt' = updatedAt /\ open' = open
      /\ \A s \in Repos : phase'[s] = "idle" /\ offset'[s] = 0 /\ batch'[s] = {}
      /\ attempt' \in [Repos -> 0..1]
  BY <1>1 DEF githubVars
<1>6. TypeOK'
  BY <1>1, <1>2, <1>4, <1>5 DEF TypeOK, githubVars
<1>7. UpdatesArePast' /\ BatchesBelongToPolls'
  BY <1>1, <1>5 DEF UpdatesArePast, BatchesBelongToPolls
<1>8. \A i \in Issues :
        /\ RepoOf[i] \in Repos
        /\ Concerns(i)' <=> Concerns(i)
        /\ Stamped(i)' <=> Stamped(i)
        /\ UpdatedSince(i)' <=> UpdatedSince(i)
        /\ ~IsRead(i)'
  BY <1>1, <1>5, RepoOfType DEF IsRead, Concerns, Stamped, UpdatedSince
<1>9. FetchesAreComplete' /\ DispatchedIsStamped'
  BY <1>1, <1>5, <1>8 DEF FetchesAreComplete, DispatchedIsStamped
<1>10. LossIsExplained'
  BY <1>1, <1>4, <1>8 DEF LossIsExplained, IsCovered, Concerns
<1> QED
  BY <1>6, <1>7, <1>9, <1>10

(***************************************************************************)
(* Every step preserves the inductive invariant.                           *)
(***************************************************************************)
LEMMA NextInv == Inv /\ [Next]_vars => Inv'
<1> SUFFICES ASSUME Inv, [Next]_vars PROVE Inv'
  OBVIOUS
<1>1. CASE Tick \/ RegisterUrl
  BY <1>1, TimeInv
<1>2. CASE StartCycle \/ EndCycle \/ Restart
  BY <1>2, CycleInv
<1>3. ASSUME NEW i \in Issues, Update(i) \/ Close(i)
      PROVE  Inv'
  BY <1>3, UpdateInv, CloseInv
<1>4. ASSUME NEW r \in Repos, PollStep(r)
      PROVE  Inv'
  BY <1>4, IdlePollInv, FetchPageInv, StampInv, DispatchEventInv DEF PollStep
<1>5. ASSUME NEW r \in Repos, RateLimited(r) \/ ApiFails(r) \/ PollRaises(r)
      PROVE  Inv'
  BY <1>5, IdlePollInv, PollRaisesInv
<1>6. CASE Crash
  BY <1>6, CrashInv
<1>7. CASE UNCHANGED vars
  <2>1. /\ TypeOK' /\ now' >= now /\ mode' = mode
        /\ UNCHANGED <<githubVars, lastPolled, handled, historyVars, phase, offset, batch>>
    BY <1>7, BoundsAreNat DEF vars, pollerVars, githubVars, historyVars, Inv, TypeOK
  <2>2. mode' \in {"sleeping", "off"} => \A r \in Repos : phase'[r] = "idle"
    BY <2>1 DEF Inv, BatchesBelongToPolls
  <2> QED
    BY <2>1, <2>2, QuietMovesInv
<1> QED
  BY <1>1, <1>2, <1>3, <1>4, <1>5, <1>6, <1>7 DEF Next

-----------------------------------------------------------------------------
(* The theorems.                                                           *)

(***************************************************************************)
(* The inductive invariant holds throughout.                               *)
(***************************************************************************)
THEOREM Invariance == Spec => []Inv
<1>1. Inv /\ [Next]_vars => Inv'
  BY NextInv
<1> QED
  BY InitInv, <1>1, PTL DEF Spec

(***************************************************************************)
(* Every variable stays in its type.                                       *)
(***************************************************************************)
THEOREM TypeCorrect == Spec => []TypeOK
<1>1. Inv => TypeOK
  BY DEF Inv
<1> QED
  BY Invariance, <1>1, PTL

(***************************************************************************)
(* poller.py: an update of an open issue is lost only in the ways          *)
(* LossIsExplained names, for every page size and every skew of the clocks.*)
(***************************************************************************)
THEOREM LossesHaveReasons == Spec => []LossIsExplained
<1>1. Inv => LossIsExplained
  BY DEF Inv
<1> QED
  BY Invariance, <1>1, PTL

(***************************************************************************)
(* get_issues(since=last_polled): what was dispatched once comes back with *)
(* a later poll only if it was updated in the last seconds before the      *)
(* stamp, as many as the harness's clock may be behind, or in the stamp's. *)
(***************************************************************************)
THEOREM RefetchesAreOfTheStampsSecond == Spec => RefetchedOnlyAtStamp
<1> DEFINE Refetched ==
      \A i \in Issues :
          LET r == RepoOf[i] IN
          /\ \E e \in batch'[r] \ batch[r] : IsLatest(i, e)
          /\ i \in handled
          => r \in unstamped \/ updatedAt[i] - lastPolled[r] \in 0..Lag
<1>1. Inv /\ [Next]_vars => [Refetched]_vars
  <2> SUFFICES ASSUME Inv, Next, NEW i \in Issues,
                      NEW e \in batch'[RepoOf[i]] \ batch[RepoOf[i]], IsLatest(i, e),
                      i \in handled, RepoOf[i] \notin unstamped
               PROVE  updatedAt[i] - lastPolled[RepoOf[i]] \in 0..Lag
    OBVIOUS
  <2>1. RepoOf[i] \in Repos
    BY RepoOfType
  <2>2. PICK r \in Repos : FetchPage(r)
    <3>1. \A s \in Repos : ~(batch'[s] \subseteq batch[s]) => \E r \in Repos : FetchPage(r)
      <4> SUFFICES ASSUME NEW s \in Repos, \A r \in Repos : ~FetchPage(r)
                   PROVE  batch'[s] \subseteq batch[s]
        OBVIOUS
      <4>1. CASE \/ Tick \/ RegisterUrl \/ StartCycle \/ EndCycle \/ Restart
                 \/ \E j \in Issues : Update(j) \/ Close(j)
        BY <4>1 DEF Tick, RegisterUrl, StartCycle, EndCycle, Restart, Update, Close, pollerVars
      <4>2. CASE Crash
        BY <4>2 DEF Crash
      <4>3. ASSUME NEW r \in Repos, RateLimited(r) \/ ApiFails(r) \/ PollRaises(r)
            PROVE  batch'[s] \subseteq batch[s]
        BY <4>3 DEF RateLimited, ApiFails, PollRaises, LeaveFetch, Inv, TypeOK
      <4>4. ASSUME NEW r \in Repos, PollStep(r)
            PROVE  batch'[s] \subseteq batch[s]
        BY <4>4 DEF PollStep, Acquire, Stamp, PollReturns, BackoffEnds, DispatchEvent, Inv, TypeOK
      <4> QED
        BY <4>1, <4>2, <4>3, <4>4 DEF Next
    <3> QED
      BY <2>1, <3>1
  <2>3. UpdatedSince(i)
    <3>1. \E j \in Listing(r) : e = <<j, version[j], offset[r]>> /\ RepoOf[i] = r
      BY <2>1, <2>2 DEF FetchPage, Inv, TypeOK
    <3> QED
      BY <3>1 DEF IsLatest, Listing
  <2>4. lastPolled[RepoOf[i]] # Never /\ updatedAt[i] <= lastPolled[RepoOf[i]] + Lag
    BY DEF Inv, DispatchedIsStamped, Stamped
  <2>5. updatedAt[i] \in Int /\ lastPolled[RepoOf[i]] \in Int
    BY <2>1, <2>4, BoundsAreNat, SkewsAreNat DEF Inv, TypeOK
  <2> QED
    BY <2>3, <2>4, <2>5, SkewsAreNat DEF UpdatedSince
<1> QED
  BY Invariance, <1>1, PTL DEF Spec, RefetchedOnlyAtStamp

=============================================================================
