---------------------- MODULE WorkspaceFileMonitorProofs ----------------------
(***************************************************************************)
(* The queue of disk changes, for every set of paths and every MaxPending: *)
(* it is bounded, loses nothing, never sleeps on work, tells when results  *)
(* are stale, and implements the feed of ChangeFeed.                       *)
(***************************************************************************)
EXTENDS WorkspaceFileMonitor, FiniteSetTheorems, TLAPS

(* A drain holds what it took only while it runs.                          *)
TakenWhileRunning == ~running => taken = {}

IInv == TypeOK /\ NothingLost /\ NoLostWakeup /\ StaleIsTold /\ TakenWhileRunning

(* What the queue may become after one more path is within the bound.      *)
LEMMA QueueBounded ==
    ASSUME NEW paths \in SUBSET Path, ~Overfull(paths)
    PROVE  Cardinality(paths) <= MaxPending
<1>1. IsFiniteSet(paths)
  BY PathIsFinite, FS_Subset
<1>2. Cardinality(paths) \in Nat
  BY <1>1, FS_CardinalityType
<1> QED
  BY <1>2, MaxPendingIsPositive DEF Overfull

LEMMA EmptyQueueBounded == Cardinality({}) <= MaxPending
  BY FS_EmptySet, MaxPendingIsPositive

LEMMA NoBatchTyped ==
    NoBatch \in [rescan : BOOLEAN, changes : SUBSET Path] /\ Cardinality(NoBatch.changes) <= MaxPending
<1>1. NoBatch.changes = {}
  BY DEF NoBatch
<1>2. NoBatch \in [rescan : BOOLEAN, changes : SUBSET Path]
  BY DEF NoBatch
<1> QED
  BY <1>1, <1>2, EmptyQueueBounded

(* The batch taken covers everything owed.                                 *)
LEMMA TakeCoversOwed ==
    ASSUME IInv, ~disposed, TakeBatch
    PROVE  owed' = {} /\ taken' = owed /\ changes' = {} /\ rescan' = FALSE
BY DEF IInv, TypeOK, NothingLost, TakeBatch

LEMMA InitIInv == Init => IInv
<1> SUFFICES ASSUME Init PROVE IInv
  OBVIOUS
<1>1. TypeOK
  BY EmptyQueueBounded, NoBatchTyped DEF Init, TypeOK
<1> QED
  BY <1>1 DEF Init, IInv, NothingLost, NoLostWakeup, StaleIsTold, TakenWhileRunning

LEMMA StepTypeOK == IInv /\ [Next]_vars => TypeOK'
<1> SUFFICES ASSUME IInv, [Next]_vars PROVE TypeOK'
  OBVIOUS
<1> USE DEF IInv
<1>1. ASSUME NEW path \in Path, Enqueue(path) PROVE TypeOK'
  <2> DEFINE paths == IF rescan THEN changes ELSE changes \union {path}
  <2>1. paths \in SUBSET Path
    BY DEF TypeOK
  <2>2. changes' = IF Overfull(paths) THEN {} ELSE paths
    BY <1>1 DEF Enqueue
  <2>3. changes' \in SUBSET Path /\ Cardinality(changes') <= MaxPending
    BY <2>1, <2>2, QueueBounded, EmptyQueueBounded
  <2>4. rescan' \in BOOLEAN
    BY <1>1 DEF Enqueue, RescanAfter, TypeOK, Overfull
  <2>5. timer' \in BOOLEAN /\ pending' \in BOOLEAN /\ failed' \in BOOLEAN
    BY <1>1 DEF Enqueue, Schedule, Armed
  <2> QED
    BY <1>1, <2>3, <2>4, <2>5 DEF Enqueue, TypeOK
<1>2. CASE RequestRescan
  BY <1>2 DEF RequestRescan, Schedule, Armed, TypeOK
<1>3. ASSUME TakeBatch PROVE /\ changes' \in SUBSET Path /\ Cardinality(changes') <= MaxPending
                             /\ batch' \in [rescan : BOOLEAN, changes : SUBSET Path]
                             /\ Cardinality(batch'.changes) <= MaxPending
                             /\ rescan' \in BOOLEAN /\ failed' \in BOOLEAN
                             /\ owed' \in SUBSET Path /\ taken' \in SUBSET Path
  BY <1>3, EmptyQueueBounded DEF TakeBatch, TypeOK
<1>4. CASE Flush
  <2>1. CASE ~running /\ MoreToDo
    BY <1>3, <1>4, <2>1 DEF Flush, TypeOK
  <2>2. CASE running \/ ~MoreToDo
    BY <1>4, <2>2 DEF Flush, TellPending, TypeOK, queue, history
  <2> QED
    BY <2>1, <2>2
<1>5. CASE BatchSucceeds
  <2>1. CASE MoreToDo
    BY <1>3, <1>5, <2>1 DEF BatchSucceeds, TypeOK
  <2>2. CASE ~MoreToDo
    <3>1. batch' = NoBatch
      BY <1>5, <2>2 DEF BatchSucceeds
    <3> QED
      BY <1>5, <2>2, <3>1, NoBatchTyped DEF BatchSucceeds, TellPending, TypeOK
  <2> QED
    BY <2>1, <2>2
<1>6. CASE BatchFails
  BY <1>6, NoBatchTyped DEF BatchFails, TellPending, TypeOK
<1>7. CASE Dispose
  BY <1>7, EmptyQueueBounded DEF Dispose, TypeOK
<1>8. CASE UNCHANGED vars
  BY <1>8 DEF vars, queue, history, TypeOK
<1> QED
  BY <1>1, <1>2, <1>4, <1>5, <1>6, <1>7, <1>8 DEF Next

LEMMA StepQueue ==
    IInv /\ [Next]_vars => NothingLost' /\ NoLostWakeup' /\ StaleIsTold' /\ TakenWhileRunning'
<1> DEFINE Rest == NothingLost /\ NoLostWakeup /\ StaleIsTold /\ TakenWhileRunning
<1> SUFFICES ASSUME IInv, [Next]_vars PROVE Rest'
  BY DEF Rest
<1> USE DEF NothingLost, NoLostWakeup, StaleIsTold, TakenWhileRunning
<1>1. ASSUME NEW path \in Path, Enqueue(path) PROVE Rest'
  <2>1. timer' /\ pending'
    BY <1>1 DEF Enqueue, Schedule, Armed
  <2>2. TakenWhileRunning'
    BY <1>1 DEF Enqueue, IInv
  <2>3. ~rescan' => owed' = changes'
    BY <1>1 DEF Enqueue, RescanAfter, IInv
  <2> QED
    BY <2>1, <2>2, <2>3
<1>2. CASE RequestRescan
  BY <1>2 DEF RequestRescan, Schedule, Armed, IInv
<1>3. CASE Flush
  <2>1. CASE running
    BY <1>3, <2>1 DEF Flush, queue, history, IInv
  <2>2. CASE ~running /\ MoreToDo
    <3>1. ~disposed /\ TakeBatch /\ running' /\ pending' = pending /\ disposed' = disposed
      BY <1>3, <2>2 DEF Flush
    <3>2. owed' = {} /\ taken' = owed /\ changes' = {} /\ rescan' = FALSE
      BY <3>1, TakeCoversOwed
    <3> QED
      BY <3>1, <3>2 DEF IInv
  <2>3. CASE ~running /\ ~MoreToDo
    <3>1. ~disposed /\ UNCHANGED <<changes, rescan, running, owed, taken, failed, disposed>>
      BY <1>3, <2>3 DEF Flush, queue, history
    <3>2. ~rescan /\ changes = {}
      BY <2>3, <3>1 DEF MoreToDo
    <3>3. owed = {} /\ taken = {}
      BY <2>3, <3>1, <3>2 DEF IInv
    <3> QED
      BY <2>3, <3>1, <3>2, <3>3 DEF IInv
  <2> QED
    BY <2>1, <2>2, <2>3
<1>4. CASE BatchSucceeds
  <2>1. CASE MoreToDo
    <3>1. owed' = {} /\ taken' = owed /\ changes' = {} /\ rescan' = FALSE
      BY <1>4, <2>1, TakeCoversOwed DEF BatchSucceeds, MoreToDo
    <3> QED
      BY <1>4, <2>1, <3>1 DEF BatchSucceeds, IInv
  <2>2. CASE ~MoreToDo
    <3>1. taken' = {} /\ UNCHANGED <<changes, rescan, owed, disposed>>
      BY <1>4, <2>2 DEF BatchSucceeds
    <3>2. ~disposed => ~rescan /\ changes = {}
      BY <2>2 DEF MoreToDo
    <3>3. ~disposed => owed = {}
      BY <3>2 DEF IInv
    <3> QED
      BY <3>1, <3>2, <3>3
  <2> QED
    BY <2>1, <2>2
<1>5. CASE BatchFails
  BY <1>5 DEF BatchFails, TellPending, IInv
<1>6. CASE Dispose
  BY <1>6 DEF Dispose, IInv
<1>7. CASE UNCHANGED vars
  BY <1>7 DEF vars, queue, history, IInv
<1> QED
  BY <1>1, <1>2, <1>3, <1>4, <1>5, <1>6, <1>7 DEF Next

(* The strengthening is an invariant of the queue.                         *)
THEOREM InductiveInvariant == Spec => []IInv
<1>1. IInv /\ [Next]_vars => IInv'
  BY StepTypeOK, StepQueue DEF IInv
<1> QED
  BY InitIInv, <1>1, PTL DEF Spec

(* The queue and the batches stay within MaxPending paths.                 *)
THEOREM QueueIsBounded == Spec => []TypeOK
<1>1. IInv => TypeOK
  BY DEF IInv
<1> QED
  BY InductiveInvariant, <1>1, PTL

(* No change reported to enqueue or requestRescan is lost before a batch   *)
(* takes it, whatever overflows, fails or arrives meanwhile.               *)
THEOREM NoChangeIsLost == Spec => []NothingLost
<1>1. IInv => NothingLost
  BY DEF IInv
<1> QED
  BY InductiveInvariant, <1>1, PTL

(* The monitor never sleeps on queued changes, but after a failed batch.   *)
THEOREM WorkIsNeverSleptOn == Spec => []NoLostWakeup
<1>1. IInv => NoLostWakeup
  BY DEF IInv
<1> QED
  BY InductiveInvariant, <1>1, PTL

(* onPending has been told the results are stale while they are.           *)
THEOREM StaleResultsAreTold == Spec => []StaleIsTold
<1>1. IInv => StaleIsTold
  BY DEF IInv
<1> QED
  BY InductiveInvariant, <1>1, PTL

-----------------------------------------------------------------------------
(* Every step of the queue is a step of the feed, or none.                 *)
LEMMA StepFeed == IInv /\ [Next]_vars => [Feed!Next]_(Feed!feed)
<1> SUFFICES ASSUME IInv, [Next]_vars PROVE [Feed!Next]_(Feed!feed)
  OBVIOUS
<1>1. ASSUME NEW path \in Path, Enqueue(path) PROVE Feed!Next
  <2>1. Feed!Report({path})
    BY <1>1 DEF Enqueue, Feed!Report
  <2>2. {path} \in SUBSET Path
    OBVIOUS
  <2> QED
    BY <2>1, <2>2 DEF Feed!Next
<1>2. CASE RequestRescan
  <2>1. Feed!Report(Path)
    BY <1>2 DEF RequestRescan, Feed!Report, IInv, TypeOK
  <2> QED
    BY <2>1 DEF Feed!Next
<1>3. CASE Flush
  <2>1. CASE ~running /\ MoreToDo
    <3>1. owed' = {} /\ taken' = owed
      BY <1>3, <2>1, TakeCoversOwed DEF Flush
    <3> QED
      BY <1>3, <2>1, <3>1 DEF Flush, Feed!Next, Feed!Take, IInv, TakenWhileRunning
  <2>2. CASE running \/ ~MoreToDo
    BY <1>3, <2>2 DEF Flush, history, Feed!feed
  <2> QED
    BY <2>1, <2>2
<1>4. CASE BatchSucceeds
  <2>1. CASE MoreToDo
    <3>1. ~disposed
      BY <2>1 DEF MoreToDo
    <3>2. owed' = {} /\ taken' = owed
      BY <1>4, <2>1, <3>1, TakeCoversOwed DEF BatchSucceeds
    <3> QED
      BY <1>4, <3>1, <3>2 DEF BatchSucceeds, Feed!Next, Feed!Settle
  <2>2. CASE ~MoreToDo
    BY <1>4, <2>2 DEF BatchSucceeds, Feed!Next, Feed!Settle
  <2> QED
    BY <2>1, <2>2
<1>5. CASE BatchFails
  BY <1>5 DEF BatchFails, Feed!Next, Feed!GiveBack
<1>6. CASE Dispose
  BY <1>6 DEF Dispose, Feed!Next, Feed!Close
<1>7. CASE UNCHANGED vars
  BY <1>7 DEF vars, history, Feed!feed
<1> QED
  BY <1>1, <1>2, <1>3, <1>4, <1>5, <1>6, <1>7 DEF Next

(* The queue implements the feed: what is reported is owed until a batch   *)
(* that started after the report has succeeded.                            *)
THEOREM QueueImplementsFeed == Spec => ImplementsFeed
<1>1. Init => Feed!Init
  BY DEF Init, Feed!Init
<1> QED
  BY <1>1, StepFeed, InductiveInvariant, PTL DEF Spec, ImplementsFeed, Feed!Spec
=============================================================================
